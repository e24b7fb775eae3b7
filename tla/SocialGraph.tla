---------------------------- MODULE SocialGraph ----------------------------
(***************************************************************************)
(* Friend requests, friendships and blocks of aero-identity                *)
(* (internal/domain/identity/social_graph.go and the block operations of   *)
(* service.go, over internal/storage/postgres).  Sending and accepting     *)
(* read the state of the pair before, and outside of, the statements that  *)
(* change it.  A block deletes what connects the pair in the transaction   *)
(* that adds the block; until it commits, others see the old rows and wait *)
(* for them when they want to delete or replace them.                      *)
(***************************************************************************)
EXTENDS Naturals

CONSTANTS
    People,
    Askers,          \* requests that are executed at the same time
    NoAsk

Pair(a, b) == {a, b}
Ties == {t \in People \X People : t[1] # t[2]}    \* from one to another
Asking == [op: {"send", "accept", "block"}, tie: Ties, gone: SUBSET Ties, parted: BOOLEAN]

ASSUME SocialAssumption == NoAsk \notin Asking

VARIABLES
    asked,           \* user_friend_requests
    friends,         \* user_friendships, one row for both directions
    blocked,         \* user_blocks
    ask              \* where a request is

socialVars == <<asked, friends, blocked, ask>>

SocialTypeOK ==
    /\ asked \subseteq Ties
    /\ friends \subseteq {Pair(l[1], l[2]) : l \in Ties}
    /\ blocked \subseteq Ties
    /\ ask \in [Askers -> Asking \cup {NoAsk}]

SocialInit == asked = {} /\ friends = {} /\ blocked = {} /\ ask = [p \in Askers |-> NoAsk]

Both(l) == {l, <<l[2], l[1]>>}
Friends(l) == Pair(l[1], l[2]) \in friends
Blocked(l) == Both(l) \cap blocked # {}

(* Rows that a block under way has deleted.                                *)
Going(l) == \E p \in Askers : ask[p] # NoAsk /\ l \in ask[p].gone
Parting(l) == \E p \in Askers : ask[p] # NoAsk /\ ask[p].parted /\ l \in Both(ask[p].tie)

Begins(p, op, l) ==
    /\ ask[p] = NoAsk
    /\ ask' = [ask EXCEPT ![p] = [op |-> op, tie |-> l, gone |-> {}, parted |-> FALSE]]
    /\ UNCHANGED <<asked, friends, blocked>>
Answered(p) == ask' = [ask EXCEPT ![p] = NoAsk]

(* A conflict, nothing to change, an error: what was written is rolled back.*)
Refused(p) == ask[p] # NoAsk /\ Answered(p) /\ UNCHANGED <<asked, friends, blocked>>

-----------------------------------------------------------------------------
SendFriendRequest(p, l) ==
    ~Blocked(l) /\ ~Friends(l) /\ Both(l) \cap asked = {} /\ Begins(p, "send", l)

(* The primary key is the pair, whoever asked first.                       *)
CreateFriendRequest(p) ==
    LET l == ask[p].tie IN
    /\ ask[p] # NoAsk /\ ask[p].op = "send"
    /\ Both(l) \cap asked = {}
    /\ asked' = asked \cup {l}
    /\ Answered(p)
    /\ UNCHANGED <<friends, blocked>>

AcceptFriendRequest(p, l) ==
    ~Blocked(l) /\ ~Friends(l) /\ l \in asked /\ Begins(p, "accept", l)

RequestDeleted_ignored(l) == TRUE
RequestDeleted(l) == l \in asked

CreateFriendship(p) ==
    LET l == ask[p].tie IN
    /\ ask[p] # NoAsk /\ ask[p].op = "accept"
    /\ RequestDeleted(l) /\ ~Going(l) /\ ~Friends(l)
    /\ asked' = asked \ {l}
    /\ friends' = friends \cup {Pair(l[1], l[2])}
    /\ Answered(p)
    /\ UNCHANGED blocked

(* DeclineFriendRequest and CancelOutgoingFriendRequest.                   *)
DeleteFriendRequest(l) ==
    /\ l \in asked /\ ~Going(l)
    /\ asked' = asked \ {l}
    /\ UNCHANGED <<friends, blocked, ask>>

RemoveFriend(l) ==
    /\ Friends(l) /\ ~Parting(l)
    /\ friends' = friends \ {Pair(l[1], l[2])}
    /\ UNCHANGED <<asked, blocked, ask>>

-----------------------------------------------------------------------------
BlockUser(p, l) ==
    /\ ask[p] = NoAsk
    /\ \A k \in Both(l) : ~Going(k) /\ ~Parting(k)
    /\ ask' = [ask EXCEPT ![p] = [op |-> "block", tie |-> l, gone |-> Both(l) \cap asked,
                                  parted |-> Friends(l)]]
    /\ UNCHANGED <<asked, friends, blocked>>

CommitBlock(p) ==
    LET l == ask[p].tie IN
    /\ ask[p] # NoAsk /\ ask[p].op = "block"
    /\ asked' = asked \ ask[p].gone
    /\ friends' = IF ask[p].parted THEN friends \ {Pair(l[1], l[2])} ELSE friends
    /\ blocked' = blocked \cup {l}
    /\ Answered(p)

UnblockUser(l) ==
    /\ l \in blocked
    /\ blocked' = blocked \ {l}
    /\ UNCHANGED <<asked, friends, ask>>

SocialStep(p) ==
    \/ Refused(p)
    \/ \E l \in Ties : SendFriendRequest(p, l) \/ AcceptFriendRequest(p, l) \/ BlockUser(p, l)
    \/ CreateFriendRequest(p) \/ CreateFriendship(p) \/ CommitBlock(p)

SocialNext == \/ \E p \in Askers : SocialStep(p)
              \/ \E l \in Ties : DeleteFriendRequest(l) \/ RemoveFriend(l) \/ UnblockUser(l)

SocialSpec == SocialInit /\ [][SocialNext]_socialVars

-----------------------------------------------------------------------------
(* Nobody becomes a friend against an answer: a friendship uses up a       *)
(* request that is still there, so that one which was cancelled, declined  *)
(* or swept away by a block after it was read connects nobody, and there   *)
(* are never requests in both directions that two acceptances could use.   *)
FriendsByConsent ==
    /\ [][\A l \in Ties : ~Friends(l) /\ Friends(l)' =>
             Both(l) \cap asked # {} /\ Both(l) \cap asked' = {}]_socialVars
    /\ [](\A l \in Ties : l \in asked => <<l[2], l[1]>> \notin asked)

(* "A block brings the social graph into a consistent state": a pair with  *)
(* a block has neither a request nor a friendship (docs/adr/007).          *)
BlockedApart == \A l \in blocked : ~Friends(l) /\ Both(l) \cap asked = {}
=============================================================================

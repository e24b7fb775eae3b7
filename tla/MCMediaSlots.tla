---------------------------- MODULE MCMediaSlots ----------------------------
(* The media of a call with its slots guarded, where the transactions of   *)
(* the guard are single steps, and in a scope of its own the locks that    *)
(* let them be taken for single steps.                                     *)
EXTENDS MCMedia, SlotLocks

CONSTANTS p1, p2

VARIABLES
    scope,
    turn        \* the requests that may still be asked

MCMediaStep == scope = "media" /\ Next /\ UNCHANGED <<lockVars, turn>>

(* The requests of p1 come one after the other, and the last of them       *)
(* overlaps with the one request of p2.  Two requests that are asked       *)
(* together are the same as asked in the other order.                      *)
MCRank == [create |-> 1, join |-> 2, leave |-> 3, end |-> 4, reserve |-> 5, release |-> 6]

MCAsk(p) ==
    /\ Ask(p)
    /\ \/ p = p1 /\ turn = Procs /\ turn' \in {turn, {p2}}
       \/ /\ p = p2 /\ turn = {p2} /\ turn' = {}
          /\ wish[p1] # NoWish /\ tx[p1] = Fresh
          /\ MCRank[wish[p1].op] <= MCRank[wish'[p2].op]

MCLockStep ==
    /\ scope = "locks"
    /\ \E p \in Procs : MCAsk(p) \/ (LockStep(p) /\ UNCHANGED turn)
    /\ UNCHANGED vars

MCInit ==
    /\ Init /\ LockInit /\ turn = Procs
    /\ scope \in {"media", "locks"}
    /\ scope = "locks" => creator[c0] = u1 /\ \A u \in Users : part[u] = NoCall

MCSpec == MCInit /\ [][(MCMediaStep \/ MCLockStep) /\ UNCHANGED scope]_<<vars, lockVars, scope, turn>>

(* Two calls with one grant in all, or one call with two.                  *)
MCOneGrant == serial <= 1 \/ \E c \in CallIds : status[c] = "none"

MCScopes == IF scope = "media" THEN MCFocus ELSE MCOneGrant
=============================================================================

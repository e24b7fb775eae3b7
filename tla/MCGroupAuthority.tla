-------------------------- MODULE MCGroupAuthority --------------------------
EXTENDS GroupAuthority, TLC

MCSymmetry == Permutations(Groups) \cup Permutations(Users) \cup Permutations(Links)
                \cup Permutations(Requests)

MCOneGroup == Cardinality(created) <= 1
MCTwoUsers == \E u \in Users :
    /\ \A g \in Groups : version[<<g, u>>].rev = 0
    /\ \A r \in Requests : req[r] = NoRequest \/ req[r].actor[2] # u

(* Two requests of three users in a group, or of two in two groups: nobody *)
(* is removed, restricted or observed, so that all the steps go into       *)
(* joins, role changes and transfers.                                      *)
MCRaces ==
    /\ outbox = {} /\ restricted = {}
    /\ \A s \in Subjects : observed[s] = 0 /\ version[s].rev <= 1
    /\ MCOneGroup \/ MCTwoUsers

(* One request at a time of two users in one group, as far as the          *)
(* revisions go; one of them at most is observed.                          *)
MCLongLife ==
    /\ MCOneGroup /\ MCTwoUsers
    /\ \E r \in Requests : req[r] = NoRequest
    /\ Cardinality({s \in Subjects : observed[s] > 0}) <= 1

MCFocus == MCRaces \/ MCLongLife
=============================================================================

------------------------------- MODULE MCMedia -------------------------------
(* Small instances of MediaSystem for TLC.                                 *)
EXTENDS MediaSystem, TLC

CONSTANTS u1, u2, c0, c1, c2, team, chat, s1, s2, d1

\* the authority of u in the group, in session s on device d1
Auth(u, s, epoch) ==
    [user |-> u, subject |-> [session |-> s, device |-> d1, group |-> team],
     rev |-> [session |-> 1, device |-> 1, group |-> epoch]]

Deny(n, k, s, u, r) == [id |-> n, kind |-> k, subject |-> s, user |-> u, rev |-> r]

MCSubjects == {s1, s2, d1, team}
MCScopeOf == [c \in Calls |-> team]

\* u1 was denied at epoch 1 and readmitted at epoch 2
MCAuthorities == {Auth(u1, s1, 1), Auth(u1, s1, 2), Auth(u2, s2, 1)}
MCReservers == {Auth(u1, s1, 1), Auth(u2, s2, 1)}

MCEvents == {Deny(1, "group", team, u1, 1), Deny(2, "session", s1, u1, 1)}
MCOneEvent == {Deny(1, "group", team, u1, 1)}

(* Two focuses of the same run: everything about the media of one call     *)
(* whose users join it once; and two calls of a group after each other,    *)
(* with rows left over from an old call and users who join again, but no   *)
(* connections and no deny events.                                         *)
MCOneCall == /\ callState[c2] = "none" /\ creator[c0] = u1
             /\ \A u \in Users : row[u] <= 1 /\ part[u] # c0
MCTwoCalls == /\ \A l \in Leases : lState[l] = "none"
              /\ \A e \in Events : receipt[e] = NoReceipt
MCFocus == MCOneCall \/ MCTwoCalls

(* For the run about the workers: two grants that are torn down with one   *)
(* connection and one request, or one grant with two of each, which take   *)
(* their names in order.                                                   *)
MCTeardowns ==
    /\ \/ lState[2] = "none" /\ iState[2] = "none"
       \/ \E g \in Grants : gState[g] = "none"
    /\ lState[2] # "none" => lState[1] # "none"
    /\ iState[2] # "none" => iState[1] # "none"
MCTeardownSymmetry == Permutations(Workers) \cup Permutations(Grants)
=============================================================================

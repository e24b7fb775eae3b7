------------------------ MODULE GroupAuthorityProofs ------------------------
(***************************************************************************)
(* Proofs about GroupAuthority, for any number of groups, users, links and *)
(* requests.  The argument has two halves that do not need each other: the *)
(* trigger keeps its table and its events right for whatever memberships   *)
(* the transactions leave behind (MembershipsKeepLedger), and no           *)
(* transaction makes somebody an owner without taking the role from the    *)
(* owner there is.                                                         *)
(***************************************************************************)
EXTENDS GroupAuthority, TLAPS

(* What the trigger promises.                                              *)
Ledger == AuthorityExact /\ RevisionsOrdered /\ ObservedIsSettled

GroupInv == GroupTypeOK /\ RequestsBacked /\ GroupsExist /\ Ledger /\ AtMostOneOwner

-----------------------------------------------------------------------------
(* What one row of the trigger's table becomes.                            *)
LEMMA RowIsCaptured ==
    ASSUME GroupTypeOK, AuthorityExact, NEW s \in Subjects, NEW role \in Roles \cup {"none"},
           Accepts(s, role)
    PROVE  /\ Captured(s, role) \in [rev: 0..MaxRevision, present: BOOLEAN, eligible: BOOLEAN]
           /\ Captured(s, role).present = (role # "none")
           /\ Captured(s, role).eligible = Eligible(role)
           /\ Captured(s, role).rev = IF Changes(s, role) THEN version[s].rev + 1 ELSE version[s].rev
           /\ Changes(s, role) => version[s].rev + 1 \in 1..MaxRevision
<1>1. version[s] \in [rev: 0..MaxRevision, present: BOOLEAN, eligible: BOOLEAN]
  BY DEF GroupTypeOK
<1>2. /\ version[s].rev \in 0..MaxRevision
      /\ version[s].present \in BOOLEAN
      /\ version[s].eligible \in BOOLEAN
  BY <1>1
<1>3. CASE Changes(s, role)
  <2>1. role # member[s]
    BY <1>3 DEF Changes, AuthorityExact
  <2>2. version[s].rev < MaxRevision
    BY <1>3, <2>1 DEF Accepts
  <2>3. version[s].rev + 1 \in 1..MaxRevision
    BY <1>2, <2>2, GroupAssumption
  <2>4. Eligible(role) \in BOOLEAN /\ (role # "none") \in BOOLEAN
    BY DEF Eligible
  <2>5. Captured(s, role) = [rev |-> version[s].rev + 1, present |-> role # "none",
                             eligible |-> Eligible(role)]
    BY <1>3 DEF Captured, NextRevision
  <2>6. version[s].rev + 1 \in 0..MaxRevision
    BY <2>3, GroupAssumption
  <2>7. Captured(s, role) \in [rev: 0..MaxRevision, present: BOOLEAN, eligible: BOOLEAN]
    BY <2>4, <2>5, <2>6
  <2>8. QED
    BY <1>3, <2>3, <2>5, <2>7
<1>4. CASE ~Changes(s, role)
  BY <1>1, <1>4 DEF Captured, Changes
<1>5. QED
  BY <1>3, <1>4

(* The events the trigger writes for the memberships m.                    *)
NewEvents(m) == {Event(s, m[s]) : s \in {t \in Subjects : Changes(t, m[t]) /\ Announces(t, m[t])}}

(* Whatever the memberships become, the trigger keeps its promise.         *)
LEMMA MembershipsKeepLedger ==
    ASSUME GroupTypeOK, Ledger, NEW m \in [Subjects -> Roles \cup {"none"}], Memberships(m),
           UNCHANGED observed
    PROVE  /\ version' \in [Subjects -> [rev: 0..MaxRevision, present: BOOLEAN, eligible: BOOLEAN]]
           /\ outbox' \subseteq [subject: Subjects, rev: 1..MaxRevision,
                                 reason: {"member_removed", "eligibility_denied"}]
           /\ Ledger'
<1> DEFINE Row(s) == Captured(s, m[s])
<1>1. /\ member' = m
      /\ version' = [s \in Subjects |-> Row(s)]
      /\ outbox' = outbox \cup NewEvents(m)
      /\ observed' = observed
  BY DEF Memberships, NewEvents
<1>2. ASSUME NEW s \in Subjects
      PROVE  /\ Row(s) \in [rev: 0..MaxRevision, present: BOOLEAN, eligible: BOOLEAN]
             /\ Row(s).present = (m[s] # "none")
             /\ Row(s).eligible = Eligible(m[s])
             /\ Row(s).rev = IF Changes(s, m[s]) THEN version[s].rev + 1 ELSE version[s].rev
             /\ Changes(s, m[s]) => version[s].rev + 1 \in 1..MaxRevision
  BY <1>2, RowIsCaptured DEF Memberships, Ledger
<1>3. ASSUME NEW s \in Subjects
      PROVE  version[s].rev \in Nat /\ observed[s] \in Nat /\ observed[s] <= version[s].rev
  BY <1>3, GroupAssumption DEF GroupTypeOK, Ledger, RevisionsOrdered
<1>4. ASSUME NEW e \in outbox
      PROVE  e.subject \in Subjects /\ e.rev \in Nat
  BY <1>4, GroupAssumption DEF GroupTypeOK
<1>5. ASSUME NEW e \in NewEvents(m)
      PROVE  /\ e \in [subject: Subjects, rev: 1..MaxRevision,
                       reason: {"member_removed", "eligibility_denied"}]
             /\ Changes(e.subject, m[e.subject])
             /\ ~Eligible(m[e.subject])
             /\ e.rev = version[e.subject].rev + 1
  <2>1. PICK s \in Subjects : Changes(s, m[s]) /\ Announces(s, m[s]) /\ e = Event(s, m[s])
    BY <1>5 DEF NewEvents
  <2>2. version[s].rev + 1 \in 1..MaxRevision
    BY <1>2, <2>1
  <2>3. e = [subject |-> s, rev |-> version[s].rev + 1,
             reason |-> IF m[s] = "none" THEN "member_removed" ELSE "eligibility_denied"]
    BY <2>1 DEF Event, NextRevision
  <2>4. QED
    BY <2>1, <2>2, <2>3 DEF Announces
<1>6. version' \in [Subjects -> [rev: 0..MaxRevision, present: BOOLEAN, eligible: BOOLEAN]]
  BY <1>1, <1>2
<1>7. outbox' \subseteq [subject: Subjects, rev: 1..MaxRevision,
                         reason: {"member_removed", "eligibility_denied"}]
  BY <1>1, <1>5 DEF GroupTypeOK
<1>8. AuthorityExact'
  <2> SUFFICES ASSUME NEW s \in Subjects
               PROVE  /\ Row(s).present = (m[s] # "none")
                      /\ Row(s).eligible = Eligible(m[s])
                      /\ Row(s).rev = 0 => ~Row(s).present
    BY <1>1 DEF AuthorityExact, Eligible
  <2>1. CASE Changes(s, m[s])
    BY <1>2, <1>3, <2>1
  <2>2. CASE ~Changes(s, m[s])
    BY <1>2, <2>2 DEF Changes, Ledger, AuthorityExact
  <2>3. QED
    BY <2>1, <2>2
<1>9. RevisionsOrdered'
  <2>1. ASSUME NEW s \in Subjects
        PROVE  observed[s] <= Row(s).rev
    BY <1>2, <1>3, <2>1
  <2>2. ASSUME NEW e \in outbox
        PROVE  /\ e.rev <= Row(e.subject).rev
               /\ Row(e.subject).eligible => e.rev < Row(e.subject).rev
    <3>1. /\ e.rev <= version[e.subject].rev
          /\ version[e.subject].eligible => e.rev < version[e.subject].rev
          /\ e.subject \in Subjects /\ e.rev \in Nat
      BY <1>4, <2>2 DEF Ledger, RevisionsOrdered
    <3>2. CASE Changes(e.subject, m[e.subject])
      BY <1>2, <1>3, <3>1, <3>2
    <3>3. CASE ~Changes(e.subject, m[e.subject])
      BY <1>2, <3>1, <3>3 DEF Changes
    <3>4. QED
      BY <3>2, <3>3
  <2>3. ASSUME NEW e \in NewEvents(m)
        PROVE  /\ e.rev <= Row(e.subject).rev
               /\ ~Row(e.subject).eligible
    <3>1. /\ e.subject \in Subjects /\ ~Eligible(m[e.subject])
          /\ Changes(e.subject, m[e.subject]) /\ e.rev = version[e.subject].rev + 1
      BY <1>5, <2>3
    <3>2. QED
      BY <1>2, <1>3, <3>1
  <2>4. \A e \in outbox' : e.subject \in Subjects
    BY <1>7
  <2>5. QED
    BY <1>1, <2>1, <2>2, <2>3, <2>4 DEF RevisionsOrdered
<1>10. ObservedIsSettled'
  <2> SUFFICES ASSUME NEW s \in Subjects, observed[s] > 0
               PROVE  Covered(s, observed[s])' <=> ~StillCurrent(s, observed[s])'
    BY <1>1 DEF ObservedIsSettled, Covered, StillCurrent
  <2>1. Covered(s, observed[s]) <=> ~StillCurrent(s, observed[s])
    BY DEF Ledger, ObservedIsSettled
  <2>2. Covered(s, observed[s])' <=> \E e \in outbox \cup NewEvents(m) :
                                         e.subject = s /\ observed[s] <= e.rev
    BY <1>1 DEF Covered
  <2>3. StillCurrent(s, observed[s])' <=> Row(s).rev = observed[s] /\ Eligible(m[s])
    BY <1>1 DEF StillCurrent, Eligible
  <2>4. CASE Changes(s, m[s])
    <3>1. ~StillCurrent(s, observed[s])'
      BY <1>2, <1>3, <2>3, <2>4
    <3>2. CASE Covered(s, observed[s])
      BY <2>2, <3>1, <3>2 DEF Covered
    <3>3. CASE StillCurrent(s, observed[s])
      <4>1. ~Eligible(m[s]) /\ version[s].rev = observed[s]
        BY <2>4, <3>3 DEF StillCurrent, Changes, Ledger, AuthorityExact, Eligible
      <4>2. Announces(s, m[s])
        BY <4>1 DEF Announces
      <4>3. Event(s, m[s]) \in NewEvents(m)
        BY <2>4, <4>2 DEF NewEvents
      <4>4. Event(s, m[s]).subject = s /\ observed[s] <= Event(s, m[s]).rev
        BY <1>3, <4>1 DEF Event, NextRevision
      <4>5. QED
        BY <2>2, <3>1, <4>3, <4>4
    <3>4. QED
      BY <2>1, <3>2, <3>3
  <2>5. CASE ~Changes(s, m[s])
    <3>1. \A e \in NewEvents(m) : e.subject # s
      BY <1>5, <2>5
    <3>2. Eligible(m[s]) <=> Eligible(member[s])
      BY <2>5 DEF Changes, Ledger, AuthorityExact
    <3>3. QED
      BY <1>2, <2>1, <2>2, <2>3, <2>5, <3>1, <3>2 DEF Covered, StillCurrent
  <2>6. QED
    BY <2>4, <2>5
<1>11. QED
  BY <1>6, <1>7, <1>8, <1>9, <1>10 DEF Ledger

-----------------------------------------------------------------------------
(* The fields of a request that is being executed.                         *)
LEMMA RequestFields ==
    ASSUME GroupTypeOK, NEW r \in Requests, req[r] # NoRequest
    PROVE  /\ req[r] \in Request
           /\ req[r].actor \in Subjects /\ req[r].target \in Subjects
           /\ req[r].role \in Managed \cup {"none"}
           /\ req[r].link \in Links \cup {NoLink}
  BY DEF GroupTypeOK, Request

(* A request that is accepted, or goes on, holds what RequestsBacked says. *)
Backed(q) ==
    /\ q.op \in {"role", "invite", "join"} => q.role \in Managed
    /\ q.op = "transfer" => q.actor # q.target /\ q.actor[1] = q.target[1]
    /\ q.op \in {"disable", "join"} => q.link \in Links
    /\ q.op = "disable" /\ q.pc = "commit" => link[q.link] # NoLink
    /\ q.op = "join" => /\ link[q.link] # NoLink
                        /\ link[q.link].group = q.actor[1]
                        /\ link[q.link].role = q.role

LEMMA AskedIsBacked ==
    ASSUME GroupTypeOK, RequestsBacked, NEW r \in Requests, NEW q \in Request, Asks(r, q), Backed(q)
    PROVE  GroupTypeOK' /\ RequestsBacked'
<1>1. req' \in [Requests -> Request \cup {NoRequest}]
  BY DEF Asks, GroupTypeOK
<1>2. RequestsBacked'
  <2> SUFFICES ASSUME NEW p \in Requests, req'[p] # NoRequest
               PROVE  Backed(req'[p])
    BY DEF RequestsBacked, Backed, Asks
  <2>1. CASE p = r
    BY <2>1 DEF Asks, GroupTypeOK
  <2>2. CASE p # r
    BY <2>2 DEF Asks, GroupTypeOK, RequestsBacked, Backed
  <2>3. QED
    BY <2>1, <2>2
<1>3. QED
  BY <1>1, <1>2 DEF Asks, GroupTypeOK

LEMMA AskStep ==
    ASSUME GroupTypeOK, RequestsBacked, NEW r \in Requests, Ask(r)
    PROVE  GroupTypeOK' /\ RequestsBacked'
<1> USE GroupAssumption
<1>1. ASSUME NEW op \in {"role", "transfer", "remove", "restrict", "unrestrict"},
             NEW s \in Subjects, NEW t \in Subjects, NEW role \in Managed \cup {"none"},
             AskMember(r, op, s, t, role)
      PROVE  GroupTypeOK' /\ RequestsBacked'
  <2> DEFINE q == [op |-> op, pc |-> "look", actor |-> s, target |-> t, self |-> member[s],
                   role |-> role, link |-> NoLink]
  <2>1. member[s] \in Roles \cup {"none"}
    BY DEF GroupTypeOK
  <2>2. q \in Request
    BY <2>1 DEF Request, Ops
  <2>3. op = "role" => role \in Managed
    BY <1>1, <2>1 DEF AskMember, Below, Managed, Roles
  <2>4. Backed(q) /\ Asks(r, q)
    BY <1>1, <2>3 DEF AskMember, Backed
  <2>5. QED
    BY <2>2, <2>4, AskedIsBacked
<1>2. ASSUME NEW s \in Subjects, AskLeave(r, s)
      PROVE  GroupTypeOK' /\ RequestsBacked'
  <2> DEFINE q == [op |-> "leave", pc |-> "thread", actor |-> s, target |-> s, self |-> member[s],
                   role |-> "none", link |-> NoLink]
  <2>1. member[s] \in Roles \cup {"none"}
    BY DEF GroupTypeOK
  <2>2. q \in Request /\ Backed(q) /\ Asks(r, q)
    BY <1>2, <2>1 DEF Request, Ops, AskLeave, Backed
  <2>3. QED
    BY <2>2, AskedIsBacked
<1>3. ASSUME NEW s \in Subjects, NEW role \in Managed, AskInvite(r, s, role)
      PROVE  GroupTypeOK' /\ RequestsBacked'
  <2> DEFINE q == [op |-> "invite", pc |-> "commit", actor |-> s, target |-> s, self |-> member[s],
                   role |-> role, link |-> NoLink]
  <2>1. member[s] \in Roles \cup {"none"}
    BY DEF GroupTypeOK
  <2>2. q \in Request /\ Backed(q) /\ Asks(r, q)
    BY <1>3, <2>1 DEF Request, Ops, AskInvite, Backed
  <2>3. QED
    BY <2>2, AskedIsBacked
<1>4. ASSUME NEW s \in Subjects, NEW l \in Links, AskDisable(r, s, l)
      PROVE  GroupTypeOK' /\ RequestsBacked'
  <2> DEFINE q == [op |-> "disable", pc |-> "look", actor |-> s, target |-> s, self |-> member[s],
                   role |-> "none", link |-> l]
  <2>1. member[s] \in Roles \cup {"none"}
    BY DEF GroupTypeOK
  <2>2. q \in Request /\ Backed(q) /\ Asks(r, q)
    BY <1>4, <2>1 DEF Request, Ops, AskDisable, Backed
  <2>3. QED
    BY <2>2, AskedIsBacked
<1>5. ASSUME NEW s \in Subjects, NEW l \in Links, AskJoin(r, s, l)
      PROVE  GroupTypeOK' /\ RequestsBacked'
  <2> DEFINE q == [op |-> "join", pc |-> "commit", actor |-> s, target |-> s, self |-> "none",
                   role |-> link[l].role, link |-> l]
  <2>1. link[l] \in [group: Groups, role: Managed, disabled: BOOLEAN]
    BY <1>5 DEF InviteLink, AskJoin, GroupTypeOK
  <2>2. q \in Request /\ Backed(q) /\ Asks(r, q)
    BY <1>5, <2>1 DEF Request, Ops, AskJoin, Backed
  <2>3. QED
    BY <2>2, AskedIsBacked
<1>6. QED
  BY <1>1, <1>2, <1>3, <1>4, <1>5 DEF Ask

(* A request goes from one of its reads to the next.                       *)
LEMMA GoesStep ==
    ASSUME GroupTypeOK, RequestsBacked, NEW r \in Requests, NEW pc \in {"thread", "commit"},
           req[r] # NoRequest, Goes(r, pc),
           req[r].op = "disable" => link[req[r].link] # NoLink
    PROVE  GroupTypeOK' /\ RequestsBacked'
<1> DEFINE q == [req[r] EXCEPT !.pc = pc]
<1>1. req[r] \in Request
  BY RequestFields
<1>2. /\ q \in Request
      /\ q.op = req[r].op /\ q.role = req[r].role /\ q.link = req[r].link
      /\ q.actor = req[r].actor /\ q.target = req[r].target
  BY <1>1 DEF Request
<1>3. req' = [req EXCEPT ![r] = q] /\ link' = link
  BY DEF Goes
<1>4. req' \in [Requests -> Request \cup {NoRequest}]
  BY <1>2, <1>3 DEF GroupTypeOK
<1>5. RequestsBacked'
  <2> SUFFICES ASSUME NEW p \in Requests, req'[p] # NoRequest
               PROVE  Backed(req'[p])
    BY <1>3 DEF RequestsBacked, Backed
  <2>1. CASE p = r
    <3>1. req'[p] = q
      BY <1>3, <2>1 DEF GroupTypeOK
    <3>2. Backed(req[r])
      BY DEF RequestsBacked, Backed
    <3>3. QED
      BY <1>2, <3>1, <3>2 DEF Backed
  <2>2. CASE p # r
    BY <1>3, <2>2 DEF GroupTypeOK, RequestsBacked, Backed
  <2>3. QED
    BY <2>1, <2>2
<1>6. QED
  BY <1>4, <1>5 DEF Goes, GroupTypeOK

LEMMA LookStep ==
    ASSUME GroupTypeOK, RequestsBacked, NEW r \in Requests, Look(r) \/ LookLink(r) \/ LookThread(r)
    PROVE  GroupTypeOK' /\ RequestsBacked'
<1>1. CASE Look(r)
  <2>1. PICK pc \in {"thread", "commit"} : Goes(r, pc)
    BY <1>1 DEF Look
  <2>2. req[r] # NoRequest /\ req[r].op # "disable"
    BY <1>1 DEF Look
  <2>3. QED
    BY <2>1, <2>2, GoesStep
<1>2. CASE LookLink(r)
  BY <1>2, GoesStep DEF LookLink
<1>3. CASE LookThread(r)
  <2>1. req[r] # NoRequest /\ req[r].op # "disable" /\ Goes(r, "commit")
    BY <1>3 DEF LookThread
  <2>2. QED
    BY <2>1, GoesStep
<1>4. QED
  BY <1>1, <1>2, <1>3

-----------------------------------------------------------------------------
(* A request that has committed is gone; the others stay backed if no link *)
(* they came by is lost or becomes another one.                            *)
LEMMA CommitStep ==
    ASSUME GroupTypeOK, RequestsBacked, NEW r \in Requests, req' = [req EXCEPT ![r] = NoRequest],
           \A l \in Links : link[l] # NoLink => /\ link'[l] # NoLink
                                                /\ link'[l].group = link[l].group
                                                /\ link'[l].role = link[l].role
    PROVE  req' \in [Requests -> Request \cup {NoRequest}] /\ RequestsBacked'
<1>1. req' \in [Requests -> Request \cup {NoRequest}]
  BY DEF GroupTypeOK
<1>2. ASSUME NEW p \in Requests, req'[p] # NoRequest
      PROVE  req'[p] = req[p] /\ Backed(req[p]) /\ Backed(req[p])'
  <2>1. p # r
    BY <1>2 DEF GroupTypeOK
  <2>2. req'[p] = req[p]
    BY <2>1 DEF GroupTypeOK
  <2>3. Backed(req[p])
    BY <1>2, <2>2 DEF RequestsBacked, Backed
  <2>4. QED
    BY <2>2, <2>3 DEF Backed
<1>3. RequestsBacked'
  BY <1>2 DEF RequestsBacked, Backed
<1>4. QED
  BY <1>1, <1>3

(* The memberships become m, in a transaction that leaves the links alone  *)
(* and takes restrictions away from nobody but those it removes.           *)
LEMMA MembershipStep ==
    ASSUME GroupInv, NEW m \in [Subjects -> Roles \cup {"none"}], Memberships(m),
           UNCHANGED <<link, observed>>, created' \subseteq Groups,
           restricted' \subseteq {s \in Subjects : m[s] # "none"},
           req' \in [Requests -> Request \cup {NoRequest}]
    PROVE  GroupTypeOK' /\ Ledger' /\ member' = m
<1>1. GroupTypeOK /\ Ledger /\ UNCHANGED observed
  BY DEF GroupInv
<1>2. /\ version' \in [Subjects -> [rev: 0..MaxRevision, present: BOOLEAN, eligible: BOOLEAN]]
      /\ outbox' \subseteq [subject: Subjects, rev: 1..MaxRevision,
                            reason: {"member_removed", "eligibility_denied"}]
      /\ Ledger'
  BY <1>1, MembershipsKeepLedger
<1>3. member' = m
  BY DEF Memberships
<1>4. GroupTypeOK'
  BY <1>1, <1>2, <1>3 DEF GroupTypeOK
<1>5. QED
  BY <1>2, <1>3, <1>4

(* Nobody but the owner of the same group is given away the role for it.   *)
LEMMA OwnersStay ==
    ASSUME AtMostOneOwner, \A s \in Subjects : member'[s] = "owner" => member[s] = "owner"
    PROVE  AtMostOneOwner'
  BY DEF AtMostOneOwner

LEMMA CreateStep ==
    ASSUME GroupInv, NEW s \in Subjects, CreateGroup(s)
    PROVE  GroupInv'
<1> DEFINE m == [member EXCEPT ![s] = "owner"]
<1>1. m \in [Subjects -> Roles \cup {"none"}]
  BY DEF GroupInv, GroupTypeOK, Roles
<1>2. s[1] \in Groups
  BY DEF Subjects
<1>3. /\ Memberships(m) /\ UNCHANGED <<link, observed>> /\ created' \subseteq Groups
      /\ restricted' \subseteq {t \in Subjects : m[t] # "none"}
      /\ req' = req /\ req' \in [Requests -> Request \cup {NoRequest}]
  BY <1>2 DEF CreateGroup, GroupInv, GroupTypeOK
<1>4. GroupTypeOK' /\ Ledger' /\ member' = m
  BY <1>1, <1>3, MembershipStep
<1>5. RequestsBacked'
  BY <1>3 DEF RequestsBacked, GroupInv
<1>6. AtMostOneOwner'
  <2>1. \A t \in Subjects : t[1] = s[1] => member[t] = "none"
    BY DEF CreateGroup, GroupInv, GroupsExist
  <2>2. \A t \in Subjects : member'[t] = IF t = s THEN "owner" ELSE member[t]
    BY <1>4 DEF GroupInv, GroupTypeOK
  <2>3. QED
    BY <2>1, <2>2 DEF AtMostOneOwner, GroupInv
<1>7. GroupsExist'
  <2>1. \A t \in Subjects : member'[t] = IF t = s THEN "owner" ELSE member[t]
    BY <1>4 DEF GroupInv, GroupTypeOK
  <2>2. created' = created \cup {s[1]} /\ link' = link /\ req' = req
    BY DEF CreateGroup
  <2>3. QED
    BY <2>1, <2>2 DEF GroupsExist, GroupInv
<1>8. QED
  BY <1>4, <1>5, <1>6, <1>7 DEF GroupInv

(* The reads of a request change nothing but the request.                  *)
LEMMA ReadStep ==
    ASSUME GroupInv, NEW r \in Requests, Ask(r) \/ Look(r) \/ LookLink(r) \/ LookThread(r)
    PROVE  GroupInv'
<1> USE DEF GroupInv
<1>1. GroupTypeOK' /\ RequestsBacked'
  BY AskStep, LookStep
<1>2. UNCHANGED <<created, member, restricted, version, outbox, link, observed>>
  BY DEF Ask, AskMember, AskLeave, AskInvite, AskDisable, AskJoin, Asks, Look, LookLink, LookThread, Goes
<1>3. Ledger' /\ AtMostOneOwner'
  BY <1>2 DEF Ledger, AuthorityExact, RevisionsOrdered, ObservedIsSettled, Covered, StillCurrent,
              Eligible, AtMostOneOwner
<1>4. ASSUME NEW p \in Requests, req'[p] # NoRequest
      PROVE  req'[p].actor[1] \in created
  <2>1. CASE p # r \/ ~Ask(r)
    <3>1. req[p] # NoRequest /\ req'[p].actor = req[p].actor
      <4>1. CASE ~Ask(r)
        <5>1. PICK pc : req' = [req EXCEPT ![r].pc = pc]
          BY <4>1 DEF Look, LookLink, LookThread, Goes
        <5>2. req[r] # NoRequest
          BY <4>1 DEF Look, LookLink, LookThread
        <5>3. req[r] \in Request
          BY <5>2, RequestFields
        <5>4. QED
          BY <1>4, <5>1, <5>2, <5>3 DEF GroupTypeOK, Request
      <4>2. CASE p # r /\ Ask(r)
        BY <1>4, <4>2 DEF GroupTypeOK, Ask, AskMember, AskLeave, AskInvite, AskDisable, AskJoin, Asks
      <4>3. QED
        BY <2>1, <4>1, <4>2
    <3>2. QED
      BY <3>1 DEF GroupsExist
  <2>2. CASE p = r /\ Ask(r)
    <3>1. req \in [Requests -> Request \cup {NoRequest}]
      BY DEF GroupTypeOK
    <3>2. ASSUME NEW op \in {"role", "transfer", "remove", "restrict", "unrestrict"},
                 NEW s \in Subjects, NEW t \in Subjects, NEW role \in Managed \cup {"none"},
                 AskMember(r, op, s, t, role)
          PROVE  req'[p].actor = s /\ s[1] \in created
      BY <2>2, <3>1, <3>2 DEF AskMember, Asks, GroupsExist
    <3>3. ASSUME NEW s \in Subjects, AskLeave(r, s)
          PROVE  req'[p].actor = s /\ s[1] \in created
      BY <2>2, <3>1, <3>3 DEF AskLeave, Asks, GroupsExist
    <3>4. ASSUME NEW s \in Subjects, NEW role \in Managed, AskInvite(r, s, role)
          PROVE  req'[p].actor = s /\ s[1] \in created
      BY <2>2, <3>1, <3>4 DEF AskInvite, Asks, GroupsExist, Below
    <3>5. ASSUME NEW s \in Subjects, NEW l \in Links, AskDisable(r, s, l)
          PROVE  req'[p].actor = s /\ s[1] \in created
      BY <2>2, <3>1, <3>5 DEF AskDisable, Asks, GroupsExist
    <3>6. ASSUME NEW s \in Subjects, NEW l \in Links, AskJoin(r, s, l)
          PROVE  req'[p].actor = s /\ s[1] \in created
      BY <2>2, <3>1, <3>6 DEF AskJoin, Asks, GroupsExist
    <3>7. QED
      BY <2>2, <3>2, <3>3, <3>4, <3>5, <3>6 DEF Ask
  <2>3. QED
    BY <2>1, <2>2
<1>5. GroupsExist'
  BY <1>2, <1>4 DEF GroupsExist
<1>6. QED
  BY <1>1, <1>3, <1>5

-----------------------------------------------------------------------------
(* What remains of the groups and requests after a transaction.            *)
LEMMA CommitKeepsGroups ==
    ASSUME GroupInv, NEW r \in Requests, req' = [req EXCEPT ![r] = NoRequest],
           created' = created,
           \A s \in Subjects : member'[s] # "none" => s[1] \in created,
           \A l \in Links : link'[l] # NoLink => link'[l].group \in created
    PROVE  GroupsExist'
<1>1. ASSUME NEW p \in Requests, req'[p] # NoRequest
      PROVE  req'[p].actor[1] \in created
  BY <1>1 DEF GroupInv, GroupTypeOK, GroupsExist
<1>2. QED
  BY <1>1 DEF GroupsExist

(* The transactions that change memberships.                               *)
LEMMA MemberTransactions ==
    ASSUME GroupInv, NEW r \in Requests,
           \/ UpdateGroupMemberRole(r) \/ TransferGroupOwnership(r)
           \/ DeleteGroupMembership(r) \/ JoinGroupByInviteLink(r)
    PROVE  GroupInv'
<1> DEFINE q == req[r]
<1>1. /\ q # NoRequest /\ q.actor \in Subjects /\ q.target \in Subjects
      /\ Backed(q)
      /\ req' = [req EXCEPT ![r] = NoRequest] /\ UNCHANGED <<created, observed, link>>
  BY RequestFields DEF UpdateGroupMemberRole, TransferGroupOwnership, DeleteGroupMembership,
       JoinGroupByInviteLink, Commits, GroupInv, RequestsBacked, Backed
<1>2. req' \in [Requests -> Request \cup {NoRequest}] /\ RequestsBacked'
  BY <1>1, CommitStep DEF GroupInv
<1>3. /\ member \in [Subjects -> Roles \cup {"none"}]
      /\ restricted \subseteq {s \in Subjects : member[s] # "none"}
      /\ created \subseteq Groups
      /\ \A s \in Subjects : member[s] # "none" => s[1] \in created
      /\ \A l \in Links : link[l] # NoLink => link[l].group \in created
  BY DEF GroupInv, GroupTypeOK, GroupsExist
<1>4. CASE UpdateGroupMemberRole(r)
  <2> DEFINE m == [member EXCEPT ![q.target] = q.role]
  <2>1. q.role \in Managed /\ member[q.target] # "none" /\ Memberships(m) /\ restricted' = restricted
    BY <1>1, <1>4 DEF UpdateGroupMemberRole, Commits, Backed
  <2>2. m \in [Subjects -> Roles \cup {"none"}]
    BY <1>3, <2>1 DEF Managed, Roles
  <2>3. restricted' \subseteq {s \in Subjects : m[s] # "none"}
    BY <1>3, <2>1 DEF Managed, Roles
  <2>4. GroupTypeOK' /\ Ledger' /\ member' = m
    BY <1>1, <1>2, <1>3, <2>1, <2>2, <2>3, MembershipStep
  <2>5. AtMostOneOwner'
    BY <1>3, <2>1, <2>4, OwnersStay DEF Managed, GroupInv
  <2>6. GroupsExist'
    BY <1>1, <1>3, <2>1, <2>4, CommitKeepsGroups
  <2>7. QED
    BY <1>2, <2>4, <2>5, <2>6 DEF GroupInv
<1>5. CASE TransferGroupOwnership(r)
  <2> DEFINE m == [member EXCEPT ![q.actor] = "admin", ![q.target] = "owner"]
  <2>1. /\ member[q.actor] = "owner" /\ member[q.target] \in Managed
        /\ q.actor # q.target /\ q.actor[1] = q.target[1]
        /\ Memberships(m) /\ restricted' = restricted
    BY <1>1, <1>5 DEF TransferGroupOwnership, MayDemote, Commits, Backed
  <2>2. m \in [Subjects -> Roles \cup {"none"}]
    BY <1>3 DEF Roles
  <2>3. restricted' \subseteq {s \in Subjects : m[s] # "none"}
    BY <1>1, <1>3, <2>1
  <2>4. GroupTypeOK' /\ Ledger' /\ member' = m
    BY <1>1, <1>2, <1>3, <2>1, <2>2, <2>3, MembershipStep
  <2>5. \A s \in Subjects : member'[s] = IF s = q.target THEN "owner"
                                         ELSE IF s = q.actor THEN "admin" ELSE member[s]
    BY <1>1, <1>3, <2>4
  <2>6. AtMostOneOwner'
    BY <1>1, <2>1, <2>5 DEF AtMostOneOwner, GroupInv
  <2>7. \A s \in Subjects : member'[s] # "none" => s[1] \in created
    BY <1>1, <1>3, <2>1, <2>5 DEF Managed, Roles
  <2>8. GroupsExist'
    BY <1>1, <1>3, <2>7, CommitKeepsGroups
  <2>9. QED
    BY <1>2, <2>4, <2>6, <2>8 DEF GroupInv
<1>6. CASE DeleteGroupMembership(r)
  <2> DEFINE m == [member EXCEPT ![q.target] = "none"]
  <2>1. Memberships(m) /\ restricted' = restricted \ {q.target}
    BY <1>6 DEF DeleteGroupMembership
  <2>2. m \in [Subjects -> Roles \cup {"none"}]
    BY <1>3
  <2>3. restricted' \subseteq {s \in Subjects : m[s] # "none"}
    BY <1>3, <2>1
  <2>4. GroupTypeOK' /\ Ledger' /\ member' = m
    BY <1>1, <1>2, <1>3, <2>1, <2>2, <2>3, MembershipStep
  <2>5. AtMostOneOwner'
    BY <1>3, <2>4, OwnersStay DEF GroupInv
  <2>6. GroupsExist'
    BY <1>1, <1>3, <2>4, CommitKeepsGroups
  <2>7. QED
    BY <1>2, <2>4, <2>5, <2>6 DEF GroupInv
<1>7. CASE JoinGroupByInviteLink(r)
  <2> DEFINE m == [member EXCEPT ![q.actor] = q.role]
  <2>1. /\ q.role \in Managed /\ q.link \in Links /\ link[q.link] # NoLink
        /\ link[q.link].group = q.actor[1]
        /\ Memberships(m) /\ restricted' = restricted
    BY <1>1, <1>7 DEF JoinGroupByInviteLink, Commits, Backed
  <2>2. m \in [Subjects -> Roles \cup {"none"}]
    BY <1>3, <2>1 DEF Managed, Roles
  <2>3. restricted' \subseteq {s \in Subjects : m[s] # "none"}
    BY <1>3, <2>1 DEF Managed, Roles
  <2>4. GroupTypeOK' /\ Ledger' /\ member' = m
    BY <1>1, <1>2, <1>3, <2>1, <2>2, <2>3, MembershipStep
  <2>5. AtMostOneOwner'
    BY <1>3, <2>1, <2>4, OwnersStay DEF Managed, GroupInv
  <2>6. GroupsExist'
    BY <1>1, <1>3, <2>1, <2>4, CommitKeepsGroups
  <2>7. QED
    BY <1>2, <2>4, <2>5, <2>6 DEF GroupInv
<1>8. QED
  BY <1>4, <1>5, <1>6, <1>7

(* The links keep the group and the role they were created with.           *)
LinksKept == /\ link' \in [Links -> InviteLink \cup {NoLink}]
             /\ \A l \in Links : link[l] # NoLink => /\ link'[l] # NoLink
                                                     /\ link'[l].group = link[l].group
                                                     /\ link'[l].role = link[l].role
             /\ \A l \in Links : link'[l] # NoLink => link'[l].group \in created

(* The transactions that leave the memberships alone.                      *)
LEMMA OtherTransactions ==
    ASSUME GroupInv, NEW r \in Requests,
           \/ SetGroupMemberWriteRestriction(r) \/ DisableGroupInviteLink(r)
           \/ \E l \in Links : CreateGroupInviteLink(r, l)
           \/ Reject(r)
    PROVE  GroupInv'
<1>1. /\ req[r] # NoRequest /\ req[r] \in Request
      /\ req[r].actor \in Subjects /\ req[r].target \in Subjects
      /\ Backed(req[r]) /\ req[r].actor[1] \in created
      /\ req' = [req EXCEPT ![r] = NoRequest]
      /\ UNCHANGED <<created, observed, member, version, outbox>>
  BY RequestFields DEF SetGroupMemberWriteRestriction, DisableGroupInviteLink, CreateGroupInviteLink,
       Reject, Commits, GroupInv, RequestsBacked, Backed, GroupsExist
<1>2. Ledger' /\ AtMostOneOwner'
  BY <1>1 DEF GroupInv, Ledger, AuthorityExact, RevisionsOrdered, ObservedIsSettled, Covered,
              StillCurrent, Eligible, AtMostOneOwner
<1>3. /\ link \in [Links -> InviteLink \cup {NoLink}]
      /\ restricted \subseteq {s \in Subjects : member[s] # "none"}
      /\ \A l \in Links : link[l] # NoLink => link[l].group \in created
      /\ created \subseteq Groups
  BY DEF GroupInv, GroupTypeOK, GroupsExist
<1>4. LinksKept
  <2>1. CASE SetGroupMemberWriteRestriction(r) \/ Reject(r)
    BY <1>3, <2>1 DEF SetGroupMemberWriteRestriction, Reject, LinksKept
  <2>2. ASSUME NEW l \in Links, CreateGroupInviteLink(r, l)
        PROVE  LinksKept
    <3> DEFINE new == [group |-> req[r].actor[1], role |-> req[r].role, disabled |-> FALSE]
    <3>1. new \in InviteLink
      BY <1>1, <1>3, <2>2 DEF InviteLink, CreateGroupInviteLink, Commits, Backed
    <3>2. link[l] = NoLink /\ link' = [link EXCEPT ![l] = new]
      BY <2>2 DEF CreateGroupInviteLink
    <3>3. QED
      BY <1>1, <1>3, <3>1, <3>2, GroupAssumption DEF LinksKept, InviteLink
  <2>3. CASE DisableGroupInviteLink(r)
    <3> DEFINE k == req[r].link
               new == [link[k] EXCEPT !.disabled = TRUE]
    <3>1. k \in Links /\ link[k] \in InviteLink
      BY <1>1, <1>3, <2>3 DEF InviteLink, DisableGroupInviteLink, Commits, Backed
    <3>2. /\ new \in InviteLink
          /\ new.group = link[k].group /\ new.role = link[k].role
      BY <3>1 DEF InviteLink
    <3>3. link' = [link EXCEPT ![k] = new]
      BY <2>3 DEF DisableGroupInviteLink
    <3>4. QED
      BY <1>3, <3>1, <3>2, <3>3, GroupAssumption DEF LinksKept, InviteLink
  <2>4. QED
    BY <2>1, <2>2, <2>3
<1>5. restricted' \subseteq {s \in Subjects : member[s] # "none"}
  BY <1>1, <1>3 DEF SetGroupMemberWriteRestriction, DisableGroupInviteLink, CreateGroupInviteLink, Reject
<1>6. req' \in [Requests -> Request \cup {NoRequest}] /\ RequestsBacked'
  BY <1>1, <1>4, CommitStep DEF GroupInv, LinksKept
<1>7. GroupTypeOK'
  BY <1>1, <1>4, <1>5, <1>6 DEF GroupTypeOK, GroupInv, LinksKept
<1>8. GroupsExist'
  BY <1>1, <1>4, CommitKeepsGroups DEF GroupInv, GroupsExist, LinksKept
<1>9. QED
  BY <1>2, <1>6, <1>7, <1>8 DEF GroupInv

LEMMA CheckStep ==
    ASSUME GroupInv, NEW s \in Subjects, CheckGroupSubject(s)
    PROVE  GroupInv'
<1>1. UNCHANGED <<created, member, restricted, version, outbox, link, req>>
  BY DEF CheckGroupSubject
<1>2. /\ version[s].rev \in 0..MaxRevision
      /\ version[s].eligible /\ Eligible(member[s])
      /\ observed \in [Subjects -> 0..MaxRevision]
      /\ observed' = [observed EXCEPT ![s] = version[s].rev]
  BY DEF CheckGroupSubject, GroupInv, GroupTypeOK
<1>3. GroupTypeOK'
  BY <1>1, <1>2 DEF GroupInv, GroupTypeOK
<1>4. RevisionsOrdered' /\ AuthorityExact'
  BY <1>1, <1>2, GroupAssumption DEF GroupInv, Ledger, RevisionsOrdered, AuthorityExact, Eligible
<1>5. ObservedIsSettled'
  <2> SUFFICES ASSUME NEW t \in Subjects, observed'[t] > 0
               PROVE  Covered(t, observed'[t]) <=> ~StillCurrent(t, observed'[t])
    BY <1>1 DEF ObservedIsSettled, Covered, StillCurrent, Eligible
  <2>1. CASE t = s
    <3>1. observed'[t] = version[s].rev
      BY <1>2, <2>1
    <3>2. \A e \in outbox : e.subject = s => e.rev \in Nat /\ e.rev < version[s].rev
      BY <1>2, GroupAssumption DEF GroupInv, GroupTypeOK, Ledger, RevisionsOrdered
    <3>3. ~Covered(t, observed'[t])
      BY <1>2, <2>1, <3>1, <3>2, GroupAssumption DEF Covered
    <3>4. QED
      BY <1>2, <2>1, <3>1, <3>3 DEF StillCurrent
  <2>2. CASE t # s
    BY <1>2, <2>2 DEF GroupInv, Ledger, ObservedIsSettled
  <2>3. QED
    BY <2>1, <2>2
<1>6. AtMostOneOwner' /\ RequestsBacked' /\ GroupsExist'
  BY <1>1 DEF GroupInv, AtMostOneOwner, RequestsBacked, GroupsExist
<1>7. QED
  BY <1>3, <1>4, <1>5, <1>6 DEF GroupInv, Ledger

LEMMA GroupInit_Inv == GroupInit => GroupInv
<1> SUFFICES ASSUME GroupInit PROVE GroupInv
  OBVIOUS
<1> USE GroupAssumption DEF GroupInit
<1>1. GroupTypeOK
  BY DEF GroupTypeOK
<1>2. /\ \A r \in Requests : req[r] = NoRequest
      /\ \A l \in Links : link[l] = NoLink
      /\ \A s \in Subjects : member[s] = "none"
  OBVIOUS
<1>3. AuthorityExact
  <2>1. \A s \in Subjects : /\ version[s].rev = 0
                            /\ version[s].present = FALSE
                            /\ version[s].eligible = FALSE
    OBVIOUS
  <2>2. \A s \in Subjects : Eligible(member[s]) = FALSE
    BY <1>2 DEF Eligible
  <2>3. QED
    BY <1>2, <2>1, <2>2 DEF AuthorityExact
<1>4. RevisionsOrdered /\ ObservedIsSettled
  <2>1. \A s \in Subjects : observed[s] = 0 /\ version[s].rev = 0
    OBVIOUS
  <2>2. QED
    BY <2>1 DEF RevisionsOrdered, ObservedIsSettled
<1>5. RequestsBacked /\ GroupsExist /\ AtMostOneOwner
  BY <1>2 DEF RequestsBacked, GroupsExist, AtMostOneOwner
<1>6. QED
  BY <1>1, <1>3, <1>4, <1>5 DEF GroupInv, Ledger

LEMMA GroupStep_Inv == GroupInv /\ [GroupNext]_groupVars => GroupInv'
<1> SUFFICES ASSUME GroupInv, [GroupNext]_groupVars PROVE GroupInv'
  OBVIOUS
<1>1. CASE UNCHANGED groupVars
  BY <1>1 DEF groupVars, GroupInv, GroupTypeOK, RequestsBacked, GroupsExist, Ledger, AuthorityExact,
       RevisionsOrdered, ObservedIsSettled, Covered, StillCurrent, Eligible, AtMostOneOwner
<1>2. ASSUME NEW r \in Requests, Ask(r) \/ Look(r) \/ LookLink(r) \/ LookThread(r)
      PROVE  GroupInv'
  BY <1>2, ReadStep
<1>3. ASSUME NEW r \in Requests, Reject(r)
      PROVE  GroupInv'
  BY <1>3, OtherTransactions
<1>4. ASSUME NEW r \in Requests, Transact(r)
      PROVE  GroupInv'
  BY <1>4, OtherTransactions, MemberTransactions DEF Transact
<1>5. ASSUME NEW s \in Subjects, CreateGroup(s)
      PROVE  GroupInv'
  BY <1>5, CreateStep
<1>6. ASSUME NEW s \in Subjects, CheckGroupSubject(s)
      PROVE  GroupInv'
  BY <1>6, CheckStep
<1>7. QED
  BY <1>1, <1>2, <1>3, <1>4, <1>5, <1>6 DEF GroupNext

-----------------------------------------------------------------------------
(* The invariant the other theorems rest on: groupVars always hold a state *)
(* the transactions and the trigger can have left behind.                  *)
THEOREM GroupInvariant == GroupSpec => []GroupInv
  BY GroupInit_Inv, GroupStep_Inv, PTL DEF GroupSpec

(* Type correctness of the tables of groups, links, versions and events.   *)
THEOREM GroupTypes == GroupSpec => []GroupTypeOK
<1>1. GroupInv => GroupTypeOK
  BY DEF GroupInv
<1>2. QED
  BY <1>1, GroupInvariant, PTL

(* TransferGroupOwnership, and nothing else, makes an owner, and only in   *)
(* the place of the one there is.                                          *)
THEOREM OwnerIsUnique == GroupSpec => []AtMostOneOwner
<1>1. GroupInv => AtMostOneOwner
  BY DEF GroupInv
<1>2. QED
  BY <1>1, GroupInvariant, PTL

(* capture_group_membership_authority keeps its table equal to what the    *)
(* memberships say.                                                        *)
THEOREM AuthorityMirrorsMembership == GroupSpec => []AuthorityExact
<1>1. GroupInv => AuthorityExact
  BY DEF GroupInv, Ledger
<1>2. QED
  BY <1>1, GroupInvariant, PTL

(* What CheckGroupSubject answered is either still true or covered by an   *)
(* event of the outbox, and never both.                                    *)
THEOREM ObservationsSettle == GroupSpec => []ObservedIsSettled
<1>1. GroupInv => ObservedIsSettled
  BY DEF GroupInv, Ledger
<1>2. QED
  BY <1>1, GroupInvariant, PTL

(* A membership of an existing group begins only by JoinGroupByInviteLink  *)
(* with a link that is open when it commits.                               *)
THEOREM DoorsStayClosed == GroupSpec => OnlyOpenLinksAdmit
<1> DEFINE Admitted == \A s \in Subjects :
          member[s] = "none" /\ member'[s] # "none" /\ s[1] \in created =>
              \E l \in Links : /\ link[l] # NoLink /\ link'[l] = link[l]
                               /\ link[l] = [group |-> s[1], role |-> member'[s], disabled |-> FALSE]
<1>1. GroupInv /\ [GroupNext]_groupVars => [Admitted]_groupVars
  <2> SUFFICES ASSUME GroupInv, GroupNext, NEW s \in Subjects,
                      member[s] = "none", member'[s] # "none", s[1] \in created
               PROVE  \E l \in Links : /\ link[l] # NoLink /\ link'[l] = link[l]
                                       /\ link[l] = [group |-> s[1], role |-> member'[s], disabled |-> FALSE]
    OBVIOUS
  <2>1. member \in [Subjects -> Roles \cup {"none"}]
    BY DEF GroupInv, GroupTypeOK
  <2>2. member' # member
    OBVIOUS
  <2>3. \A t \in Subjects : ~CheckGroupSubject(t)
    BY <2>2 DEF CheckGroupSubject
  <2>4. \A t \in Subjects : ~CreateGroup(t)
    <3> SUFFICES ASSUME NEW t \in Subjects, CreateGroup(t) PROVE FALSE
      OBVIOUS
    <3>1. member' = [member EXCEPT ![t] = "owner"] /\ t[1] \notin created
      BY DEF CreateGroup, Memberships
    <3>2. QED
      BY <2>1, <3>1
  <2>5. PICK r \in Requests : JoinGroupByInviteLink(r)
    <3>1. PICK r \in Requests : \/ UpdateGroupMemberRole(r) \/ TransferGroupOwnership(r)
                                \/ DeleteGroupMembership(r) \/ JoinGroupByInviteLink(r)
      <4>1. PICK r \in Requests : Ask(r) \/ Look(r) \/ LookLink(r) \/ LookThread(r) \/ Reject(r)
                                   \/ Transact(r)
        BY <2>3, <2>4 DEF GroupNext
      <4>2. ~Ask(r)
        BY <2>2 DEF Ask, AskMember, AskLeave, AskInvite, AskDisable, AskJoin, Asks
      <4>3. ~Look(r) /\ ~LookLink(r) /\ ~LookThread(r) /\ ~Reject(r)
        BY <2>2 DEF Look, LookLink, LookThread, Goes, Reject
      <4>4. /\ ~SetGroupMemberWriteRestriction(r) /\ ~DisableGroupInviteLink(r)
            /\ \A l \in Links : ~CreateGroupInviteLink(r, l)
        BY <2>2 DEF SetGroupMemberWriteRestriction, DisableGroupInviteLink, CreateGroupInviteLink
      <4>5. QED
        BY <4>1, <4>2, <4>3, <4>4 DEF Transact
    <3>2. ~UpdateGroupMemberRole(r)
      <4> SUFFICES ASSUME UpdateGroupMemberRole(r) PROVE FALSE
        OBVIOUS
      <4>1. /\ member[req[r].target] # "none"
            /\ member' = [member EXCEPT ![req[r].target] = req[r].role]
        BY DEF UpdateGroupMemberRole, Memberships
      <4>2. s # req[r].target
        BY <4>1
      <4>3. member'[s] = member[s]
        BY <2>1, <4>1, <4>2
      <4>4. QED
        BY <4>3
    <3>3. ~TransferGroupOwnership(r)
      <4> SUFFICES ASSUME TransferGroupOwnership(r) PROVE FALSE
        OBVIOUS
      <4>1. /\ member[req[r].actor] = "owner" /\ member[req[r].target] \in Roles
            /\ member' = [member EXCEPT ![req[r].actor] = "admin", ![req[r].target] = "owner"]
        BY DEF TransferGroupOwnership, MayDemote, Memberships, Managed
      <4>2. s # req[r].actor /\ s # req[r].target
        BY <4>1 DEF Roles
      <4>3. member'[s] = member[s]
        BY <2>1, <4>1, <4>2
      <4>4. QED
        BY <4>3
    <3>4. ~DeleteGroupMembership(r)
      BY <2>1 DEF DeleteGroupMembership, Memberships
    <3>5. QED
      BY <3>1, <3>2, <3>3, <3>4
  <2> DEFINE q == req[r]
             k == q.link
  <2>6. /\ q # NoRequest /\ q.op = "join" /\ link' = link
        /\ member' = [member EXCEPT ![q.actor] = q.role]
        /\ ~link[k].disabled
    BY <2>5 DEF JoinGroupByInviteLink, Commits, Memberships, LinkOpen
  <2>7. k \in Links /\ link[k] # NoLink /\ link[k].group = q.actor[1] /\ link[k].role = q.role
    BY <2>6 DEF GroupInv, RequestsBacked
  <2>8. s = q.actor /\ member'[s] = q.role
    BY <2>1, <2>6
  <2>9. link[k] \in InviteLink
    BY <2>7 DEF GroupInv, GroupTypeOK
  <2>10. link[k] = [group |-> s[1], role |-> member'[s], disabled |-> FALSE]
    BY <2>6, <2>7, <2>8, <2>9 DEF InviteLink
  <2>11. QED
    BY <2>6, <2>7, <2>10
<1>2. QED
  BY <1>1, GroupInvariant, PTL DEF GroupSpec, OnlyOpenLinksAdmit
=============================================================================

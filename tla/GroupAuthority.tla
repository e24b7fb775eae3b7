--------------------------- MODULE GroupAuthority ---------------------------
(***************************************************************************)
(* Groups of aero-chat: memberships, roles, invite links and the authority *)
(* they give to other services.  A request of the chat service first reads *)
(* what it decides on (GetGroup, GetGroupMember, GetGroupInviteLink) and   *)
(* then changes the group in one transaction; other requests run between   *)
(* any two of these steps.  A trigger on the membership table keeps, for   *)
(* every pair of a group and a user, the revision of its eligibility, and  *)
(* writes a revocation event when the pair stops being eligible; the       *)
(* events are delivered by the worker of module SourceDelivery.            *)
(*                                                                         *)
(* Names, timestamps, join counts, typing indicators and notification      *)
(* preferences are left out.                                               *)
(***************************************************************************)
EXTENDS Naturals, FiniteSets

CONSTANTS
    Groups, Users, Links,
    Requests,           \* requests that are executed at the same time
    MaxMemberships,     \* maxActiveGroupMembershipsPerUser, 0 is no limit
    MaxRevision,        \* the greatest BIGINT
    NoLink, NoRequest

Subjects == Groups \X Users
Roles == {"owner", "admin", "member", "reader"}
Managed == Roles \ {"owner"}
Ops == {"role", "transfer", "remove", "restrict", "unrestrict", "leave", "invite", "disable", "join"}

(* A request: what it wants, where it is, and the role it found its actor  *)
(* to have.                                                                *)
Request == [op: Ops, pc: {"look", "thread", "commit"}, actor: Subjects, target: Subjects,
            self: Roles \cup {"none"}, role: Managed \cup {"none"}, link: Links \cup {NoLink}]

InviteLink == [group: Groups, role: Managed, disabled: BOOLEAN]

ASSUME GroupAssumption ==
    /\ MaxMemberships \in Nat
    /\ MaxRevision \in Nat \ {0}
    /\ NoLink \notin Links \cup InviteLink
    /\ NoRequest \notin Request

VARIABLES
    created,      \* groups
    member,       \* group_memberships.role, "none" without a row
    restricted,   \* group_memberships.is_write_restricted
    version,      \* group_membership_authority_versions, revision 0 without a row
    outbox,       \* chat_authority_revocation_outbox
    link,         \* group_invite_links
    req,          \* requests being executed
    observed      \* the last epoch CheckGroupSubject gave to a caller as eligible

groupVars == <<created, member, restricted, version, outbox, link, req, observed>>

GroupTypeOK ==
    /\ created \subseteq Groups
    /\ member \in [Subjects -> Roles \cup {"none"}]
    /\ restricted \subseteq {s \in Subjects : member[s] # "none"}
    /\ version \in [Subjects -> [rev: 0..MaxRevision, present: BOOLEAN, eligible: BOOLEAN]]
    /\ outbox \subseteq [subject: Subjects, rev: 1..MaxRevision,
                         reason: {"member_removed", "eligibility_denied"}]
    /\ link \in [Links -> InviteLink \cup {NoLink}]
    /\ req \in [Requests -> Request \cup {NoRequest}]
    /\ observed \in [Subjects -> 0..MaxRevision]

GroupInit ==
    /\ created = {}
    /\ member = [s \in Subjects |-> "none"]
    /\ restricted = {}
    /\ version = [s \in Subjects |-> [rev |-> 0, present |-> FALSE, eligible |-> FALSE]]
    /\ outbox = {}
    /\ link = [l \in Links |-> NoLink]
    /\ req = [r \in Requests |-> NoRequest]
    /\ observed = [s \in Subjects |-> 0]

-----------------------------------------------------------------------------
(* The policy of the roles (groupRolePolicies): whom one may invite,       *)
(* remove and restrict, and, for the owner alone, whose role one may set.  *)
Below(role) == CASE role = "owner" -> Managed
                 [] role = "admin" -> {"member", "reader"}
                 [] OTHER -> {}

Eligible(role) == role \in {"owner", "admin", "member"}

-----------------------------------------------------------------------------
(* The trigger capture_group_membership_authority, for a subject s whose   *)
(* membership becomes role: the state it keeps for s changes or does not.  *)
Changes(s, role) == \/ version[s].present # (role # "none")
                    \/ version[s].eligible # Eligible(role)

NextRevision(s, role) == version[s].rev + 1

(* Mutant: only a removal is announced.                                    *)
Announces_removals(s, role) == version[s].rev > 0 /\ role = "none"

(* A change of an existing state that does not end eligible is announced.  *)
Announces(s, role) == version[s].rev > 0 /\ ~Eligible(role)

(* The transition is accepted: the state it starts from is the expected    *)
(* one, and the revision is not exhausted.                                 *)
Accepts(s, role) ==
    role # member[s] =>
        /\ version[s].present = (member[s] # "none")
        /\ version[s].eligible = Eligible(member[s])
        /\ Changes(s, role) => /\ version[s].rev < MaxRevision
                               /\ Eligible(role) => NextRevision(s, role) < MaxRevision

(* Mutant: the row of a user who leaves keeps its eligibility.             *)
Captured_kept(s, role) ==
    IF Changes(s, role)
      THEN [rev |-> NextRevision(s, role), present |-> role # "none",
            eligible |-> IF role = "none" THEN version[s].eligible ELSE Eligible(role)]
      ELSE version[s]

Captured(s, role) ==
    IF Changes(s, role)
      THEN [rev |-> NextRevision(s, role), present |-> role # "none", eligible |-> Eligible(role)]
      ELSE version[s]

Event(s, role) == [subject |-> s, rev |-> NextRevision(s, role),
                   reason |-> IF role = "none" THEN "member_removed" ELSE "eligibility_denied"]

(* The memberships become m, and the trigger has run for the rows that     *)
(* change; it would leave the others alone (AuthorityExact).               *)
Memberships(m) ==
    /\ \A s \in Subjects : Accepts(s, m[s])
    /\ member' = m
    /\ version' = [s \in Subjects |-> Captured(s, m[s])]
    /\ outbox' = outbox \cup {Event(s, m[s]) : s \in {t \in Subjects : /\ Changes(t, m[t])
                                                                       /\ Announces(t, m[t])}}

MembershipsOf(u) == {s \in Subjects : s[2] = u /\ member[s] # "none"}

WithinQuota(u) == MaxMemberships > 0 => Cardinality(MembershipsOf(u)) < MaxMemberships

-----------------------------------------------------------------------------
CreateGroup(s) ==
    /\ s[1] \notin created
    /\ WithinQuota(s[2])
    /\ created' = created \cup {s[1]}
    /\ Memberships([member EXCEPT ![s] = "owner"])
    /\ UNCHANGED <<restricted, link, req, observed>>

-----------------------------------------------------------------------------
(* What a request reads before its transaction.  A request that is refused *)
(* or fails on the way ends (Reject).                                      *)
Asks(r, q) ==
    /\ req[r] = NoRequest
    /\ req' = [req EXCEPT ![r] = q]
    /\ UNCHANGED <<created, member, restricted, version, outbox, link, observed>>

(* GetGroup of the operations on a member; role is the one to be given.    *)
AskMember(r, op, s, t, role) ==
    /\ member[s] # "none"
    /\ s # t /\ s[1] = t[1]
    /\ op \in {"role", "transfer"} => member[s] = "owner"
    /\ role \in IF op = "role" THEN Below(member[s]) ELSE {"none"}
    /\ Asks(r, [op |-> op, pc |-> "look", actor |-> s, target |-> t, self |-> member[s],
                role |-> role, link |-> NoLink])

AskLeave(r, s) ==
    /\ member[s] \notin {"none", "owner"}
    /\ Asks(r, [op |-> "leave", pc |-> "thread", actor |-> s, target |-> s, self |-> member[s],
                role |-> "none", link |-> NoLink])

AskInvite(r, s, role) ==
    /\ role \in Below(member[s])
    /\ Asks(r, [op |-> "invite", pc |-> "commit", actor |-> s, target |-> s, self |-> member[s],
                role |-> role, link |-> NoLink])

AskDisable(r, s, l) ==
    /\ member[s] \in {"owner", "admin"}
    /\ Asks(r, [op |-> "disable", pc |-> "look", actor |-> s, target |-> s, self |-> member[s],
                role |-> "none", link |-> l])

(* GetGroupInviteLinkForJoin.                                              *)
AskJoin(r, s, l) ==
    /\ link[l] # NoLink
    /\ link[l].group = s[1] /\ ~link[l].disabled
    /\ Asks(r, [op |-> "join", pc |-> "commit", actor |-> s, target |-> s, self |-> "none",
                role |-> link[l].role, link |-> l])

Goes(r, pc) ==
    /\ req' = [req EXCEPT ![r].pc = pc]
    /\ UNCHANGED <<created, member, restricted, version, outbox, link, observed>>

(* GetGroupMember, and what the policy says to the role it returns.        *)
Look(r) ==
    LET q == req[r] t == q.target IN
    /\ q # NoRequest /\ q.pc = "look"
    /\ \/ q.op = "role" /\ member[t] \in Below(q.self) \ {q.role} /\ Goes(r, "commit")
       \/ q.op = "transfer" /\ member[t] \in Managed /\ t \notin restricted /\ Goes(r, "commit")
       \/ q.op = "remove" /\ member[t] \in Below(q.self) /\ Goes(r, "thread")
       \/ /\ q.op \in {"restrict", "unrestrict"}
          /\ member[t] \in Below(q.self)
          /\ t \in restricted <=> q.op = "unrestrict"
          /\ Goes(r, "commit")

(* GetGroupInviteLink.                                                     *)
LookLink(r) ==
    LET q == req[r] IN
    /\ q # NoRequest /\ q.pc = "look" /\ q.op = "disable"
    /\ link[q.link] # NoLink
    /\ link[q.link].group = q.actor[1] /\ ~link[q.link].disabled
    /\ link[q.link].role \in Below(q.self)
    /\ Goes(r, "commit")

(* GetGroupChatThread, which only a member can read.                       *)
LookThread(r) ==
    LET q == req[r] IN
    /\ q # NoRequest /\ q.pc = "thread" /\ q.op \in {"remove", "leave"}
    /\ member[q.actor] # "none"
    /\ Goes(r, "commit")

(* A check that does not hold, a failing query, a cancelled context.       *)
Reject(r) ==
    /\ req[r] # NoRequest
    /\ req' = [req EXCEPT ![r] = NoRequest]
    /\ UNCHANGED <<created, member, restricted, version, outbox, link, observed>>

-----------------------------------------------------------------------------
(* The transactions.  All of them lock the row of the group.               *)
Commits(r, ops) ==
    /\ req[r] # NoRequest
    /\ req[r].pc = "commit" /\ req[r].op \in ops
    /\ req' = [req EXCEPT ![r] = NoRequest]
    /\ UNCHANGED <<created, observed>>

UpdateGroupMemberRole(r) ==
    LET t == req[r].target IN
    /\ Commits(r, {"role"})
    /\ member[t] # "none"
    /\ Memberships([member EXCEPT ![t] = req[r].role])
    /\ UNCHANGED <<restricted, link>>

(* Mutant: the transaction trusts the role the service has read.           *)
MayDemote_trusting(s, t) == member[t] # "owner" /\ t \notin restricted

(* DemoteGroupOwnerForTransfer finds the owner and a possible successor.   *)
MayDemote(s, t) == member[s] = "owner" /\ member[t] \in Managed /\ t \notin restricted

TransferGroupOwnership(r) ==
    LET s == req[r].actor t == req[r].target IN
    /\ Commits(r, {"transfer"})
    /\ MayDemote(s, t)
    /\ Memberships([member EXCEPT ![s] = "admin", ![t] = "owner"])
    /\ UNCHANGED <<restricted, link>>

DeleteGroupMembership(r) ==
    LET t == req[r].target IN
    /\ Commits(r, {"remove", "leave"})
    /\ member[t] # "none"
    /\ Memberships([member EXCEPT ![t] = "none"])
    /\ restricted' = restricted \ {t}
    /\ UNCHANGED link

SetGroupMemberWriteRestriction(r) ==
    LET t == req[r].target IN
    /\ Commits(r, {"restrict", "unrestrict"})
    /\ member[t] # "none"
    /\ restricted' = IF req[r].op = "restrict" THEN restricted \cup {t} ELSE restricted \ {t}
    /\ UNCHANGED <<member, version, outbox, link>>

CreateGroupInviteLink(r, l) ==
    /\ Commits(r, {"invite"})
    /\ link[l] = NoLink
    /\ link' = [link EXCEPT ![l] = [group |-> req[r].actor[1], role |-> req[r].role, disabled |-> FALSE]]
    /\ UNCHANGED <<member, restricted, version, outbox>>

DisableGroupInviteLink(r) ==
    /\ Commits(r, {"disable"})
    /\ link' = [link EXCEPT ![req[r].link].disabled = TRUE]
    /\ UNCHANGED <<member, restricted, version, outbox>>

(* Mutant: the link is not looked at again.                                *)
LinkOpen_trusting(l) == TRUE

LinkOpen(l) == ~link[l].disabled

JoinGroupByInviteLink(r) ==
    LET s == req[r].actor IN
    /\ Commits(r, {"join"})
    /\ LinkOpen(req[r].link)
    /\ member[s] = "none"
    /\ WithinQuota(s[2])
    /\ Memberships([member EXCEPT ![s] = req[r].role])
    /\ UNCHANGED <<restricted, link>>

-----------------------------------------------------------------------------
(* GroupSubjectAuthorizer.CheckGroupSubject tells a caller that the user   *)
(* is in the group with an eligible role, and the epoch of that.           *)
CheckGroupSubject(s) ==
    /\ version[s].rev > 0 /\ version[s].present
    /\ Eligible(member[s]) /\ version[s].eligible
    /\ version[s].rev < MaxRevision
    /\ observed' = [observed EXCEPT ![s] = version[s].rev]
    /\ UNCHANGED <<created, member, restricted, version, outbox, link, req>>

Ask(r) ==
    \/ \E op \in {"role", "transfer", "remove", "restrict", "unrestrict"}, s, t \in Subjects,
          role \in Managed \cup {"none"} : AskMember(r, op, s, t, role)
    \/ \E s \in Subjects : \/ AskLeave(r, s)
                           \/ \E role \in Managed : AskInvite(r, s, role)
                           \/ \E l \in Links : AskDisable(r, s, l) \/ AskJoin(r, s, l)

Transact(r) ==
    \/ UpdateGroupMemberRole(r) \/ TransferGroupOwnership(r) \/ DeleteGroupMembership(r)
    \/ SetGroupMemberWriteRestriction(r) \/ DisableGroupInviteLink(r) \/ JoinGroupByInviteLink(r)
    \/ \E l \in Links : CreateGroupInviteLink(r, l)

GroupNext ==
    \/ \E r \in Requests : Ask(r) \/ Look(r) \/ LookLink(r) \/ LookThread(r) \/ Reject(r) \/ Transact(r)
    \/ \E s \in Subjects : CreateGroup(s) \/ CheckGroupSubject(s)

GroupSpec == GroupInit /\ [][GroupNext]_groupVars

-----------------------------------------------------------------------------
(* What a request holds on to while others run: the role it is to give is  *)
(* never that of an owner, and the link it came by is still there, with    *)
(* the group and the role it had.                                          *)
RequestsBacked ==
    \A r \in Requests : LET q == req[r] IN
        q # NoRequest =>
            /\ q.op \in {"role", "invite", "join"} => q.role \in Managed
            /\ q.op = "transfer" => q.actor # q.target /\ q.actor[1] = q.target[1]
            /\ q.op \in {"disable", "join"} => q.link \in Links
            /\ q.op = "disable" /\ q.pc = "commit" => link[q.link] # NoLink
            /\ q.op = "join" => /\ link[q.link] # NoLink
                                /\ link[q.link].group = q.actor[1]
                                /\ link[q.link].role = q.role

(* The foreign keys, and that no request is about a group that is not      *)
(* there: what is created later cannot already have members.               *)
GroupsExist ==
    /\ \A s \in Subjects : member[s] # "none" => s[1] \in created
    /\ \A l \in Links : link[l] # NoLink => link[l].group \in created
    /\ \A r \in Requests : req[r] # NoRequest => req[r].actor[1] \in created

(* The row the trigger keeps for a pair says what the membership table     *)
(* says, after any sequence of joins, role changes, transfers and          *)
(* removals: the trigger never finds a state it has to refuse, and         *)
(* CheckGroupSubject never answers "unavailable" because of one.           *)
AuthorityExact ==
    \A s \in Subjects : /\ version[s].present = (member[s] # "none")
                        /\ version[s].eligible = Eligible(member[s])
                        /\ version[s].rev = 0 => ~version[s].present

(* A group never has two owners, although transfers decide on roles they   *)
(* have read before: the unique index of the table is never needed.        *)
AtMostOneOwner ==
    \A s, t \in Subjects : member[s] = "owner" /\ member[t] = "owner" /\ s[1] = t[1] => s = t

(* The rule of SourceEvent.Matches in aero-rtc-control: an event covers    *)
(* the authorities of its subject up to its revision.                      *)
Covered(s, epoch) == \E e \in outbox : e.subject = s /\ epoch <= e.rev

StillCurrent(s, epoch) == version[s].rev = epoch /\ Eligible(member[s])

(* Events and observations are of the past: an event is not later than the *)
(* row of its subject, and earlier if the subject is eligible.             *)
RevisionsOrdered ==
    /\ \A s \in Subjects : observed[s] <= version[s].rev
    /\ \A e \in outbox : /\ e.rev <= version[e.subject].rev
                         /\ version[e.subject].eligible => e.rev < version[e.subject].rev

(* An authority that was given out is either still the current one or      *)
(* covered by an event on its way, and never both: no revoked member keeps *)
(* its media, and a delayed event does not touch a member who came back.   *)
ObservedIsSettled ==
    \A s \in Subjects : observed[s] > 0 => (Covered(s, observed[s]) <=> ~StillCurrent(s, observed[s]))

(* Nobody gets into an existing group but with the role of a link that is  *)
(* open at that moment, however long ago the link was read.                *)
OnlyOpenLinksAdmit ==
    [][\A s \in Subjects :
          member[s] = "none" /\ member'[s] # "none" /\ s[1] \in created =>
              \E l \in Links : /\ link[l] # NoLink /\ link'[l] = link[l]
                               /\ link[l] = [group |-> s[1], role |-> member'[s], disabled |-> FALSE]]_groupVars

(* docs/adr/032: "in every group there is exactly one owner at any time".  *)
(* A transfer makes somebody the owner whose own leave, removal or change  *)
(* of role was permitted just before.                                      *)
ExactlyOneOwner ==
    \A g \in created : \E u \in Users : member[<<g, u>>] = "owner"
=============================================================================

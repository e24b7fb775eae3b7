----------------------- MODULE EncryptedConversation -----------------------
(***************************************************************************)
(* The encrypted lane of one group of aero-chat: the roster and its        *)
(* version, the sequence in which the server puts messages, how far users  *)
(* have read, and the migration of rows from before there was a sequence   *)
(* (domain/chat/service.go, storage/postgres/repository.go,                *)
(* encrypted_sequence.go).  A request reads members, then devices, then    *)
(* synchronises the roster in one transaction, and stores its message in   *)
(* another one, which keeps the row of the group locked from the           *)
(* reservation of a sequence number to its commit.  Encrypted direct chats *)
(* have the same sequence, read positions and migration; roles and         *)
(* restrictions, which are compared like members, attachments and pins     *)
(* are left out.                                                           *)
(***************************************************************************)
EXTENDS Integers, FiniteSets

CONSTANTS
    Participants, Clients,  \* users, and their crypto devices
    OwnerOf,         \* of a device
    Messages,        \* ids, in the order of (created_at, id)
    Old,             \* those that may be from before the migration
    Requests,        \* that are executed at the same time
    BatchSizes,
    MaxRoster,       \* bounds the versions of the roster
    NoMessage, NoHolder

ASSUME ConversationAssumption ==
    /\ OwnerOf \in [Clients -> Participants]
    /\ Messages \subseteq Nat /\ IsFiniteSet(Messages) /\ Old \subseteq Messages
    /\ BatchSizes \subseteq Nat \ {0}
    /\ NoMessage \notin Messages /\ NoHolder \notin Requests

VARIABLES
    members,         \* group_memberships
    active, gone,    \* crypto devices that are active, that were revoked
    lane,            \* group_encrypted_lanes_v1 and its roster; version 0 if there is none
    told,            \* history: the rosters that clients were given
    counter,         \* groups.encrypted_server_sequence
    holder,          \* the request that has locked the row of the group
    msg,             \* group_encrypted_messages_v1 with the deliveries
    read,            \* group_encrypted_read_states_v1
    work,            \* where a request of the service is
    serving

rosterVars == <<lane, told>>
sequenceVars == <<counter, msg, read>>
outsideVars == <<members, active, gone>>
conversationVars == <<outsideVars, rosterVars, sequenceVars, holder, work, serving>>

MessageKinds == {"content", "edit"}     \* a message of its own, one about another
NotStored == [kind |-> "none", seq |-> 0, sender |-> NoMessage, version |-> 0, to |-> {}]
Unread == [msg |-> NoMessage, seq |-> 0]
NoWork == [op |-> "none", phase |-> "none", user |-> NoMessage, members |-> {}, devices |-> {},
           msg |-> NoMessage, kind |-> "none", version |-> 0, seq |-> 0]

Stored == {m \in Messages : msg[m].kind # "none"}
Unassigned == {m \in Stored : msg[m].seq = 0}
IsContent(m) == m \in Stored /\ msg[m].kind = "content"
Owners(D) == {OwnerOf[d] : d \in D}

(* The target of a mutation is content of the same author.                 *)
MayMutate(u) == \E m \in Messages : IsContent(m) /\ msg[m].sender = u

(* Before the migration: old messages of version 1 of the roster, and read *)
(* positions that may point to anything.                                   *)
ConversationInit ==
    /\ members = Participants /\ gone = {}
    /\ active \in SUBSET Clients
    /\ \E L \in SUBSET Old :
       /\ L # {} => Owners(active) = Participants
       /\ lane = [version |-> IF L = {} THEN 0 ELSE 1, members |-> members, devices |-> active]
       /\ told = IF L = {} THEN {} ELSE {[version |-> 1, devices |-> active]}
       /\ msg \in [Messages -> {NotStored}
                     \cup [kind: MessageKinds, seq: {0}, sender: Participants, version: {1}, to: {active}]]
       /\ Stored = L
       /\ \A m \in L : IsContent(m) \/ MayMutate(msg[m].sender)
       /\ read \in [Participants -> [msg: L \cup {NoMessage}, seq: {0}]]
    /\ counter = 0 /\ holder = NoHolder /\ serving = FALSE
    /\ work = [r \in Requests |-> NoWork]

-----------------------------------------------------------------------------
(* Other components: changes of membership lock the row of the group,      *)
(* devices belong to aero-identity.                                        *)
MembershipChanges(u) ==
    /\ holder = NoHolder
    /\ members' = IF u \in members THEN members \ {u} ELSE members \cup {u}
    /\ UNCHANGED <<active, gone, rosterVars, sequenceVars, holder, work, serving>>

DeviceActivated(d) ==
    /\ d \notin active \cup gone
    /\ active' = active \cup {d}
    /\ UNCHANGED <<members, gone, rosterVars, sequenceVars, holder, work, serving>>

DeviceRevoked(d) ==
    /\ d \in active
    /\ active' = active \ {d} /\ gone' = gone \cup {d}
    /\ UNCHANGED <<members, rosterVars, sequenceVars, holder, work, serving>>

-----------------------------------------------------------------------------
Stands(r, op, phase) == work[r].op = op /\ work[r].phase = phase
Becomes(r, x) == work' = [work EXCEPT ![r] = x]
Enters(r, u, x) == /\ serving /\ work[r] = NoWork /\ u \in members
                   /\ Becomes(r, x)
                   /\ UNCHANGED <<outsideVars, rosterVars, sequenceVars, holder, serving>>

(* GetEncryptedGroupBootstrap, as far as the list of members.              *)
AskBootstrap(r, u) ==
    Enters(r, u, [NoWork EXCEPT !.op = "bootstrap", !.phase = "members", !.user = u,
                                !.members = members])

(* SendEncryptedGroupMessage, as far as the list of members; the client    *)
(* names a version of the roster that was given out.                       *)
AskSend(r, u, m, kind, known) ==
    /\ known \in told /\ m \notin Old
    /\ kind = "edit" => MayMutate(u)
    /\ Enters(r, u, [NoWork EXCEPT !.op = "send", !.phase = "members", !.user = u,
                                   !.members = members, !.msg = m, !.kind = kind,
                                   !.version = known.version])

(* resolveEncryptedGroupRoster: active devices of the members that were    *)
(* read.                                                                   *)
ReadDevices(r) ==
    /\ work[r].phase = "members"
    /\ Becomes(r, [work[r] EXCEPT !.phase = "devices",
                                 !.devices = {d \in active : OwnerOf[d] \in work[r].members}])
    /\ UNCHANGED <<outsideVars, rosterVars, sequenceVars, holder, serving>>

(* Mutant: a change of devices is no change of the roster.                 *)
SameRoster_members(r) == lane.members = work[r].members

SameRoster(r) == lane.members = work[r].members /\ lane.devices = work[r].devices

(* SyncEncryptedGroupControlPlane: the roster becomes what the request has *)
(* read, however old that is by now, under a new version if it differs.    *)
SyncRoster(r) ==
    /\ work[r].phase = "devices" /\ holder = NoHolder
    /\ lane.version = 0 => work[r].op = "bootstrap" /\ Owners(work[r].devices) = work[r].members
    /\ lane.version < MaxRoster
    /\ lane' = IF lane.version > 0 /\ SameRoster(r) THEN lane
               ELSE [version |-> lane.version + 1,
                     members |-> work[r].members, devices |-> work[r].devices]

HasDevice(r) == work[r].user \in Owners(work[r].devices)

(* The answer of a bootstrap.                                              *)
Bootstrap(r) ==
    /\ work[r].op = "bootstrap" /\ HasDevice(r) /\ SyncRoster(r)
    /\ told' = told \cup {[version |-> lane'.version, devices |-> work[r].devices]}
    /\ Becomes(r, NoWork)
    /\ UNCHANGED <<outsideVars, sequenceVars, holder, serving>>

(* A send goes on if the version is the one its client encrypted for; the  *)
(* roster has been synchronised either way.                                *)
CheckVersion(r) ==
    /\ work[r].op = "send" /\ SyncRoster(r)
    /\ Becomes(r, IF lane'.version = work[r].version /\ HasDevice(r)
                     THEN [work[r] EXCEPT !.phase = "checked"] ELSE NoWork)
    /\ UNCHANGED <<told, outsideVars, sequenceVars, holder, serving>>

(* Mutant: what is unread is not looked up for the recipients.             *)
RecipientsFound_skipped(r) == TRUE

(* The unread count of a recipient that is no member cannot be read.       *)
RecipientsFound(r) == Owners(work[r].devices) \subseteq members

(* Mutant: the number is reserved in a transaction of its own.             *)
ReserveSequence_apart(r) ==
    /\ Stands(r, "send", "checked")
    /\ work[r].msg \notin Stored /\ RecipientsFound(r)
    /\ Becomes(r, [work[r] EXCEPT !.phase = "reserved", !.seq = counter + 1])
    /\ counter' = counter + 1
    /\ UNCHANGED <<outsideVars, rosterVars, msg, read, holder, serving>>

(* CreateEncryptedGroupMessage: the statements of the transaction, and its *)
(* commit.  The update that reserves the number locks the row of the group *)
(* until then.                                                             *)
ReserveSequence(r) ==
    /\ Stands(r, "send", "checked") /\ holder = NoHolder
    /\ work[r].msg \notin Stored /\ RecipientsFound(r)
    /\ Becomes(r, [work[r] EXCEPT !.phase = "reserved", !.seq = counter + 1])
    /\ holder' = r
    /\ UNCHANGED <<outsideVars, rosterVars, sequenceVars, serving>>

StoreMessage(r) ==
    /\ Stands(r, "send", "reserved")
    /\ msg' = [msg EXCEPT ![work[r].msg] =
                 [kind |-> work[r].kind, seq |-> work[r].seq, sender |-> work[r].user,
                  version |-> work[r].version, to |-> work[r].devices]]
    /\ counter' = work[r].seq
    /\ holder' = NoHolder
    /\ Becomes(r, NoWork)
    /\ UNCHANGED <<outsideVars, rosterVars, read, serving>>

(* A refusal, an error or a client that goes away; a transaction is rolled *)
(* back.                                                                   *)
GiveUp(r) ==
    /\ work[r] # NoWork
    /\ Becomes(r, NoWork)
    /\ holder' = IF holder = r THEN NoHolder ELSE holder
    /\ UNCHANGED <<outsideVars, rosterVars, sequenceVars, serving>>

-----------------------------------------------------------------------------
(* MarkEncryptedGroupChatRead, as far as the message.                      *)
AskRead(r, u, m) ==
    /\ IsContent(m) /\ msg[m].seq > 0
    /\ Enters(r, u, [NoWork EXCEPT !.op = "read", !.phase = "found", !.user = u, !.msg = m,
                                   !.seq = msg[m].seq])

(* The condition of UpsertEncryptedGroupReadState.                         *)
Advances(u, n) == read[u] = Unread \/ read[u].seq < n

MarkRead(r) ==
    /\ Stands(r, "read", "found")
    /\ Advances(work[r].user, work[r].seq)
    /\ read' = [read EXCEPT ![work[r].user] = [msg |-> work[r].msg, seq |-> work[r].seq]]
    /\ Becomes(r, NoWork)
    /\ UNCHANGED <<outsideVars, rosterVars, counter, msg, holder, serving>>

-----------------------------------------------------------------------------
Numbers == {msg[m].seq : m \in Stored}

(* EncryptedSequencesReady.                                                *)
PositionsMatch == \A u \in Participants : read[u] # Unread =>
    IsContent(read[u].msg) /\ msg[read[u].msg].seq > 0 /\ read[u].seq = msg[read[u].msg].seq
Ready == Unassigned = {} /\ (\A n \in Numbers : n <= counter) /\ PositionsMatch

(* ListGroupEncryptedSequenceBackfillRows: the oldest ones.                *)
Oldest(B) == \A m \in B, n \in Unassigned \ B : m < n

(* Mutant: numbers are given from the newest to the oldest.                *)
Rank_newest(m, B) == Cardinality({n \in B : n >= m})

(* The place of a message in its batch.                                    *)
Rank(m, B) == Cardinality({n \in B : n <= m})

(* SetGroupEncryptedSequenceCounter.                                       *)
Highest == CHOOSE n \in Numbers \cup {counter} : \A k \in Numbers \cup {counter} : k <= n

(* RepairGroupEncryptedReadSequence, ResetInvalidGroupEncryptedReadSequence*)
Repaired(u) ==
    LET m == read[u].msg IN
    IF IsContent(m) THEN [msg |-> m, seq |-> msg'[m].seq] ELSE Unread

(* backfillEncryptedConversation: one batch in one transaction, of any of  *)
(* the operators that run it; the positions follow the last batch.         *)
Backfill(size) ==
    \E B \in SUBSET Unassigned :
       /\ ~Ready /\ holder = NoHolder
       /\ Oldest(B) /\ Cardinality(B) = (IF Cardinality(Unassigned) < size
                                           THEN Cardinality(Unassigned) ELSE size)
       /\ counter' = Highest + Cardinality(B)
       /\ msg' = [m \in Messages |->
                    IF m \in B THEN [msg[m] EXCEPT !.seq = Highest + Rank(m, B)] ELSE msg[m]]
       /\ read' = IF B = Unassigned THEN [u \in Participants |-> Repaired(u)] ELSE read
       /\ UNCHANGED <<outsideVars, rosterVars, holder, work, serving>>

(* main.go: the service does not start before the rows are ready.          *)
Serve == /\ ~serving /\ Ready
         /\ serving' = TRUE
         /\ UNCHANGED <<outsideVars, rosterVars, sequenceVars, holder, work>>

Stop == /\ serving
        /\ serving' = FALSE
        /\ holder' = NoHolder
        /\ work' = [r \in Requests |-> NoWork]
        /\ UNCHANGED <<outsideVars, rosterVars, sequenceVars>>

-----------------------------------------------------------------------------
RequestNext(r) ==
    \/ \E u \in Participants : AskBootstrap(r, u)
    \/ \E u \in Participants, m \in Messages, k \in MessageKinds, x \in told : AskSend(r, u, m, k, x)
    \/ \E u \in Participants, m \in Messages : AskRead(r, u, m)
    \/ ReadDevices(r) \/ Bootstrap(r) \/ CheckVersion(r)
    \/ ReserveSequence(r) \/ StoreMessage(r) \/ MarkRead(r) \/ GiveUp(r)

ConversationNext ==
    \/ \E u \in Participants : MembershipChanges(u)
    \/ \E d \in Clients : DeviceActivated(d) \/ DeviceRevoked(d)
    \/ \E r \in Requests : RequestNext(r)
    \/ \E n \in BatchSizes : Backfill(n)
    \/ Serve \/ Stop

ConversationSpec == ConversationInit /\ [][ConversationNext]_conversationVars

-----------------------------------------------------------------------------
WorkRecords == [op: {"none", "bootstrap", "send", "read"},
                phase: {"none", "members", "devices", "checked", "reserved", "found"},
                user: Participants \cup {NoMessage}, members: SUBSET Participants,
                devices: SUBSET Clients, msg: Messages \cup {NoMessage},
                kind: MessageKinds \cup {"none"}, version: Nat, seq: Nat]
MessageRecords == [kind: MessageKinds \cup {"none"}, seq: Nat, version: Nat,
                   sender: Participants \cup {NoMessage}, to: SUBSET Clients]

(* Every variable has its type.                                            *)
ConversationTypeOK ==
    /\ members \subseteq Participants /\ active \subseteq Clients
    /\ lane \in [version: Nat, members: SUBSET Participants, devices: SUBSET Clients]
    /\ told \subseteq [version: Nat, devices: SUBSET Clients]
    /\ counter \in Nat /\ holder \in Requests \cup {NoHolder}
    /\ msg \in [Messages -> MessageRecords]
    /\ read \in [Participants -> [msg: Messages \cup {NoMessage}, seq: Nat]]
    /\ work \in [Requests -> WorkRecords]
    /\ serving \in BOOLEAN

Rosters == told \cup {[version |-> msg[m].version, devices |-> msg[m].to] : m \in Stored}

(* A version of the roster names one set of devices: what is delivered     *)
(* under a version goes to the devices that a client which encrypts for    *)
(* that version was told, although rosters are read before the transaction *)
(* that compares them and may overtake each other.                         *)
VersionFixesRoster == \A x, y \in Rosters : x.version = y.version => x.devices = y.devices

(* A message that is stored is addressed to devices of users who are       *)
(* members at that moment, although the roster was read before.            *)
OnlyMembersAddressed ==
    [][msg' # msg => \A m \in Messages \ Stored :
          msg'[m].kind # "none" => Owners(msg'[m].to) \subseteq members]_conversationVars

(* A message gets its number above every number and every read position    *)
(* that is visible by then: nothing appears among what a user has read.    *)
AppendsOnly ==
    [][msg' # msg => \A m \in Messages : msg'[m].seq # msg[m].seq =>
          /\ msg[m].seq = 0
          /\ \A n \in Numbers : n < msg'[m].seq
          /\ \A u \in Participants : read[u].seq < msg'[m].seq]_conversationVars

(* While the service runs, everything has its number, positions are those  *)
(* of the messages they name, and old messages have the order of their     *)
(* times, after any number of interrupted batches.                         *)
ServedInOrder ==
    serving => Ready /\ \A m, n \in Stored \cap Old : m < n => msg[m].seq < msg[n].seq
=============================================================================

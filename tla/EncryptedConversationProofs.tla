-------------------- MODULE EncryptedConversationProofs --------------------
(***************************************************************************)
(* What holds of the encrypted lane of a group for any number of users,    *)
(* devices, messages and overlapping requests, and for batches of any      *)
(* size.  Each part of the invariant says what a request under way may     *)
(* rely on between two of its transactions.                                *)
(***************************************************************************)
EXTENDS EncryptedConversation, FiniteSetTheorems, TLAPS

(* What a request that has passed the comparison will deliver under.       *)
Accepted == {r \in Requests : work[r].phase \in {"checked", "reserved"}}
Pending == {[version |-> work[r].version, devices |-> work[r].devices] : r \in Accepted}
LaneRoster == [version |-> lane.version, devices |-> lane.devices]
Known == Rosters \cup Pending \cup {LaneRoster}

(* The lane is the newest roster, and everything that has been promised    *)
(* under its version, or is about to be, goes to its devices.              *)
RosterInv ==
    /\ \A x \in Known : x.version <= lane.version
    /\ \A x, y \in Known : x.version = y.version => x.devices = y.devices

(* A send is about a new message.                                          *)
SendInv == \A r \in Requests :
    /\ work[r].op = "send" => work[r].msg \in Messages \ Old /\ work[r].kind # "none"
    /\ work[r].phase \in {"checked", "reserved"} => work[r].op = "send"

(* A transaction that has reserved a number holds the row of the group.    *)
HolderInv == \A r \in Requests : work[r].phase = "reserved" => holder = r

(* The counter is the greatest number that anything knows of.              *)
CounterInv ==
    /\ \A m \in Messages : msg[m].kind = "none" => msg[m].seq = 0
    /\ \A m \in Messages : msg[m].seq <= counter
    /\ \A u \in Participants : read[u].seq <= counter
    /\ \A r \in Requests :
          /\ work[r].op = "read" => work[r].seq <= counter
          /\ work[r].phase = "reserved" => /\ work[r].seq = counter + 1
                                           /\ work[r].msg \notin Stored

(* Nobody leaves between the look at the recipients and the commit.        *)
RecipientsInv == \A r \in Requests :
    work[r].phase = "reserved" => Owners(work[r].devices) \subseteq members

(* A position that is about to be written is that of a message of its own, *)
(* and old messages that have their numbers come before all that do not.   *)
OrderInv ==
    /\ \A r \in Requests :
          /\ work[r].op = "read" => /\ IsContent(work[r].msg)
                                    /\ work[r].seq > 0 /\ work[r].seq = msg[work[r].msg].seq
    /\ \A m, n \in Stored \cap Old : m < n /\ msg[n].seq > 0
          => msg[m].seq > 0 /\ msg[m].seq < msg[n].seq

-----------------------------------------------------------------------------
(* A request gets somewhere and the others stay where they are.            *)
LEMMA BecomesKeeps ==
    ASSUME ConversationTypeOK, NEW r \in Requests, NEW x \in WorkRecords, Becomes(r, x)
    PROVE  /\ work' \in [Requests -> WorkRecords]
           /\ work'[r] = x
           /\ \A q \in Requests \ {r} : work'[q] = work[q]
BY DEF Becomes, ConversationTypeOK

LEMMA NoWorkTyped == NoWork \in WorkRecords
BY DEF NoWork, WorkRecords

(* Where the reading of the devices gets a request.                        *)
LEMMA DevicesTyped ==
    ASSUME ConversationTypeOK, NEW r \in Requests
    PROVE  LET x == [work[r] EXCEPT !.phase = "devices",
                                    !.devices = {d \in active : OwnerOf[d] \in work[r].members}]
           IN  /\ x \in WorkRecords /\ x.op = work[r].op /\ x.phase = "devices"
               /\ x.msg = work[r].msg /\ x.kind = work[r].kind /\ x.seq = work[r].seq
BY DEF ConversationTypeOK, WorkRecords

-----------------------------------------------------------------------------
(* The types, with what is sent.                                           *)
LEMMA TypesStart == ConversationInit => ConversationTypeOK /\ SendInv
<1> SUFFICES ASSUME ConversationInit PROVE ConversationTypeOK /\ SendInv
  OBVIOUS
<1>1. PICK L \in SUBSET Old : /\ lane = [version |-> IF L = {} THEN 0 ELSE 1, members |-> members, devices |-> active]
                              /\ told = IF L = {} THEN {} ELSE {[version |-> 1, devices |-> active]}
                              /\ read \in [Participants -> [msg: L \cup {NoMessage}, seq: {0}]]
  BY DEF ConversationInit
<1>2. msg \in [Messages -> MessageRecords]
  <2>1. msg \in [Messages -> {NotStored}
            \cup [kind: MessageKinds, seq: {0}, sender: Participants, version: {1}, to: {active}]]
    BY DEF ConversationInit
  <2>2. NotStored \in MessageRecords
    BY DEF NotStored, MessageRecords
  <2>3. [kind: MessageKinds, seq: {0}, sender: Participants, version: {1}, to: {active}] \subseteq MessageRecords
    BY DEF ConversationInit, MessageRecords
  <2> QED
    BY <2>1, <2>2, <2>3
<1>3. work \in [Requests -> WorkRecords] /\ \A r \in Requests : work[r] = NoWork
  BY NoWorkTyped DEF ConversationInit
<1>4. read \in [Participants -> [msg: Messages \cup {NoMessage}, seq: Nat]]
  <2>1. L \cup {NoMessage} \subseteq Messages \cup {NoMessage}
    BY ConversationAssumption
  <2>2. [msg: L \cup {NoMessage}, seq: {0}] \subseteq [msg: Messages \cup {NoMessage}, seq: Nat]
    BY <2>1
  <2> QED
    BY <1>1, <2>2
<1>5. /\ lane \in [version: Nat, members: SUBSET Participants, devices: SUBSET Clients]
      /\ told \subseteq [version: Nat, devices: SUBSET Clients]
  <2>1. members \subseteq Participants /\ active \subseteq Clients
    BY DEF ConversationInit
  <2>2. (IF L = {} THEN 0 ELSE 1) \in Nat /\ [version |-> 1, devices |-> active] \in [version: Nat, devices: SUBSET Clients]
    BY <2>1
  <2> QED
    BY <1>1, <2>1, <2>2
<1>7. ConversationTypeOK
  BY <1>2, <1>3, <1>4, <1>5 DEF ConversationInit, ConversationTypeOK
<1>6. SendInv
  BY <1>3 DEF SendInv, NoWork
<1> QED
  BY <1>6, <1>7

LEMMA RosterTyped ==
    ASSUME ConversationTypeOK, NEW r \in Requests, SyncRoster(r)
    PROVE  lane' \in [version: Nat, members: SUBSET Participants, devices: SUBSET Clients]
BY DEF ConversationTypeOK, SyncRoster, WorkRecords

LEMMA HighestTyped ==
    ASSUME ConversationTypeOK, \A m \in Messages : msg[m].seq <= counter
    PROVE  Highest = counter
<1>1. counter \in Nat /\ \A n \in Numbers : n \in Nat /\ n <= counter
  BY DEF ConversationTypeOK, Numbers, Stored, MessageRecords
<1> DEFINE Greatest(n) == n \in Numbers \cup {counter} /\ \A k \in Numbers \cup {counter} : k <= n
<1>2. Greatest(counter)
  BY <1>1
<1>3. \A n : Greatest(n) => n = counter
  BY <1>1
<1> QED
  BY <1>2, <1>3 DEF Highest

LEMMA BatchTyped == ASSUME NEW B \in SUBSET Messages PROVE Cardinality(B) \in Nat
BY ConversationAssumption, FS_Subset, FS_CardinalityType

(* Numbers in a batch go up with the order of its messages.                *)
LEMMA Ranks ==
    ASSUME NEW B \in SUBSET Messages, NEW m \in B
    PROVE  /\ Cardinality(B) \in Nat
           /\ Rank(m, B) \in Nat /\ 0 < Rank(m, B) /\ Rank(m, B) <= Cardinality(B)
           /\ \A n \in B : m < n => Rank(m, B) < Rank(n, B)
<1>1. IsFiniteSet(B)
  BY ConversationAssumption, FS_Subset
<1> DEFINE Up(n) == {k \in B : k <= n}
<1>2. \A n \in B : IsFiniteSet(Up(n)) /\ Cardinality(Up(n)) \in Nat /\ Cardinality(Up(n)) <= Cardinality(B)
  BY <1>1, FS_Subset, FS_CardinalityType
<1>3. Up(m) # {} /\ Cardinality(Up(m)) # 0
  BY <1>2, FS_EmptySet, ConversationAssumption
<1>4. ASSUME NEW n \in B, m < n PROVE Cardinality(Up(m)) < Cardinality(Up(n))
  <2>1. \A k \in B : k \in Nat
    BY ConversationAssumption
  <2>2. Up(m) \subseteq Up(n) /\ n \in Up(n) /\ n \notin Up(m)
    BY <1>4, <2>1
  <2> HIDE DEF Up
  <2> QED
    BY <1>2, <2>2, FS_Subset
<1> QED
  BY <1>1, <1>2, <1>3, <1>4, FS_CardinalityType DEF Rank
-----------------------------------------------------------------------------
(* Every step keeps the types.                                             *)
LEMMA TypesKept ==
    ASSUME ConversationTypeOK, SendInv, \A m \in Messages : msg[m].seq <= counter,
           [ConversationNext]_conversationVars
    PROVE  ConversationTypeOK' /\ SendInv'
<1>1. ASSUME NEW u \in Participants, MembershipChanges(u) PROVE ConversationTypeOK' /\ SendInv'
  BY <1>1 DEF MembershipChanges, rosterVars, sequenceVars, ConversationTypeOK, SendInv
<1>2. ASSUME NEW d \in Clients, DeviceActivated(d) \/ DeviceRevoked(d) PROVE ConversationTypeOK' /\ SendInv'
  BY <1>2 DEF DeviceActivated, DeviceRevoked, rosterVars, sequenceVars, ConversationTypeOK, SendInv
<1>3. ASSUME NEW r \in Requests, NEW u \in Participants, AskBootstrap(r, u) PROVE ConversationTypeOK' /\ SendInv'
  <2> DEFINE x == [NoWork EXCEPT !.op = "bootstrap", !.phase = "members", !.user = u,
                                 !.members = members]
  <2>1. x \in WorkRecords /\ x.op = "bootstrap" /\ x.phase = "members"
    BY DEF NoWork, WorkRecords, ConversationTypeOK
  <2>2. Becomes(r, x)
    BY <1>3 DEF AskBootstrap, Enters
  <2> HIDE DEF x
  <2> QED
    BY <1>3, <2>1, <2>2, BecomesKeeps DEF AskBootstrap, Enters, outsideVars, rosterVars, sequenceVars, ConversationTypeOK, SendInv
<1>4. ASSUME NEW r \in Requests, NEW u \in Participants, NEW m \in Messages, NEW k \in MessageKinds, NEW v \in told, AskSend(r, u, m, k, v) PROVE ConversationTypeOK' /\ SendInv'
  <2> DEFINE x == [NoWork EXCEPT !.op = "send", !.phase = "members", !.user = u,
                                 !.members = members, !.msg = m, !.kind = k,
                                 !.version = v.version]
  <2>1. v.version \in Nat
    BY DEF ConversationTypeOK
  <2>2. x \in WorkRecords /\ x.op = "send" /\ x.phase = "members" /\ x.msg = m /\ x.kind = k
    BY <2>1 DEF NoWork, WorkRecords, ConversationTypeOK
  <2>3. Becomes(r, x) /\ m \notin Old /\ k # "none"
    BY <1>4 DEF AskSend, Enters, MessageKinds
  <2> HIDE DEF x
  <2> QED
    BY <1>4, <2>2, <2>3, BecomesKeeps DEF AskSend, Enters, outsideVars, rosterVars, sequenceVars, ConversationTypeOK, SendInv
<1>5. ASSUME NEW r \in Requests, NEW u \in Participants, NEW m \in Messages, AskRead(r, u, m) PROVE ConversationTypeOK' /\ SendInv'
  <2> DEFINE x == [NoWork EXCEPT !.op = "read", !.phase = "found", !.user = u, !.msg = m,
                                 !.seq = msg[m].seq]
  <2>1. msg[m].seq \in Nat
    BY DEF ConversationTypeOK, MessageRecords
  <2>2. x \in WorkRecords /\ x.op = "read" /\ x.phase = "found"
    BY <2>1 DEF NoWork, WorkRecords, ConversationTypeOK
  <2>3. Becomes(r, x)
    BY <1>5 DEF AskRead, Enters
  <2> HIDE DEF x
  <2> QED
    BY <1>5, <2>2, <2>3, BecomesKeeps DEF AskRead, Enters, outsideVars, rosterVars, sequenceVars, ConversationTypeOK, SendInv
<1>6. ASSUME NEW r \in Requests, ReadDevices(r) PROVE ConversationTypeOK' /\ SendInv'
  <2> DEFINE x == [work[r] EXCEPT !.phase = "devices",
                                  !.devices = {d \in active : OwnerOf[d] \in work[r].members}]
  <2>1. x \in WorkRecords /\ x.op = work[r].op /\ x.phase = "devices" /\ x.msg = work[r].msg /\ x.kind = work[r].kind
    BY DevicesTyped
  <2>2. Becomes(r, x)
    BY <1>6 DEF ReadDevices
  <2> HIDE DEF x
  <2> QED
    BY <1>6, <2>1, <2>2, BecomesKeeps DEF ReadDevices, outsideVars, rosterVars, sequenceVars, ConversationTypeOK, SendInv
<1>7. ASSUME NEW r \in Requests, Bootstrap(r) PROVE ConversationTypeOK' /\ SendInv'
  <2>1. lane' \in [version: Nat, members: SUBSET Participants, devices: SUBSET Clients]
    BY <1>7, RosterTyped DEF Bootstrap
  <2>2. [version |-> lane'.version, devices |-> work[r].devices] \in [version: Nat, devices: SUBSET Clients]
    BY <2>1 DEF ConversationTypeOK, WorkRecords
  <2>3. Becomes(r, NoWork)
    BY <1>7 DEF Bootstrap
  <2> QED
    BY <1>7, <2>1, <2>2, <2>3, BecomesKeeps, NoWorkTyped
       DEF Bootstrap, outsideVars, sequenceVars, NoWork, ConversationTypeOK, SendInv
<1>8. ASSUME NEW r \in Requests, CheckVersion(r) PROVE ConversationTypeOK' /\ SendInv'
  <2> DEFINE x == IF lane'.version = work[r].version /\ HasDevice(r)
                    THEN [work[r] EXCEPT !.phase = "checked"] ELSE NoWork
  <2>1. lane' \in [version: Nat, members: SUBSET Participants, devices: SUBSET Clients]
    BY <1>8, RosterTyped DEF CheckVersion
  <2>2. /\ x \in WorkRecords
        /\ x.op = "send" => x.msg = work[r].msg /\ x.kind = work[r].kind /\ work[r].op = "send"
        /\ x.phase \in {"checked", "reserved"} => x.op = "send"
    BY <1>8, NoWorkTyped DEF CheckVersion, ConversationTypeOK, WorkRecords, NoWork
  <2>3. Becomes(r, x)
    BY <1>8 DEF CheckVersion
  <2> HIDE DEF x
  <2> QED
    BY <1>8, <2>1, <2>2, <2>3, BecomesKeeps DEF CheckVersion, outsideVars, sequenceVars, ConversationTypeOK, SendInv
<1>9. ASSUME NEW r \in Requests, ReserveSequence(r) PROVE ConversationTypeOK' /\ SendInv'
  <2> DEFINE x == [work[r] EXCEPT !.phase = "reserved", !.seq = counter + 1]
  <2>1. work[r] \in WorkRecords /\ counter + 1 \in Nat /\ work[r].op = "send"
    BY <1>9 DEF ReserveSequence, Stands, ConversationTypeOK
  <2>2. x \in WorkRecords /\ x.op = "send" /\ x.msg = work[r].msg /\ x.kind = work[r].kind
    BY <2>1 DEF WorkRecords
  <2>3. Becomes(r, x)
    BY <1>9 DEF ReserveSequence
  <2> HIDE DEF x
  <2> QED
    BY <1>9, <2>1, <2>2, <2>3, BecomesKeeps DEF ReserveSequence, outsideVars, rosterVars, sequenceVars, ConversationTypeOK, SendInv
<1>10. ASSUME NEW r \in Requests, StoreMessage(r) PROVE ConversationTypeOK' /\ SendInv'
  <2>1. work[r] \in WorkRecords /\ work[r].op = "send" /\ work[r].msg \in Messages
    BY <1>10 DEF StoreMessage, Stands, ConversationTypeOK, SendInv
  <2>2. [kind |-> work[r].kind, seq |-> work[r].seq, sender |-> work[r].user,
         version |-> work[r].version, to |-> work[r].devices] \in MessageRecords
    BY <2>1 DEF WorkRecords, MessageRecords
  <2>3. msg' \in [Messages -> MessageRecords] /\ counter' \in Nat
    BY <1>10, <2>1, <2>2 DEF StoreMessage, ConversationTypeOK, WorkRecords
  <2>4. Becomes(r, NoWork)
    BY <1>10 DEF StoreMessage
  <2> QED
    BY <1>10, <2>3, <2>4, BecomesKeeps, NoWorkTyped DEF StoreMessage, outsideVars, rosterVars, NoWork, ConversationTypeOK, SendInv
<1>11. ASSUME NEW r \in Requests, MarkRead(r) PROVE ConversationTypeOK' /\ SendInv'
  <2>1. Becomes(r, NoWork) /\ work[r] \in WorkRecords
    BY <1>11 DEF MarkRead, ConversationTypeOK
  <2>2. read' \in [Participants -> [msg: Messages \cup {NoMessage}, seq: Nat]]
    BY <1>11, <2>1 DEF MarkRead, ConversationTypeOK, WorkRecords
  <2> QED
    BY <1>11, <2>1, <2>2, BecomesKeeps, NoWorkTyped DEF MarkRead, outsideVars, rosterVars, NoWork, ConversationTypeOK, SendInv
<1>12. ASSUME NEW r \in Requests, GiveUp(r) PROVE ConversationTypeOK' /\ SendInv'
  <2>1. Becomes(r, NoWork)
    BY <1>12 DEF GiveUp
  <2> QED
    BY <1>12, <2>1, BecomesKeeps, NoWorkTyped DEF GiveUp, outsideVars, rosterVars, sequenceVars, NoWork, ConversationTypeOK, SendInv
<1>13. ASSUME NEW n \in BatchSizes, Backfill(n) PROVE ConversationTypeOK' /\ SendInv'
  <2>1. PICK B \in SUBSET Unassigned :
           /\ counter' = Highest + Cardinality(B)
           /\ msg' = [m \in Messages |->
                        IF m \in B THEN [msg[m] EXCEPT !.seq = Highest + Rank(m, B)] ELSE msg[m]]
           /\ read' = IF B = Unassigned THEN [u \in Participants |-> Repaired(u)] ELSE read
           /\ UNCHANGED <<outsideVars, rosterVars, holder, work, serving>>
    BY <1>13 DEF Backfill
  <2>2. B \in SUBSET Messages /\ Highest = counter /\ Cardinality(B) \in Nat
    BY HighestTyped, BatchTyped DEF Unassigned, Stored
  <2>3. msg' \in [Messages -> MessageRecords]
    BY <2>1, <2>2, Ranks DEF ConversationTypeOK, MessageRecords
  <2>4. ASSUME NEW u \in Participants PROVE Repaired(u) \in [msg: Messages \cup {NoMessage}, seq: Nat]
    BY <2>3 DEF Repaired, Unread, IsContent, Stored, MessageRecords
  <2>5. read' \in [Participants -> [msg: Messages \cup {NoMessage}, seq: Nat]]
    BY <2>1, <2>4 DEF ConversationTypeOK
  <2> QED
    BY <2>1, <2>2, <2>3, <2>5 DEF outsideVars, rosterVars, ConversationTypeOK, SendInv
<1>14. ASSUME Serve \/ Stop PROVE ConversationTypeOK' /\ SendInv'
  <2>1. CASE Serve
    BY <2>1 DEF Serve, outsideVars, rosterVars, sequenceVars, ConversationTypeOK, SendInv
  <2>2. CASE Stop
    <3>1. work' \in [Requests -> WorkRecords] /\ \A r \in Requests : work'[r] = NoWork
      BY <2>2, NoWorkTyped DEF Stop
    <3>2. /\ \A r \in Requests : work'[r].op # "send" /\ work'[r].phase = "none"
      BY <3>1 DEF NoWork
    <3> QED
      BY <2>2, <3>1, <3>2 DEF Stop, outsideVars, rosterVars, sequenceVars, ConversationTypeOK, SendInv
  <2> QED
    BY <1>14, <2>1, <2>2
<1>15. ASSUME UNCHANGED conversationVars PROVE ConversationTypeOK' /\ SendInv'
  BY <1>15 DEF conversationVars, outsideVars, rosterVars, sequenceVars, ConversationTypeOK, SendInv
<1> QED
  BY <1>1, <1>2, <1>3, <1>4, <1>5, <1>6, <1>7, <1>8, <1>9, <1>10, <1>11, <1>12, <1>13, <1>14, <1>15 DEF ConversationNext, RequestNext

-----------------------------------------------------------------------------
(* The rosters that are known after a step are those that were, and the    *)
(* one of the lane, which is the old one or has a version of its own.      *)
LEMMA RosterGrows ==
    ASSUME ConversationTypeOK, RosterInv, ConversationTypeOK',
           Rosters' \cup Pending' \subseteq Known \cup {LaneRoster'},
           LaneRoster' = LaneRoster \/ lane'.version = lane.version + 1
    PROVE  RosterInv'
<1>1. lane.version \in Nat /\ lane'.version \in Nat
  BY DEF ConversationTypeOK
<1>2. Known' \subseteq Known \cup {LaneRoster'}
  BY DEF Known
<1>3. LaneRoster'.version = lane'.version /\ LaneRoster.version = lane.version /\ LaneRoster \in Known
  BY DEF LaneRoster, Known
<1>4. \A x \in Known : x.version \in Nat /\ x.version <= lane.version
  <2>1. \A x \in Rosters : x.version \in Nat
    BY DEF Rosters, Stored, ConversationTypeOK, MessageRecords
  <2>2. \A x \in Pending : x.version \in Nat
    BY DEF Pending, Accepted, ConversationTypeOK, WorkRecords
  <2> QED
    BY <1>1, <1>3, <2>1, <2>2 DEF Known, RosterInv
<1>5. CASE LaneRoster' = LaneRoster
  BY <1>2, <1>3, <1>4, <1>5 DEF RosterInv
<1>6. CASE lane'.version = lane.version + 1
  BY <1>1, <1>2, <1>3, <1>4, <1>6 DEF RosterInv
<1> QED
  BY <1>5, <1>6

LEMMA RosterStart == ConversationInit => RosterInv
<1> SUFFICES ASSUME ConversationInit PROVE RosterInv
  OBVIOUS
<1>1. PICK L \in SUBSET Old : /\ lane = [version |-> IF L = {} THEN 0 ELSE 1, members |-> members, devices |-> active]
                              /\ told = IF L = {} THEN {} ELSE {[version |-> 1, devices |-> active]}
                              /\ Stored = L
  BY DEF ConversationInit
<1>2. Accepted = {}
  BY DEF Accepted, ConversationInit, NoWork
<1>3. \A m \in Stored : msg[m].version = 1 /\ msg[m].to = active
  BY DEF Stored, NotStored, ConversationInit
<1>4. \A x \in Known : x = [version |-> lane.version, devices |-> active]
  BY <1>1, <1>2, <1>3 DEF Known, Rosters, Pending, LaneRoster
<1> QED
  BY <1>1, <1>4 DEF RosterInv

(* A request that is not accepted by the step adds no roster.              *)
LEMMA PendingKept ==
    ASSUME ConversationTypeOK, NEW r \in Requests, NEW x \in WorkRecords, Becomes(r, x),
           x.phase \notin {"checked", "reserved"}
    PROVE  Pending' \subseteq Pending
BY BecomesKeeps DEF Pending, Accepted

LEMMA RosterKept ==
    ASSUME ConversationTypeOK, SendInv, RosterInv, ConversationTypeOK',
           \A m \in Messages : msg[m].seq <= counter,
           [ConversationNext]_conversationVars
    PROVE  RosterInv'
<1> SUFFICES /\ Rosters' \cup Pending' \subseteq Known \cup {LaneRoster'}
             /\ LaneRoster' = LaneRoster \/ lane'.version = lane.version + 1
  BY RosterGrows
<1> DEFINE Goal == /\ Rosters' \cup Pending' \subseteq Known \cup {LaneRoster'}
                   /\ LaneRoster' = LaneRoster \/ lane'.version = lane.version + 1
<1>0. ASSUME UNCHANGED <<lane, told, msg>>, Pending' \subseteq Pending PROVE Goal
  BY <1>0 DEF Known, Rosters, Stored, LaneRoster
<1>1. ASSUME NEW u \in Participants, MembershipChanges(u) PROVE Goal
  BY <1>0, <1>1 DEF MembershipChanges, rosterVars, sequenceVars, Pending, Accepted
<1>2. ASSUME NEW d \in Clients, DeviceActivated(d) \/ DeviceRevoked(d) PROVE Goal
  BY <1>0, <1>2 DEF DeviceActivated, DeviceRevoked, rosterVars, sequenceVars, Pending, Accepted
<1>3. ASSUME NEW r \in Requests, NEW u \in Participants, AskBootstrap(r, u) PROVE Goal
  <2>1. work'[r].phase = "members" /\ \A q \in Requests \ {r} : work'[q] = work[q]
    BY <1>3 DEF AskBootstrap, Enters, Becomes, NoWork, ConversationTypeOK
  <2> QED
    BY <1>0, <1>3, <2>1 DEF AskBootstrap, Enters, rosterVars, sequenceVars, Pending, Accepted
<1>4. ASSUME NEW r \in Requests, NEW u \in Participants, NEW m \in Messages, NEW k \in MessageKinds, NEW v \in told,
             AskSend(r, u, m, k, v)
      PROVE  Goal
  <2>1. work'[r].phase = "members" /\ \A q \in Requests \ {r} : work'[q] = work[q]
    BY <1>4 DEF AskSend, Enters, Becomes, NoWork, ConversationTypeOK
  <2> QED
    BY <1>0, <1>4, <2>1 DEF AskSend, Enters, rosterVars, sequenceVars, Pending, Accepted
<1>5. ASSUME NEW r \in Requests, NEW u \in Participants, NEW m \in Messages, AskRead(r, u, m) PROVE Goal
  <2>1. work'[r].phase = "found" /\ \A q \in Requests \ {r} : work'[q] = work[q]
    BY <1>5 DEF AskRead, Enters, Becomes, NoWork, ConversationTypeOK
  <2> QED
    BY <1>0, <1>5, <2>1 DEF AskRead, Enters, rosterVars, sequenceVars, Pending, Accepted
<1>6. ASSUME NEW r \in Requests, ReadDevices(r) PROVE Goal
  <2> DEFINE x == [work[r] EXCEPT !.phase = "devices",
                                  !.devices = {d \in active : OwnerOf[d] \in work[r].members}]
  <2>1. x \in WorkRecords /\ x.phase = "devices"
    BY DevicesTyped
  <2>2. Becomes(r, x)
    BY <1>6 DEF ReadDevices
  <2> HIDE DEF x
  <2> QED
    BY <1>0, <1>6, <2>1, <2>2, PendingKept DEF ReadDevices, rosterVars, sequenceVars
<1>7. ASSUME NEW r \in Requests, SyncRoster(r)
      PROVE  /\ LaneRoster' = [version |-> lane'.version, devices |-> work[r].devices]
             /\ LaneRoster' = LaneRoster \/ lane'.version = lane.version + 1
  BY <1>7 DEF SyncRoster, SameRoster, LaneRoster
<1>8. ASSUME NEW r \in Requests, Bootstrap(r) PROVE Goal
  <2>1. Pending' \subseteq Pending
    BY <1>8, NoWorkTyped, PendingKept DEF Bootstrap, NoWork
  <2> QED
    BY <1>7, <1>8, <2>1 DEF Bootstrap, Rosters, Stored, Known, sequenceVars
<1>9. ASSUME NEW r \in Requests, CheckVersion(r) PROVE Goal
  <2>1. CASE lane'.version = work[r].version /\ HasDevice(r)
    <3>1. /\ work'[r].version = lane'.version /\ work'[r].devices = work[r].devices
          /\ \A q \in Requests \ {r} : work'[q] = work[q]
      BY <1>9, <2>1 DEF CheckVersion, Becomes, ConversationTypeOK, WorkRecords
    <3>2. Pending' \subseteq Pending \cup {[version |-> lane'.version, devices |-> work[r].devices]}
      BY <3>1 DEF Pending, Accepted
    <3> QED
      BY <1>7, <1>9, <3>2 DEF CheckVersion, Rosters, Stored, Known, sequenceVars
  <2>2. CASE ~(lane'.version = work[r].version /\ HasDevice(r))
    <3>1. Pending' \subseteq Pending
      BY <1>9, <2>2, NoWorkTyped, PendingKept DEF CheckVersion, NoWork
    <3> QED
      BY <1>7, <1>9, <3>1 DEF CheckVersion, Rosters, Stored, Known, sequenceVars
  <2> QED
    BY <2>1, <2>2
<1>10. ASSUME NEW r \in Requests, ReserveSequence(r) PROVE Goal
  <2>1. /\ work'[r].version = work[r].version /\ work'[r].devices = work[r].devices /\ r \in Accepted
        /\ \A q \in Requests \ {r} : work'[q] = work[q]
    BY <1>10 DEF ReserveSequence, Stands, Accepted, Becomes, ConversationTypeOK, WorkRecords
  <2>2. Pending' \subseteq Pending
    BY <2>1 DEF Pending, Accepted
  <2> QED
    BY <1>0, <1>10, <2>2 DEF ReserveSequence, rosterVars, sequenceVars
<1>11. ASSUME NEW r \in Requests, StoreMessage(r) PROVE Goal
  <2>1. Pending' \subseteq Pending
    BY <1>11, NoWorkTyped, PendingKept DEF StoreMessage, NoWork
  <2>2. [version |-> work[r].version, devices |-> work[r].devices] \in Pending
    BY <1>11 DEF StoreMessage, Stands, Pending, Accepted
  <2>3. \A m \in Messages : msg'[m] = msg[m] \/ (msg'[m].version = work[r].version /\ msg'[m].to = work[r].devices)
    BY <1>11 DEF StoreMessage, ConversationTypeOK
  <2>4. Rosters' \subseteq Rosters \cup Pending
    BY <1>11, <2>2, <2>3 DEF StoreMessage, rosterVars, Rosters, Stored
  <2> QED
    BY <1>11, <2>1, <2>4 DEF StoreMessage, rosterVars, Known, LaneRoster
<1>12. ASSUME NEW r \in Requests, MarkRead(r) PROVE Goal
  BY <1>0, <1>12, NoWorkTyped, PendingKept DEF MarkRead, rosterVars, NoWork
<1>13. ASSUME NEW r \in Requests, GiveUp(r) PROVE Goal
  BY <1>0, <1>13, NoWorkTyped, PendingKept DEF GiveUp, rosterVars, sequenceVars, NoWork
<1>14. ASSUME NEW n \in BatchSizes, Backfill(n) PROVE Goal
  <2>1. PICK B \in SUBSET Unassigned :
           /\ msg' = [m \in Messages |->
                        IF m \in B THEN [msg[m] EXCEPT !.seq = Highest + Rank(m, B)] ELSE msg[m]]
           /\ UNCHANGED <<rosterVars, work>>
    BY <1>14 DEF Backfill
  <2>2. \A m \in Messages : msg'[m].kind = msg[m].kind /\ msg'[m].version = msg[m].version /\ msg'[m].to = msg[m].to
    BY <2>1 DEF ConversationTypeOK, MessageRecords
  <2> QED
    BY <2>1, <2>2 DEF rosterVars, Rosters, Stored, Pending, Accepted, Known, LaneRoster
<1>15. ASSUME Serve \/ Stop PROVE Goal
  <2>1. Pending' \subseteq Pending
    BY <1>15 DEF Serve, Stop, Pending, Accepted, NoWork
  <2> QED
    BY <1>0, <1>15, <2>1 DEF Serve, Stop, rosterVars, sequenceVars
<1>16. ASSUME UNCHANGED conversationVars PROVE Goal
  BY <1>0, <1>16 DEF conversationVars, rosterVars, sequenceVars, Pending, Accepted
<1> QED
  BY <1>1, <1>2, <1>3, <1>4, <1>5, <1>6, <1>8, <1>9, <1>10, <1>11, <1>12, <1>13, <1>14, <1>15, <1>16
     DEF ConversationNext, RequestNext

-----------------------------------------------------------------------------
(* Reserving, storing and moving numbers.                                  *)
ReservedInv == HolderInv /\ RecipientsInv /\ CounterInv

LEMMA ReservedStart == ConversationInit => ReservedInv
<1> SUFFICES ASSUME ConversationInit PROVE ReservedInv
  OBVIOUS
<1>1. \A m \in Messages : msg[m].seq = 0
  BY DEF ConversationInit, NotStored
<1>2. \A u \in Participants : read[u].seq = 0
  BY DEF ConversationInit
<1>3. counter = 0 /\ \A r \in Requests : work[r].op = "none" /\ work[r].phase = "none"
  BY DEF ConversationInit, NoWork
<1> QED
  BY <1>1, <1>2, <1>3 DEF ReservedInv, HolderInv, RecipientsInv, CounterInv

(* A request that neither reserves nor finds a new position.               *)
LEMMA ReservedStays ==
    ASSUME ReservedInv, NEW r \in Requests, UNCHANGED <<counter, msg, read, members>>,
           \A q \in Requests \ {r} : work'[q] = work[q] /\ (holder = q => holder' = q),
           work'[r].phase # "reserved", work'[r].op = "read" => work'[r].seq <= counter
    PROVE  ReservedInv'
BY DEF ReservedInv, HolderInv, RecipientsInv, CounterInv, Stored

LEMMA ReservedKept ==
    ASSUME ConversationTypeOK, SendInv, ReservedInv, [ConversationNext]_conversationVars
    PROVE  ReservedInv'
<1> USE DEF ReservedInv
<1>1. ASSUME NEW u \in Participants, MembershipChanges(u) PROVE ReservedInv'
  BY <1>1, ConversationAssumption
     DEF MembershipChanges, sequenceVars, HolderInv, RecipientsInv, CounterInv, Stored
<1>2. ASSUME NEW d \in Clients, DeviceActivated(d) \/ DeviceRevoked(d) PROVE ReservedInv'
  BY <1>2 DEF DeviceActivated, DeviceRevoked, sequenceVars, HolderInv, RecipientsInv, CounterInv, Stored
<1>3. ASSUME NEW r \in Requests, NEW u \in Participants, AskBootstrap(r, u) PROVE ReservedInv'
  <2>1. work'[r].phase = "members" /\ work'[r].op = "bootstrap" /\ \A q \in Requests \ {r} : work'[q] = work[q]
    BY <1>3 DEF AskBootstrap, Enters, Becomes, NoWork, ConversationTypeOK
  <2> QED
    BY <1>3, <2>1, ReservedStays DEF AskBootstrap, Enters, outsideVars, sequenceVars
<1>4. ASSUME NEW r \in Requests, NEW u \in Participants, NEW m \in Messages, NEW k \in MessageKinds, NEW v \in told,
             AskSend(r, u, m, k, v)
      PROVE  ReservedInv'
  <2>1. work'[r].phase = "members" /\ work'[r].op = "send" /\ \A q \in Requests \ {r} : work'[q] = work[q]
    BY <1>4 DEF AskSend, Enters, Becomes, NoWork, ConversationTypeOK
  <2> QED
    BY <1>4, <2>1, ReservedStays DEF AskSend, Enters, outsideVars, sequenceVars
<1>5. ASSUME NEW r \in Requests, NEW u \in Participants, NEW m \in Messages, AskRead(r, u, m) PROVE ReservedInv'
  <2>1. work'[r].phase = "found" /\ work'[r].seq = msg[m].seq /\ \A q \in Requests \ {r} : work'[q] = work[q]
    BY <1>5 DEF AskRead, Enters, Becomes, NoWork, ConversationTypeOK
  <2>2. msg[m].seq <= counter
    BY DEF CounterInv
  <2> QED
    BY <1>5, <2>1, <2>2, ReservedStays DEF AskRead, Enters, outsideVars, sequenceVars
<1>6. ASSUME NEW r \in Requests, ReadDevices(r) PROVE ReservedInv'
  <2> DEFINE x == [work[r] EXCEPT !.phase = "devices",
                                  !.devices = {d \in active : OwnerOf[d] \in work[r].members}]
  <2>1. x \in WorkRecords /\ x.phase = "devices" /\ x.op = work[r].op /\ x.seq = work[r].seq
    BY DevicesTyped
  <2>2. Becomes(r, x) /\ (work[r].op = "read" => work[r].seq <= counter)
    BY <1>6 DEF ReadDevices, CounterInv
  <2> HIDE DEF x
  <2> QED
    BY <1>6, <2>1, <2>2, BecomesKeeps, ReservedStays DEF ReadDevices, outsideVars, sequenceVars
<1>7. ASSUME NEW r \in Requests, Bootstrap(r) PROVE ReservedInv'
  BY <1>7, NoWorkTyped, BecomesKeeps, ReservedStays DEF Bootstrap, outsideVars, sequenceVars, NoWork
<1>8. ASSUME NEW r \in Requests, CheckVersion(r) PROVE ReservedInv'
  <2>1. /\ work'[r].phase # "reserved" /\ work'[r].op # "read"
        /\ \A q \in Requests \ {r} : work'[q] = work[q]
    BY <1>8 DEF CheckVersion, Becomes, ConversationTypeOK, WorkRecords, NoWork
  <2> QED
    BY <1>8, <2>1, ReservedStays DEF CheckVersion, outsideVars, sequenceVars
<1>9. ASSUME NEW r \in Requests, ReserveSequence(r) PROVE ReservedInv'
  <2>1. /\ work'[r] = [work[r] EXCEPT !.phase = "reserved", !.seq = counter + 1]
        /\ \A q \in Requests \ {r} : work'[q] = work[q]
    BY <1>9 DEF ReserveSequence, Becomes, ConversationTypeOK
  <2>2. /\ work'[r].phase = "reserved" /\ work'[r].op = "send" /\ work'[r].seq = counter + 1
        /\ work'[r].msg = work[r].msg /\ work'[r].devices = work[r].devices
    BY <1>9, <2>1 DEF ReserveSequence, Stands, ConversationTypeOK, WorkRecords
  <2>3. \A q \in Requests : work[q].phase # "reserved"
    BY <1>9, ConversationAssumption DEF ReserveSequence, HolderInv
  <2>4. HolderInv' /\ RecipientsInv'
    BY <1>9, <2>1, <2>2, <2>3 DEF ReserveSequence, RecipientsFound, HolderInv, RecipientsInv, outsideVars
  <2>5. CounterInv'
    BY <1>9, <2>1, <2>2, <2>3 DEF ReserveSequence, CounterInv, sequenceVars, Stored
  <2> QED
    BY <2>4, <2>5
<1>10. ASSUME NEW r \in Requests, StoreMessage(r) PROVE ReservedInv'
  <2>1. /\ work'[r] = NoWork /\ \A q \in Requests \ {r} : work'[q] = work[q]
    BY <1>10, NoWorkTyped, BecomesKeeps DEF StoreMessage
  <2>2. \A q \in Requests \ {r} : work[q].phase # "reserved"
    BY <1>10 DEF StoreMessage, Stands, HolderInv
  <2>3. counter \in Nat /\ counter' = counter + 1 /\ work[r].kind # "none"
    BY <1>10 DEF StoreMessage, Stands, CounterInv, SendInv, ConversationTypeOK
  <2>4. \A m \in Messages : msg'[m] = msg[m] \/ (msg'[m].seq = counter + 1 /\ msg'[m].kind # "none")
    BY <1>10, <2>3 DEF StoreMessage, Stands, CounterInv, ConversationTypeOK
  <2>5. /\ \A m \in Messages : msg[m].seq \in Nat
        /\ \A u \in Participants : read[u].seq \in Nat
        /\ \A q \in Requests : work[q].seq \in Nat
    BY DEF ConversationTypeOK, MessageRecords, WorkRecords
  <2>6. HolderInv' /\ RecipientsInv'
    BY <2>1, <2>2 DEF HolderInv, RecipientsInv, NoWork
  <2>7. CounterInv'
    BY <1>10, <2>1, <2>2, <2>3, <2>4, <2>5 DEF StoreMessage, CounterInv, NoWork
  <2> QED
    BY <2>6, <2>7
<1>11. ASSUME NEW r \in Requests, MarkRead(r) PROVE ReservedInv'
  <2>1. work'[r] = NoWork /\ \A q \in Requests \ {r} : work'[q] = work[q]
    BY <1>11, NoWorkTyped, BecomesKeeps DEF MarkRead
  <2>2. work[r].seq <= counter
    BY <1>11 DEF MarkRead, Stands, CounterInv
  <2>3. \A u \in Participants : read'[u] = read[u] \/ read'[u].seq = work[r].seq
    BY <1>11 DEF MarkRead, ConversationTypeOK
  <2> QED
    BY <1>11, <2>1, <2>2, <2>3
       DEF MarkRead, NoWork, HolderInv, RecipientsInv, CounterInv, outsideVars, Stored
<1>12. ASSUME NEW r \in Requests, GiveUp(r) PROVE ReservedInv'
  BY <1>12, NoWorkTyped, BecomesKeeps, ReservedStays DEF GiveUp, outsideVars, sequenceVars, NoWork
<1>13. ASSUME NEW n \in BatchSizes, Backfill(n) PROVE ReservedInv'
  <2>1. PICK B \in SUBSET Unassigned :
           /\ counter' = Highest + Cardinality(B)
           /\ msg' = [m \in Messages |->
                        IF m \in B THEN [msg[m] EXCEPT !.seq = Highest + Rank(m, B)] ELSE msg[m]]
           /\ read' = IF B = Unassigned THEN [u \in Participants |-> Repaired(u)] ELSE read
           /\ UNCHANGED <<outsideVars, rosterVars, holder, work, serving>>
    BY <1>13 DEF Backfill
  <2>2. B \in SUBSET Messages /\ Highest = counter /\ Cardinality(B) \in Nat /\ counter \in Nat
    BY HighestTyped, BatchTyped DEF Unassigned, Stored, CounterInv, ConversationTypeOK
  <2>3. \A q \in Requests : work'[q] = work[q] /\ work[q].phase # "reserved" /\ work[q].seq \in Nat
    BY <1>13, <2>1, ConversationAssumption DEF Backfill, HolderInv, ConversationTypeOK, WorkRecords
  <2>4. \A m \in Messages : /\ msg[m].seq \in Nat /\ msg[m].seq <= counter /\ msg'[m].kind = msg[m].kind
                            /\ m \notin B => msg'[m].seq = msg[m].seq
                            /\ m \in B => msg[m].kind # "none" /\ msg'[m].seq = counter + Rank(m, B)
    BY <2>1, <2>2 DEF CounterInv, ConversationTypeOK, MessageRecords, Unassigned, Stored
  <2>5. \A m \in Messages : msg'[m].seq <= counter'
    BY <2>1, <2>2, <2>4, Ranks
  <2>6. \A u \in Participants : read'[u].seq <= counter'
    <3> SUFFICES ASSUME NEW u \in Participants PROVE read'[u].seq <= counter'
      OBVIOUS
    <3>1. CASE B = Unassigned
      <4>1. read'[u] = Repaired(u)
        BY <2>1, <3>1
      <4> QED
        BY <2>1, <2>2, <2>5, <4>1 DEF Repaired, Unread, IsContent, Stored
    <3>2. CASE B # Unassigned
      BY <2>1, <2>2, <3>2 DEF CounterInv, ConversationTypeOK
    <3> QED
      BY <3>1, <3>2
  <2> QED
    BY <2>1, <2>2, <2>3, <2>4, <2>5, <2>6 DEF HolderInv, RecipientsInv, CounterInv
<1>14. ASSUME Serve PROVE ReservedInv'
  BY <1>14 DEF Serve, outsideVars, sequenceVars, HolderInv, RecipientsInv, CounterInv, Stored
<1>15. ASSUME Stop PROVE ReservedInv'
  <2>1. \A r \in Requests : work'[r].op = "none" /\ work'[r].phase = "none"
    BY <1>15 DEF Stop, NoWork
  <2> QED
    BY <1>15, <2>1 DEF Stop, sequenceVars, HolderInv, RecipientsInv, CounterInv, Stored
<1>16. ASSUME UNCHANGED conversationVars PROVE ReservedInv'
  BY <1>16 DEF conversationVars, outsideVars, sequenceVars, HolderInv, RecipientsInv, CounterInv, Stored
<1> QED
  BY <1>1, <1>2, <1>3, <1>4, <1>5, <1>6, <1>7, <1>8, <1>9, <1>10, <1>11, <1>12, <1>13, <1>14, <1>15, <1>16
     DEF ConversationNext, RequestNext

-----------------------------------------------------------------------------
(* The order of the messages.                                              *)
FoundInv(r) == work[r].op = "read" => /\ IsContent(work[r].msg) /\ work[r].seq > 0
                                      /\ work[r].seq = msg[work[r].msg].seq
OldInOrder == \A m, n \in Stored \cap Old : m < n /\ msg[n].seq > 0
                 => msg[m].seq > 0 /\ msg[m].seq < msg[n].seq
ServingInv == serving => Ready

LEMMA OrderStart == ConversationInit => OrderInv /\ ServingInv
<1> SUFFICES ASSUME ConversationInit PROVE OrderInv /\ ServingInv
  OBVIOUS
<1>1. \A m \in Messages : msg[m].seq = 0
  BY DEF ConversationInit, NotStored
<1>2. serving = FALSE /\ \A r \in Requests : work[r].op = "none"
  BY DEF ConversationInit, NoWork
<1> QED
  BY <1>1, <1>2 DEF OrderInv, ServingInv, Stored

(* A request that changes neither the numbers nor the positions.           *)
LEMMA OrderStays ==
    ASSUME OrderInv, ServingInv, NEW r \in Requests, UNCHANGED <<sequenceVars, serving>>,
           \A q \in Requests \ {r} : work'[q] = work[q], FoundInv(r)'
    PROVE  OrderInv' /\ ServingInv'
<1>1. UNCHANGED <<counter, msg, read, serving>>
  BY DEF sequenceVars
<1>2. Stored' = Stored /\ OldInOrder /\ \A q \in Requests : FoundInv(q)
  BY <1>1 DEF OrderInv, Stored, OldInOrder, FoundInv
<1>3. \A q \in Requests \ {r} : FoundInv(q)'
  BY <1>1, <1>2 DEF FoundInv, IsContent
<1>4. OldInOrder'
  BY <1>1, <1>2 DEF OldInOrder
<1>5. Ready' = Ready
  BY <1>1, <1>2 DEF Ready, Unassigned, Numbers, PositionsMatch, IsContent
<1> QED
  BY <1>1, <1>3, <1>4, <1>5 DEF OrderInv, ServingInv, FoundInv, OldInOrder

LEMMA OrderKept ==
    ASSUME ConversationTypeOK, SendInv, ReservedInv, OrderInv, ServingInv,
           [ConversationNext]_conversationVars
    PROVE  OrderInv' /\ ServingInv'
<1> DEFINE Goal == OrderInv' /\ ServingInv'
<1>1. ASSUME UNCHANGED <<sequenceVars, serving, work>> PROVE Goal
  <2>1. UNCHANGED <<counter, msg, read, serving, work>>
    BY <1>1 DEF sequenceVars
  <2>2. Stored' = Stored
    BY <2>1 DEF Stored
  <2>3. Ready' = Ready
    BY <2>1, <2>2 DEF Ready, Unassigned, Numbers, PositionsMatch, IsContent
  <2> QED
    BY <2>1, <2>2, <2>3 DEF OrderInv, ServingInv, IsContent
<1>2. ASSUME NEW u \in Participants, MembershipChanges(u) PROVE Goal
  BY <1>1, <1>2 DEF MembershipChanges
<1>3. ASSUME NEW d \in Clients, DeviceActivated(d) \/ DeviceRevoked(d) PROVE Goal
  BY <1>1, <1>3 DEF DeviceActivated, DeviceRevoked
<1>4. ASSUME NEW r \in Requests, NEW u \in Participants, AskBootstrap(r, u) PROVE Goal
  <2>1. work'[r].op = "bootstrap" /\ \A q \in Requests \ {r} : work'[q] = work[q]
    BY <1>4 DEF AskBootstrap, Enters, Becomes, NoWork, ConversationTypeOK
  <2> QED
    BY <1>4, <2>1, OrderStays DEF AskBootstrap, Enters, FoundInv
<1>5. ASSUME NEW r \in Requests, NEW u \in Participants, NEW m \in Messages, NEW k \in MessageKinds, NEW v \in told,
             AskSend(r, u, m, k, v)
      PROVE  Goal
  <2>1. work'[r].op = "send" /\ \A q \in Requests \ {r} : work'[q] = work[q]
    BY <1>5 DEF AskSend, Enters, Becomes, NoWork, ConversationTypeOK
  <2> QED
    BY <1>5, <2>1, OrderStays DEF AskSend, Enters, FoundInv
<1>6. ASSUME NEW r \in Requests, NEW u \in Participants, NEW m \in Messages, AskRead(r, u, m) PROVE Goal
  <2>1. work'[r].msg = m /\ work'[r].seq = msg[m].seq /\ \A q \in Requests \ {r} : work'[q] = work[q]
    BY <1>6 DEF AskRead, Enters, Becomes, NoWork, ConversationTypeOK
  <2>2. FoundInv(r)'
    BY <1>6, <2>1 DEF AskRead, Enters, sequenceVars, FoundInv, IsContent, Stored
  <2> QED
    BY <1>6, <2>1, <2>2, OrderStays DEF AskRead, Enters
<1>7. ASSUME NEW r \in Requests, ReadDevices(r) PROVE Goal
  <2> DEFINE x == [work[r] EXCEPT !.phase = "devices",
                                  !.devices = {d \in active : OwnerOf[d] \in work[r].members}]
  <2>1. x \in WorkRecords /\ x.op = work[r].op /\ x.msg = work[r].msg /\ x.seq = work[r].seq
    BY DevicesTyped
  <2>2. Becomes(r, x)
    BY <1>7 DEF ReadDevices
  <2> HIDE DEF x
  <2>3. work'[r] = x /\ \A q \in Requests \ {r} : work'[q] = work[q]
    BY <2>1, <2>2, BecomesKeeps
  <2>4. FoundInv(r)'
    BY <1>7, <2>1, <2>3 DEF ReadDevices, OrderInv, sequenceVars, FoundInv, IsContent, Stored
  <2> QED
    BY <1>7, <2>3, <2>4, OrderStays DEF ReadDevices
<1>8. ASSUME NEW r \in Requests, Bootstrap(r) \/ GiveUp(r) PROVE Goal
  <2>1. work'[r] = NoWork /\ \A q \in Requests \ {r} : work'[q] = work[q]
    BY <1>8, NoWorkTyped, BecomesKeeps DEF Bootstrap, GiveUp
  <2> QED
    BY <1>8, <2>1, OrderStays DEF Bootstrap, GiveUp, FoundInv, NoWork
<1>9. ASSUME NEW r \in Requests, CheckVersion(r) PROVE Goal
  <2>1. work'[r].op # "read" /\ \A q \in Requests \ {r} : work'[q] = work[q]
    BY <1>9 DEF CheckVersion, Becomes, ConversationTypeOK, WorkRecords, NoWork
  <2> QED
    BY <1>9, <2>1, OrderStays DEF CheckVersion, FoundInv
<1>10. ASSUME NEW r \in Requests, ReserveSequence(r) PROVE Goal
  <2>1. work'[r].op = "send" /\ \A q \in Requests \ {r} : work'[q] = work[q]
    BY <1>10 DEF ReserveSequence, Stands, Becomes, ConversationTypeOK, WorkRecords
  <2> QED
    BY <1>10, <2>1, OrderStays DEF ReserveSequence, FoundInv
<1>11. ASSUME NEW r \in Requests, StoreMessage(r) PROVE Goal
  <2> DEFINE s == work[r].msg
  <2>1. /\ s \in Messages \ Old /\ s \notin Stored /\ work[r].kind # "none"
        /\ counter \in Nat /\ work[r].seq = counter + 1 /\ counter' = counter + 1
        /\ UNCHANGED <<read, serving>>
    BY <1>11 DEF StoreMessage, Stands, ReservedInv, CounterInv, SendInv, ConversationTypeOK
  <2>2. /\ msg'[s].seq = counter + 1 /\ msg'[s].kind # "none"
        /\ \A m \in Messages \ {s} : msg'[m] = msg[m]
    BY <1>11, <2>1 DEF StoreMessage, ConversationTypeOK
  <2>3. work'[r] = NoWork /\ \A q \in Requests \ {r} : work'[q] = work[q]
    BY <1>11, NoWorkTyped, BecomesKeeps DEF StoreMessage
  <2> HIDE DEF s
  <2>4. Stored' = Stored \cup {s} /\ Stored' \cap Old = Stored \cap Old
    BY <2>1, <2>2 DEF Stored
  <2>5. \A m \in Stored : m # s /\ m \in Messages /\ msg'[m] = msg[m]
    BY <2>1, <2>2 DEF Stored
  <2>6. \A m : IsContent(m) => IsContent(m)'
    BY <2>4, <2>5 DEF IsContent
  <2>7. OrderInv'
    BY <2>3, <2>4, <2>5, <2>6 DEF OrderInv, IsContent, NoWork
  <2>8. ASSUME serving PROVE Ready'
    <3>1. Ready
      BY <2>8 DEF ServingInv
    <3>2. Unassigned' = {}
      BY <2>1, <2>2, <2>4, <2>5, <3>1 DEF Ready, Unassigned
    <3>3. \A n \in Numbers' : n <= counter'
      <4>1. \A m \in Stored : msg[m].seq \in Nat /\ msg[m].seq <= counter
        BY DEF Stored, ConversationTypeOK, MessageRecords, ReservedInv, CounterInv
      <4> QED
        BY <2>1, <2>2, <2>4, <2>5, <4>1 DEF Numbers
    <3>4. PositionsMatch'
      BY <2>1, <2>5, <2>6, <3>1 DEF Ready, PositionsMatch, IsContent
    <3> QED
      BY <3>2, <3>3, <3>4 DEF Ready
  <2> QED
    BY <2>1, <2>7, <2>8 DEF ServingInv
<1>12. ASSUME NEW r \in Requests, MarkRead(r) PROVE Goal
  <2>1. UNCHANGED <<counter, msg, serving>> /\ Stored' = Stored
    BY <1>12 DEF MarkRead, Stored
  <2>2. work'[r] = NoWork /\ \A q \in Requests \ {r} : work'[q] = work[q]
    BY <1>12, NoWorkTyped, BecomesKeeps DEF MarkRead
  <2>3. IsContent(work[r].msg) /\ work[r].seq > 0 /\ work[r].seq = msg[work[r].msg].seq
    BY <1>12 DEF MarkRead, Stands, OrderInv
  <2>4. \A u \in Participants : read'[u] = read[u] \/ read'[u] = [msg |-> work[r].msg, seq |-> work[r].seq]
    BY <1>12 DEF MarkRead, ConversationTypeOK
  <2>5. OrderInv'
    BY <2>1, <2>2 DEF OrderInv, IsContent, NoWork
  <2>6. PositionsMatch => PositionsMatch'
    <3> SUFFICES ASSUME PositionsMatch, NEW u \in Participants, read'[u] # Unread
                 PROVE  /\ IsContent(read'[u].msg) /\ msg[read'[u].msg].seq > 0
                        /\ read'[u].seq = msg[read'[u].msg].seq
      BY <2>1 DEF PositionsMatch, IsContent
    <3>1. CASE read'[u] = read[u]
      BY <3>1 DEF PositionsMatch
    <3>2. CASE read'[u] = [msg |-> work[r].msg, seq |-> work[r].seq]
      BY <2>3, <3>2
    <3> QED
      BY <2>4, <3>1, <3>2
  <2> QED
    BY <2>1, <2>5, <2>6 DEF ServingInv, Ready, Unassigned, Numbers
<1>13. ASSUME NEW n \in BatchSizes, Backfill(n) PROVE Goal
  <2>1. PICK B \in SUBSET Unassigned :
           /\ Oldest(B)
           /\ msg' = [m \in Messages |->
                        IF m \in B THEN [msg[m] EXCEPT !.seq = Highest + Rank(m, B)] ELSE msg[m]]
           /\ UNCHANGED <<work, serving>>
    BY <1>13 DEF Backfill
  <2>2. B \in SUBSET Messages /\ Highest = counter /\ counter \in Nat
    BY HighestTyped DEF Unassigned, Stored, ReservedInv, CounterInv, ConversationTypeOK
  <2>3. \A m \in Messages : /\ msg[m].seq \in Nat /\ msg[m].seq <= counter /\ msg'[m].kind = msg[m].kind
                            /\ m \notin B => msg'[m].seq = msg[m].seq
                            /\ m \in B => msg[m].seq = 0 /\ msg'[m].seq = counter + Rank(m, B)
    BY <2>1, <2>2 DEF ReservedInv, CounterInv, ConversationTypeOK, MessageRecords, Unassigned
  <2>4. Stored' = Stored /\ \A m : IsContent(m)' = IsContent(m)
    BY <2>3 DEF Stored, IsContent
  <2>5. \A r \in Requests : FoundInv(r)'
    <3> SUFFICES ASSUME NEW r \in Requests, work[r].op = "read"
                 PROVE  /\ IsContent(work[r].msg) /\ work[r].seq > 0
                        /\ work[r].seq = msg'[work[r].msg].seq
      BY <2>1, <2>4 DEF FoundInv
    <3>1. IsContent(work[r].msg) /\ work[r].seq > 0 /\ work[r].seq = msg[work[r].msg].seq
      BY DEF OrderInv
    <3> QED
      BY <2>3, <3>1 DEF IsContent, Stored
  <2>6. ASSUME NEW a \in Stored \cap Old, NEW b \in Stored \cap Old, a < b, msg'[b].seq > 0
        PROVE  msg'[a].seq > 0 /\ msg'[a].seq < msg'[b].seq
    <3>1. a \in Messages /\ b \in Messages /\ a \in Nat /\ b \in Nat
      BY ConversationAssumption DEF Stored
    <3>2. CASE b \in B
      <4>1. Rank(b, B) \in Nat /\ 0 < Rank(b, B)
        BY <2>2, <3>2, Ranks
      <4>2. CASE a \in B
        <5>1. Rank(a, B) \in Nat /\ 0 < Rank(a, B) /\ Rank(a, B) < Rank(b, B)
          BY <2>2, <2>6, <3>2, <4>2, Ranks
        <5> QED
          BY <2>2, <2>3, <3>1, <3>2, <4>1, <4>2, <5>1
      <4>3. CASE a \notin B
        <5>1. a \notin Unassigned
          BY <2>1, <2>6, <3>1, <3>2, <4>3 DEF Oldest
        <5>2. msg[a].seq > 0
          BY <2>3, <3>1, <5>1 DEF Unassigned
        <5> QED
          BY <2>2, <2>3, <3>1, <3>2, <4>1, <4>3, <5>2
      <4> QED
        BY <4>2, <4>3
    <3>3. CASE b \notin B
      <4>1. msg[b].seq > 0 /\ msg'[b].seq = msg[b].seq
        BY <2>3, <2>6, <3>1, <3>3
      <4>2. msg[a].seq > 0 /\ msg[a].seq < msg[b].seq
        BY <2>6, <4>1 DEF OrderInv
      <4> QED
        BY <2>3, <3>1, <4>1, <4>2
    <3> QED
      BY <3>2, <3>3
  <2>7. OrderInv'
    BY <2>4, <2>5, <2>6 DEF OrderInv, FoundInv
  <2>8. ~serving
    BY <1>13 DEF Backfill, ServingInv
  <2> QED
    BY <2>1, <2>7, <2>8 DEF ServingInv
<1>14. ASSUME Serve PROVE Goal
  <2>1. UNCHANGED <<counter, msg, read, work>> /\ Ready
    BY <1>14 DEF Serve, sequenceVars
  <2>2. Stored' = Stored
    BY <2>1 DEF Stored
  <2>3. Ready'
    BY <2>1, <2>2 DEF Ready, Unassigned, Numbers, PositionsMatch, IsContent
  <2> QED
    BY <2>1, <2>2, <2>3 DEF OrderInv, ServingInv, IsContent
<1>15. ASSUME Stop PROVE Goal
  <2>1. msg' = msg /\ serving' = FALSE /\ \A r \in Requests : work'[r].op = "none"
    BY <1>15 DEF Stop, sequenceVars, NoWork
  <2>2. Stored' = Stored
    BY <2>1 DEF Stored
  <2> QED
    BY <2>1, <2>2 DEF OrderInv, ServingInv
<1>16. ASSUME UNCHANGED conversationVars PROVE Goal
  BY <1>1, <1>16 DEF conversationVars
<1> QED
  BY <1>2, <1>3, <1>4, <1>5, <1>6, <1>7, <1>8, <1>9, <1>10, <1>11, <1>12, <1>13, <1>14, <1>15, <1>16
     DEF ConversationNext, RequestNext

-----------------------------------------------------------------------------
ConversationInv ==
    ConversationTypeOK /\ SendInv /\ RosterInv /\ ReservedInv /\ OrderInv /\ ServingInv

LEMMA ConversationInvHolds == ConversationSpec => []ConversationInv
<1>1. ConversationInit => ConversationInv
  BY TypesStart, RosterStart, ReservedStart, OrderStart DEF ConversationInv
<1>2. ConversationInv /\ [ConversationNext]_conversationVars => ConversationInv'
  BY TypesKept, RosterKept, ReservedKept, OrderKept DEF ConversationInv, ReservedInv, CounterInv
<1> QED
  BY <1>1, <1>2, PTL DEF ConversationSpec

(* Every variable of the encrypted lane keeps its type.                    *)
THEOREM ConversationTypes == ConversationSpec => []ConversationTypeOK
<1>1. ConversationInv => ConversationTypeOK
  BY DEF ConversationInv
<1> QED
  BY <1>1, ConversationInvHolds, PTL

(* SyncEncryptedGroupControlPlane: however requests that have read the     *)
(* members and devices at different times overtake each other, a version   *)
(* of the roster names one set of devices.                                 *)
THEOREM OneRosterPerVersion == ConversationSpec => []VersionFixesRoster
<1>1. ConversationInv => VersionFixesRoster
  BY DEF ConversationInv, RosterInv, Known, VersionFixesRoster
<1> QED
  BY <1>1, ConversationInvHolds, PTL

(* CreateEncryptedGroupMessage: the look at the unread count of every      *)
(* recipient, under the lock of the row of the group, keeps deliveries     *)
(* away from those who have left since the roster was read.                *)
THEOREM FormerMembersUnaddressed == ConversationSpec => OnlyMembersAddressed
<1> DEFINE Addressed ==
      msg' # msg => \A m \in Messages \ Stored :
          msg'[m].kind # "none" => Owners(msg'[m].to) \subseteq members
<1>1. ASSUME ConversationInv, [ConversationNext]_conversationVars PROVE [Addressed]_conversationVars
  <2>1. ASSUME NEW r \in Requests, StoreMessage(r) PROVE Addressed
    <3>1. Owners(work[r].devices) \subseteq members
      BY <1>1, <2>1 DEF StoreMessage, Stands, ConversationInv, ReservedInv, RecipientsInv
    <3>2. \A m \in Messages : msg'[m] = msg[m] \/ msg'[m].to = work[r].devices
      BY <1>1, <2>1 DEF StoreMessage, ConversationInv, ConversationTypeOK
    <3> QED
      BY <3>1, <3>2 DEF Stored
  <2>2. ASSUME NEW n \in BatchSizes, Backfill(n) PROVE Addressed
    <3>1. PICK B \in SUBSET Unassigned :
             msg' = [m \in Messages |->
                       IF m \in B THEN [msg[m] EXCEPT !.seq = Highest + Rank(m, B)] ELSE msg[m]]
      BY <2>2 DEF Backfill
    <3>2. \A m \in Messages \ Stored : msg'[m] = msg[m]
      BY <3>1 DEF Unassigned
    <3> QED
      BY <3>2 DEF Stored
  <2>3. ASSUME NEW r \in Requests, RequestNext(r), ~StoreMessage(r) PROVE msg' = msg
    BY <2>3 DEF RequestNext, AskBootstrap, AskSend, AskRead, Enters, ReadDevices, Bootstrap,
                CheckVersion, ReserveSequence, MarkRead, GiveUp, sequenceVars
  <2>4. ASSUME \/ \E u \in Participants : MembershipChanges(u)
               \/ \E d \in Clients : DeviceActivated(d) \/ DeviceRevoked(d)
               \/ Serve \/ Stop \/ UNCHANGED conversationVars
        PROVE  msg' = msg
    BY <2>4 DEF MembershipChanges, DeviceActivated, DeviceRevoked, Serve, Stop, conversationVars, sequenceVars
  <2> QED
    BY <1>1, <2>1, <2>2, <2>3, <2>4 DEF ConversationNext
<1> QED
  BY <1>1, ConversationInvHolds, PTL DEF ConversationSpec, OnlyMembersAddressed

(* ReserveGroupEncryptedServerSequence: the row of the group stays locked  *)
(* from the reservation of a number to the commit, so that messages become *)
(* visible in the order of their numbers; a batch of the migration goes on *)
(* after the greatest number.                                              *)
THEOREM VisibleInOrder == ConversationSpec => AppendsOnly
<1> DEFINE Appended ==
      msg' # msg => \A m \in Messages : msg'[m].seq # msg[m].seq =>
          /\ msg[m].seq = 0
          /\ \A n \in Numbers : n < msg'[m].seq
          /\ \A u \in Participants : read[u].seq < msg'[m].seq
<1>1. ASSUME ConversationInv, [ConversationNext]_conversationVars PROVE [Appended]_conversationVars
  <2>0. /\ counter \in Nat /\ \A n \in Numbers : n \in Nat /\ n <= counter
        /\ \A u \in Participants : read[u].seq \in Nat /\ read[u].seq <= counter
    BY <1>1 DEF ConversationInv, ConversationTypeOK, MessageRecords, Numbers, Stored, ReservedInv, CounterInv
  <2>1. ASSUME NEW r \in Requests, StoreMessage(r) PROVE Appended
    <3>1. work[r].seq = counter + 1 /\ work[r].msg \notin Stored
      BY <1>1, <2>1 DEF StoreMessage, Stands, ConversationInv, ReservedInv, CounterInv
    <3>2. \A m \in Messages : msg'[m] = msg[m] \/ (m = work[r].msg /\ msg'[m].seq = work[r].seq)
      BY <1>1, <2>1 DEF StoreMessage, ConversationInv, ConversationTypeOK
    <3>3. \A m \in Messages : m \notin Stored => msg[m].seq = 0
      BY <1>1 DEF ConversationInv, ReservedInv, CounterInv, Stored
    <3> QED
      BY <2>0, <3>1, <3>2, <3>3
  <2>2. ASSUME NEW n \in BatchSizes, Backfill(n) PROVE Appended
    <3>1. PICK B \in SUBSET Unassigned :
             msg' = [m \in Messages |->
                       IF m \in B THEN [msg[m] EXCEPT !.seq = Highest + Rank(m, B)] ELSE msg[m]]
      BY <2>2 DEF Backfill
    <3>2. B \in SUBSET Messages /\ Highest = counter
      BY <1>1, HighestTyped DEF Unassigned, Stored, ConversationInv, ReservedInv, CounterInv
    <3> SUFFICES ASSUME NEW m \in Messages, msg'[m].seq # msg[m].seq
                 PROVE  /\ msg[m].seq = 0
                        /\ \A k \in Numbers : k < msg'[m].seq
                        /\ \A u \in Participants : read[u].seq < msg'[m].seq
      OBVIOUS
    <3>3. m \in B
      BY <3>1
    <3>4. msg[m].seq = 0 /\ msg[m] \in MessageRecords
      BY <1>1, <3>3 DEF Unassigned, ConversationInv, ConversationTypeOK
    <3>5. msg'[m].seq = counter + Rank(m, B)
      BY <3>1, <3>2, <3>3, <3>4 DEF MessageRecords
    <3>6. Rank(m, B) \in Nat /\ 0 < Rank(m, B)
      BY <3>2, <3>3, Ranks
    <3> QED
      BY <2>0, <3>4, <3>5, <3>6
  <2>3. ASSUME NEW r \in Requests, RequestNext(r), ~StoreMessage(r) PROVE msg' = msg
    BY <2>3 DEF RequestNext, AskBootstrap, AskSend, AskRead, Enters, ReadDevices, Bootstrap,
                CheckVersion, ReserveSequence, MarkRead, GiveUp, sequenceVars
  <2>4. ASSUME \/ \E u \in Participants : MembershipChanges(u)
               \/ \E d \in Clients : DeviceActivated(d) \/ DeviceRevoked(d)
               \/ Serve \/ Stop \/ UNCHANGED conversationVars
        PROVE  msg' = msg
    BY <2>4 DEF MembershipChanges, DeviceActivated, DeviceRevoked, Serve, Stop, conversationVars, sequenceVars
  <2> QED
    BY <1>1, <2>1, <2>2, <2>3, <2>4 DEF ConversationNext
<1> QED
  BY <1>1, ConversationInvHolds, PTL DEF ConversationSpec, AppendsOnly

(* EncryptedSequencesReady guards the start of the service: what is served *)
(* has all its numbers, and old messages have theirs in the order of their *)
(* times, whatever batches were interrupted or run by several operators.   *)
THEOREM OrderServed == ConversationSpec => []ServedInOrder
<1>1. ASSUME ConversationInv PROVE ServedInOrder
  <2> SUFFICES ASSUME serving
               PROVE  Ready /\ \A m, n \in Stored \cap Old : m < n => msg[m].seq < msg[n].seq
    BY DEF ServedInOrder
  <2>1. Ready
    BY <1>1 DEF ConversationInv, ServingInv
  <2>2. \A n \in Stored : msg[n].seq > 0
    BY <1>1, <2>1 DEF Ready, Unassigned, Stored, ConversationInv, ConversationTypeOK, MessageRecords
  <2> QED
    BY <1>1, <2>1, <2>2 DEF ConversationInv, OrderInv
<1> QED
  BY <1>1, ConversationInvHolds, PTL
=============================================================================

--------------------------- MODULE IdentityProofs ---------------------------
(***************************************************************************)
(* Proofs about the identity service and the limiter in front of it:       *)
(* CryptoDevices for any number of devices, intents and requests;          *)
(* SocialGraph for any number of people and of requests under way;         *)
(* AdmissionLimiter for any number of names, addresses and requests.       *)
(***************************************************************************)
EXTENDS CryptoDevices, SocialGraph, AdmissionLimiter, FiniteSetTheorems, TLAPS

-----------------------------------------------------------------------------
(* Crypto devices.  CryptoInv adds to the properties what a request that   *)
(* is under way may rely on although nothing it has read is locked.        *)

CallRecords == [op: CallOps, device: Devices \cup {NoDevice}, intent: Intents \cup {NoIntent},
                approver: Devices \cup {NoDevice}, version: Nat, proof: Proofs,
                expiring: SUBSET Intents]

(* A request that registers the first device has the row of the user and   *)
(* an empty registry; one that links has an approver that was activated;   *)
(* one that publishes a proof knows the version the proof is over, and     *)
(* after its statements nobody else can add a version.                     *)
CallOK(r) ==
    LET c == call[r] IN
    /\ c.op \notin {"idle", "first", "register"} => c.device \in Devices /\ device[c.device] # "absent"
    /\ c.op = "first" => ownerLock = r /\ EmptyRegistry
    /\ c.op = "register" => ~EmptyRegistry
    /\ c.op = "approve" => /\ c.intent \in Intents
                           /\ c.approver \in Devices \ {c.device} /\ Activated(c.approver)
    /\ c.op \in {"publish", "checked", "written"} /\ c.proof # NoProof
          => device[c.device] \in {"active", "revoked"}
    /\ c.op \in {"checked", "written"} /\ c.proof # NoProof => c.proof.over = c.version
    /\ c.op = "written" => deviceLock[c.device] = r /\ c.version = Version(c.device)
    /\ \A i \in c.expiring : intent[i].status # "absent"

DevicesOK == \A d \in Devices : /\ device[d] \in {"absent", "pending_link"} => ~Activated(d)
                                /\ device[d] = "active" => Activated(d)
IntentsOK == \A i \in Intents : intent[i].status # "absent" => intent[i].device \in Devices
BundlesOK == \A d \in Devices : \A n \in 1..Version(d) :
    bundles[d][n].proof # NoProof => bundles[d][n].proof.over = n - 1

CryptoInv == /\ CryptoTypeOK
             /\ \A r \in Handlers : CallOK(r)
             /\ DevicesOK /\ IntentsOK /\ BundlesOK
             /\ TrustRooted /\ NoPublishLost

-----------------------------------------------------------------------------
(* A request starts.                                                       *)
LEMMA StartKeeps ==
    ASSUME CryptoTypeOK, NEW r \in Handlers, NEW c \in CallRecords, Start(r, c)
    PROVE  /\ call' \in [Handlers -> CallRecords]
           /\ call'[r] = c
           /\ \A q \in Handlers \ {r} : call'[q] = call[q]
BY DEF Start, CryptoTypeOK, CallRecords

(* The end of a request frees what it held and nothing else.               *)
LEMMA EndKeeps ==
    ASSUME CryptoTypeOK, NEW r \in Handlers, End(r)
    PROVE  /\ call' \in [Handlers -> CallRecords]
           /\ ownerLock' \in Handlers \cup {NoHandler}
           /\ deviceLock' \in [Devices -> Handlers \cup {NoHandler}]
           /\ call'[r] = NoCall
           /\ \A q \in Handlers \ {r} : /\ call'[q] = call[q]
                                        /\ ownerLock = q => ownerLock' = q
                                        /\ \A d \in Devices : deviceLock[d] = q => deviceLock'[d] = q
<1>1. NoCall \in CallRecords
  BY DEF NoCall, CallRecords, CallOps, Proofs, NoProof
<1>2. call \in [Handlers -> CallRecords]
  BY DEF CryptoTypeOK, CallRecords
<1>3. /\ call' \in [Handlers -> CallRecords]
      /\ call'[r] = NoCall
      /\ \A q \in Handlers \ {r} : call'[q] = call[q]
  BY <1>1, <1>2 DEF End
<1>4. /\ ownerLock' \in Handlers \cup {NoHandler}
      /\ deviceLock' \in [Devices -> Handlers \cup {NoHandler}]
  BY DEF End, CryptoTypeOK
<1>5. \A q \in Handlers \ {r} : /\ ownerLock = q => ownerLock' = q
                                /\ \A d \in Devices : deviceLock[d] = q => deviceLock'[d] = q
  BY DEF End
<1> QED
  BY <1>3, <1>4, <1>5

(* What the registry never takes back.                                     *)
Grows ==
    /\ \A d \in Devices : /\ device[d] # "absent" => device'[d] # "absent"
                          /\ device[d] \in {"active", "revoked"} => device'[d] \in {"active", "revoked"}
                          /\ Activated(d) => activatedBy'[d] # NoDevice
    /\ \A i \in Intents : intent[i].status # "absent" => intent'[i].status # "absent"

(* A request does not notice the steps of others, as long as nobody        *)
(* registers a device while it registers the first, and nobody publishes   *)
(* for the device whose rows it has written.                               *)
LEMMA CallKept ==
    ASSUME CryptoTypeOK, NEW q \in Handlers, CallOK(q), call'[q] = call[q], Grows,
           ownerLock = q => ownerLock' = q,
           \A d \in Devices : deviceLock[d] = q => deviceLock'[d] = q,
           call[q].op = "first" => EmptyRegistry',
           call[q].op = "written" => bundles'[call[q].device] = bundles[call[q].device]
    PROVE  CallOK(q)'
<1>1. call[q].op \notin {"idle", "first", "register"}
        => call[q].device \in Devices /\ device'[call[q].device] # "absent"
  BY DEF CallOK, Grows
<1>2. call[q].op = "first" => ownerLock' = q
  BY DEF CallOK
<1>3. call[q].op = "register" => ~EmptyRegistry'
  BY DEF CallOK, Grows, EmptyRegistry
<1>4. call[q].op = "approve" => /\ call[q].intent \in Intents
                                /\ call[q].approver \in Devices \ {call[q].device}
                                /\ activatedBy'[call[q].approver] # NoDevice
  BY DEF CallOK, Grows
<1>5. call[q].op \in {"publish", "checked", "written"} /\ call[q].proof # NoProof
        => device'[call[q].device] \in {"active", "revoked"}
  BY DEF CallOK, Grows
<1>6. call[q].op \in {"checked", "written"} /\ call[q].proof # NoProof
        => call[q].proof.over = call[q].version
  BY DEF CallOK
<1>7. call[q].op = "written" => /\ deviceLock'[call[q].device] = q
                                /\ call[q].version = Len(bundles'[call[q].device])
  BY DEF CallOK, Version
<1>8. \A i \in call[q].expiring : intent'[i].status # "absent"
  <2>1. call[q].expiring \in SUBSET Intents
    BY DEF CryptoTypeOK
  <2> QED
    BY <2>1 DEF CallOK, Grows
<1> QED
  BY <1>1, <1>2, <1>3, <1>4, <1>5, <1>6, <1>7, <1>8 DEF CallOK, Activated, Version

(* A step of request r that only reads, locks or gives up.                 *)
LEMMA ReadingStep ==
    ASSUME CryptoInv, NEW r \in Handlers, UNCHANGED registryVars,
           call' \in [Handlers -> CallRecords],
           ownerLock' \in Handlers \cup {NoHandler},
           deviceLock' \in [Devices -> Handlers \cup {NoHandler}],
           CallOK(r)',
           \A q \in Handlers \ {r} : /\ call'[q] = call[q]
                                     /\ ownerLock = q => ownerLock' = q
                                     /\ \A d \in Devices : deviceLock[d] = q => deviceLock'[d] = q
    PROVE  CryptoInv'
<1>1. UNCHANGED <<device, activatedBy, bundles, challenge, intent>>
  BY DEF registryVars
<1>2. CryptoTypeOK'
  BY <1>1 DEF CryptoInv, CryptoTypeOK, CallRecords
<1>3. ASSUME NEW q \in Handlers \ {r}
      PROVE  CallOK(q)'
  <2>1. CryptoTypeOK /\ CallOK(q)
    BY DEF CryptoInv
  <2>2. Grows
    BY <1>1 DEF Grows, Activated
  <2>3. call[q].op = "first" => EmptyRegistry'
    BY <1>1, <2>1 DEF CallOK, EmptyRegistry
  <2>4. call[q].op = "written" => bundles'[call[q].device] = bundles[call[q].device]
    BY <1>1
  <2>5. /\ call'[q] = call[q] /\ (ownerLock = q => ownerLock' = q)
        /\ \A d \in Devices : deviceLock[d] = q => deviceLock'[d] = q
    OBVIOUS
  <2> QED
    BY <2>1, <2>2, <2>3, <2>4, <2>5, CallKept
<1>4. DevicesOK' /\ IntentsOK' /\ BundlesOK' /\ TrustRooted' /\ NoPublishLost'
  BY <1>1 DEF CryptoInv, DevicesOK, IntentsOK, BundlesOK, TrustRooted, NoPublishLost, Activated, Version
<1> QED
  BY <1>2, <1>3, <1>4 DEF CryptoInv

LEMMA IdleOK ==
    ASSUME NEW r \in Handlers, call'[r] = NoCall
    PROVE  CallOK(r)'
BY DEF CallOK, NoCall

LEMMA RefuseStep ==
    ASSUME CryptoInv, NEW r \in Handlers, Refuse(r)
    PROVE  CryptoInv'
<1>1. CryptoTypeOK /\ End(r) /\ UNCHANGED registryVars
  BY DEF CryptoInv, Refuse
<1>2. call'[r] = NoCall
  BY <1>1, EndKeeps
<1>3. CallOK(r)'
  BY <1>2, IdleOK
<1> QED
  BY <1>1, <1>3, EndKeeps, ReadingStep

(* The requests that begin without a lock: c is what they have read.       *)
LEMMA BeginStep ==
    ASSUME CryptoInv, NEW r \in Handlers, NEW c \in CallRecords, Start(r, c),
           UNCHANGED <<registryVars, ownerLock, deviceLock>>,
           c.op \in {"register", "challenge", "publish", "link", "approve"},
           c.op # "register" => c.device \in Devices /\ device[c.device] # "absent",
           c.op = "register" => ~EmptyRegistry,
           c.op = "approve" => /\ c.intent \in Intents
                               /\ c.approver \in Devices \ {c.device} /\ Activated(c.approver),
           c.op = "publish" /\ c.proof # NoProof => device[c.device] \in {"active", "revoked"},
           \A i \in c.expiring : intent[i].status # "absent"
    PROVE  CryptoInv'
<1>1. CryptoTypeOK
  BY DEF CryptoInv
<1>2. /\ call' \in [Handlers -> CallRecords]
      /\ call'[r] = c
      /\ \A q \in Handlers \ {r} : call'[q] = call[q]
  BY <1>1, StartKeeps
<1>3. UNCHANGED <<device, activatedBy, bundles, challenge, intent>>
  BY DEF registryVars
<1>4. EmptyRegistry' = EmptyRegistry
  BY <1>3 DEF EmptyRegistry
<1>5. CallOK(r)'
  BY <1>2, <1>3, <1>4 DEF CallOK, Activated
<1>6. /\ ownerLock' \in Handlers \cup {NoHandler}
      /\ deviceLock' \in [Devices -> Handlers \cup {NoHandler}]
      /\ \A q \in Handlers \ {r} : /\ call'[q] = call[q]
                                   /\ ownerLock = q => ownerLock' = q
                                   /\ \A d \in Devices : deviceLock[d] = q => deviceLock'[d] = q
  BY <1>1, <1>2 DEF CryptoTypeOK
<1> QED
  BY <1>2, <1>5, <1>6, ReadingStep

LEMMA BeginFirstStep ==
    ASSUME CryptoInv, NEW r \in Handlers, BeginFirst(r)
    PROVE  CryptoInv'
<1>1. CryptoTypeOK
  BY DEF CryptoInv
<1> DEFINE c == [NoCall EXCEPT !.op = "first"]
<1>2. c \in CallRecords /\ c.op = "first" /\ c.expiring = {}
  BY DEF NoCall, CallRecords, CallOps, Proofs, NoProof
<1>3. Start(r, c) /\ EmptyRegistry /\ ownerLock = NoHandler /\ ownerLock' = r
      /\ UNCHANGED <<registryVars, deviceLock>>
  BY DEF BeginFirst, LockOwner
<1> HIDE DEF c
<1>4. /\ call' \in [Handlers -> CallRecords]
      /\ call'[r] = c
      /\ \A q \in Handlers \ {r} : call'[q] = call[q]
  BY <1>1, <1>2, <1>3, StartKeeps
<1>5. EmptyRegistry'
  BY <1>3 DEF EmptyRegistry, registryVars
<1>6. CallOK(r)'
  BY <1>2, <1>3, <1>4, <1>5 DEF CallOK
<1>7. /\ ownerLock' \in Handlers \cup {NoHandler}
      /\ deviceLock' \in [Devices -> Handlers \cup {NoHandler}]
      /\ \A q \in Handlers \ {r} : /\ call'[q] = call[q]
                                   /\ ownerLock = q => ownerLock' = q
                                   /\ \A d \in Devices : deviceLock[d] = q => deviceLock'[d] = q
  BY <1>1, <1>3, <1>4, CryptoAssumption DEF CryptoTypeOK
<1> QED
  BY <1>3, <1>4, <1>6, <1>7, ReadingStep

LEMMA BeginsStep ==
    ASSUME CryptoInv, NEW r \in Handlers,
           \/ BeginPending(r)
           \/ \E d \in Devices : \/ BeginChallenge(r, d) \/ BeginPublish(r, d)
                                \/ \E S \in SUBSET Intents : BeginIntent(r, d, S)
           \/ \E i \in Intents, a \in Devices : BeginApprove(r, i, a)
    PROVE  CryptoInv'
<1>1. CryptoTypeOK
  BY DEF CryptoInv
<1>2. CASE BeginPending(r)
  <2> DEFINE c == [NoCall EXCEPT !.op = "register"]
  <2>1. c \in CallRecords /\ c.op = "register" /\ c.expiring = {}
    BY DEF NoCall, CallRecords, CallOps, Proofs, NoProof
  <2>2. Start(r, c) /\ ~EmptyRegistry /\ UNCHANGED <<registryVars, ownerLock, deviceLock>>
    BY <1>2 DEF BeginPending, EmptyRegistry
  <2> HIDE DEF c
  <2> QED
    BY <2>1, <2>2, BeginStep
<1>3. ASSUME NEW d \in Devices, BeginChallenge(r, d)
      PROVE  CryptoInv'
  <2> DEFINE c == [NoCall EXCEPT !.op = "challenge", !.device = d, !.version = Version(d)]
  <2>1. Version(d) \in Nat
    BY <1>1 DEF CryptoTypeOK, Version
  <2>2. c \in CallRecords /\ c.op = "challenge" /\ c.device = d /\ c.expiring = {}
    BY <2>1 DEF NoCall, CallRecords, CallOps, Proofs, NoProof
  <2>3. Start(r, c) /\ device[d] # "absent" /\ UNCHANGED <<registryVars, ownerLock, deviceLock>>
    BY <1>3 DEF BeginChallenge
  <2> HIDE DEF c
  <2> QED
    BY <2>2, <2>3, BeginStep
<1>4. ASSUME NEW d \in Devices, BeginPublish(r, d)
      PROVE  CryptoInv'
  <2>1. CASE device[d] = "active"
    <3> DEFINE p == [over |-> challenge[d].over, serial |-> challenge[d].serial]
    <3> DEFINE c == [NoCall EXCEPT !.op = "publish", !.device = d, !.proof = p]
    <3>1. p \in Proofs
      BY <1>1 DEF CryptoTypeOK, Proofs
    <3>2. c \in CallRecords /\ c.op = "publish" /\ c.device = d /\ c.expiring = {}
      BY <3>1 DEF NoCall, CallRecords, CallOps
    <3>3. Start(r, c) /\ UNCHANGED <<registryVars, ownerLock, deviceLock>>
      BY <1>4, <2>1 DEF BeginPublish
    <3> HIDE DEF c
    <3> QED
      BY <2>1, <3>2, <3>3, BeginStep
  <2>2. CASE device[d] = "pending_link"
    <3> DEFINE c == [NoCall EXCEPT !.op = "publish", !.device = d]
    <3>1. c \in CallRecords /\ c.op = "publish" /\ c.device = d /\ c.proof = NoProof /\ c.expiring = {}
      BY DEF NoCall, CallRecords, CallOps, Proofs, NoProof
    <3>2. Start(r, c) /\ UNCHANGED <<registryVars, ownerLock, deviceLock>>
      BY <1>4, <2>2 DEF BeginPublish
    <3> HIDE DEF c
    <3> QED
      BY <2>2, <3>1, <3>2, BeginStep
  <2> QED
    BY <1>4, <2>1, <2>2 DEF BeginPublish
<1>5. ASSUME NEW d \in Devices, NEW S \in SUBSET Intents, BeginIntent(r, d, S)
      PROVE  CryptoInv'
  <2> DEFINE c == [NoCall EXCEPT !.op = "link", !.device = d, !.version = Version(d), !.expiring = S]
  <2>1. Version(d) \in Nat
    BY <1>1 DEF CryptoTypeOK, Version
  <2>2. c \in CallRecords /\ c.op = "link" /\ c.device = d /\ c.expiring = S
    BY <2>1 DEF NoCall, CallRecords, CallOps, Proofs, NoProof
  <2>3. /\ Start(r, c) /\ device[d] # "absent" /\ UNCHANGED <<registryVars, ownerLock, deviceLock>>
        /\ \A i \in S : intent[i].status # "absent"
    BY <1>5 DEF BeginIntent, Lapsed
  <2> HIDE DEF c
  <2> QED
    BY <2>2, <2>3, BeginStep
<1>6. ASSUME NEW i \in Intents, NEW a \in Devices, BeginApprove(r, i, a)
      PROVE  CryptoInv'
  <2> DEFINE d == intent[i].device
  <2> DEFINE c == [NoCall EXCEPT !.op = "approve", !.device = d, !.intent = i, !.approver = a]
  <2>1. d \in Devices /\ device[d] = "pending_link" /\ a # d /\ device[a] = "active"
    BY <1>6 DEF BeginApprove, ApproverActive, CryptoInv, IntentsOK
  <2>2. Activated(a)
    BY <2>1 DEF CryptoInv, DevicesOK
  <2>3. c \in CallRecords /\ c.op = "approve" /\ c.device = d /\ c.intent = i /\ c.approver = a /\ c.expiring = {}
    BY <2>1 DEF NoCall, CallRecords, CallOps, Proofs, NoProof
  <2>4. Start(r, c) /\ UNCHANGED <<registryVars, ownerLock, deviceLock>>
    BY <1>6 DEF BeginApprove
  <2> HIDE DEF c, d
  <2> QED
    BY <2>1, <2>2, <2>3, <2>4, BeginStep
<1> QED
  BY <1>2, <1>3, <1>4, <1>5, <1>6

(* A publication is checked, and writes its rows.                          *)
LEMMA PublishSteps ==
    ASSUME CryptoInv, NEW r \in Handlers, CheckPublish(r) \/ WritePublish(r)
    PROVE  CryptoInv'
<1>1. CryptoTypeOK /\ CallOK(r)
  BY DEF CryptoInv
<1>2. PICK d : d = call[r].device
  OBVIOUS
<1>3. d \in Devices /\ device[d] # "absent"
  BY <1>1, <1>2 DEF CallOK, CheckPublish, WritePublish
<1>4. UNCHANGED registryVars /\ UNCHANGED ownerLock
  BY DEF CheckPublish, WritePublish
<1>5. UNCHANGED <<device, activatedBy, bundles, challenge, intent>>
  BY <1>4 DEF registryVars
<1>6. Version(d) \in Nat /\ Version(d)' = Version(d)
  BY <1>1, <1>3, <1>5 DEF CryptoTypeOK, Version
<1>7. call \in [Handlers -> CallRecords]
  BY <1>1 DEF CryptoTypeOK, CallRecords
<1>8. CASE CheckPublish(r)
  <2>1. /\ call[r].op = "publish"
        /\ device[d] = "pending_link" \/ (device[d] = "active" /\ ProofMatches(r, d))
        /\ call' = [call EXCEPT ![r].op = "checked", ![r].version = Version(d)]
        /\ UNCHANGED deviceLock
    BY <1>2, <1>8 DEF CheckPublish
  <2>2. /\ call' \in [Handlers -> CallRecords]
        /\ call'[r] = [call[r] EXCEPT !.op = "checked", !.version = Version(d)]
        /\ \A q \in Handlers \ {r} : call'[q] = call[q]
    <3>1. call' = [call EXCEPT ![r] = [call[r] EXCEPT !.op = "checked", !.version = Version(d)]]
      BY <2>1, <1>7
    <3>2. call[r] \in CallRecords
      BY <1>7
    <3>3. [call[r] EXCEPT !.op = "checked", !.version = Version(d)] \in CallRecords
      BY <3>2, <1>6 DEF CallRecords, CallOps
    <3> QED
      BY <3>1, <3>3, <1>7
  <2>3. call'[r].op = "checked" /\ call'[r].device = d /\ call'[r].version = Version(d)
        /\ call'[r].proof = call[r].proof /\ call'[r].expiring = call[r].expiring
    BY <2>2, <1>2, <1>7 DEF CallRecords
  <2>4. call[r].proof # NoProof => device[d] = "active" /\ call[r].proof.over = Version(d)
    BY <2>1, <1>1, <1>2 DEF CallOK, ProofMatches
  <2>5. CallOK(r)'
    BY <2>3, <2>4, <1>1, <1>3, <1>5 DEF CallOK
  <2> QED
    BY <2>1, <2>2, <2>5, <1>1, <1>4, ReadingStep DEF CryptoTypeOK
<1>9. CASE WritePublish(r)
  <2> DEFINE T == IF device[d] = "pending_link" THEN PendingOf(d) ELSE {}
  <2>8. T \in SUBSET Intents /\ \A i \in T : intent[i].status # "absent"
    BY DEF PendingOf
  <2>9. /\ call' = [call EXCEPT ![r].op = "written", ![r].expiring = T]
        /\ call[r].op = "checked" /\ deviceLock[d] = NoHandler
        /\ call[r].version = Version(d)
        /\ deviceLock' = [deviceLock EXCEPT ![d] = r]
    BY <1>2, <1>9 DEF WritePublish, NextVersionFree
  <2> HIDE DEF T
  <2>1. PICK S \in SUBSET Intents :
           /\ call' = [call EXCEPT ![r].op = "written", ![r].expiring = S]
           /\ call[r].op = "checked" /\ deviceLock[d] = NoHandler
           /\ call[r].version = Version(d)
           /\ deviceLock' = [deviceLock EXCEPT ![d] = r]
           /\ \A i \in S : intent[i].status # "absent"
    BY <2>8, <2>9
  <2>2. /\ call' \in [Handlers -> CallRecords]
        /\ call'[r] = [call[r] EXCEPT !.op = "written", !.expiring = S]
        /\ \A q \in Handlers \ {r} : call'[q] = call[q]
    <3>1. call' = [call EXCEPT ![r] = [call[r] EXCEPT !.op = "written", !.expiring = S]]
      BY <2>1, <1>7
    <3>2. call[r] \in CallRecords
      BY <1>7
    <3>3. [call[r] EXCEPT !.op = "written", !.expiring = S] \in CallRecords
      BY <3>2 DEF CallRecords, CallOps
    <3> QED
      BY <3>1, <3>3, <1>7
  <2>3. call'[r].op = "written" /\ call'[r].device = d /\ call'[r].version = Version(d)
        /\ call'[r].proof = call[r].proof /\ call'[r].expiring = S
    BY <2>1, <2>2, <1>2, <1>7 DEF CallRecords
  <2>4. call[r].proof # NoProof => /\ device[d] \in {"active", "revoked"}
                                   /\ call[r].proof.over = Version(d)
    BY <2>1, <1>1, <1>2 DEF CallOK
  <2>5. deviceLock' \in [Devices -> Handlers \cup {NoHandler}] /\ deviceLock'[d] = r
    BY <2>1, <1>1, <1>3 DEF CryptoTypeOK
  <2>6. CallOK(r)'
    BY <2>1, <2>3, <2>4, <2>5, <1>3, <1>5, <1>6 DEF CallOK, Version
  <2>7. \A q \in Handlers \ {r}, e \in Devices : deviceLock[e] = q => deviceLock'[e] = q
    BY <2>1, <1>1, CryptoAssumption DEF CryptoTypeOK
  <2> QED
    BY <2>2, <2>5, <2>6, <2>7, <1>1, <1>4, ReadingStep DEF CryptoTypeOK
<1> QED
  BY <1>8, <1>9

-----------------------------------------------------------------------------
(* The commit of request r: nobody else is disturbed.                      *)
LEMMA CommitKeeps ==
    ASSUME CryptoInv, NEW r \in Handlers, End(r), Grows,
           \A q \in Handlers \ {r} :
              /\ call[q].op = "first" => EmptyRegistry'
              /\ call[q].op = "written" => bundles'[call[q].device] = bundles[call[q].device]
    PROVE  /\ call' \in [Handlers -> CallRecords]
           /\ ownerLock' \in Handlers \cup {NoHandler}
           /\ deviceLock' \in [Devices -> Handlers \cup {NoHandler}]
           /\ \A q \in Handlers : CallOK(q)'
<1>1. CryptoTypeOK
  BY DEF CryptoInv
<1>2. CallOK(r)'
  BY <1>1, EndKeeps, IdleOK
<1>3. ASSUME NEW q \in Handlers \ {r}
      PROVE  CallOK(q)'
  <2>1. CallOK(q)
    BY DEF CryptoInv
  <2>2. /\ call'[q] = call[q] /\ (ownerLock = q => ownerLock' = q)
        /\ \A d \in Devices : deviceLock[d] = q => deviceLock'[d] = q
    BY <1>1, EndKeeps
  <2>3. /\ call[q].op = "first" => EmptyRegistry'
        /\ call[q].op = "written" => bundles'[call[q].device] = bundles[call[q].device]
    OBVIOUS
  <2> QED
    BY <1>1, <2>1, <2>2, <2>3, CallKept
<1> QED
  BY <1>1, <1>2, <1>3, EndKeeps

(* The same for a step that belongs to no request.                         *)
LEMMA OthersKept ==
    ASSUME CryptoInv, UNCHANGED <<bundles, ownerLock, deviceLock, call>>, Grows,
           EmptyRegistry => EmptyRegistry'
    PROVE  \A q \in Handlers : CallOK(q)'
<1>1. ASSUME NEW q \in Handlers
      PROVE  CallOK(q)'
  <2>1. CryptoTypeOK /\ CallOK(q)
    BY DEF CryptoInv
  <2>2. call[q].op = "first" => EmptyRegistry'
    BY <2>1 DEF CallOK
  <2> QED
    BY <2>1, <2>2, CallKept
<1> QED
  BY <1>1

(* A first bundle.                                                         *)
LEMMA FirstBundleKeeps ==
    ASSUME CryptoInv, NEW d \in Devices, bundles' = [bundles EXCEPT ![d] = FirstBundle]
    PROVE  bundles' \in [Devices -> Seq(Bundles)] /\ BundlesOK' /\ NoPublishLost'
<1> DEFINE b == [base |-> 0, proof |-> NoProof]
<1>1. b \in Bundles /\ b.base = 0 /\ b.proof = NoProof
  BY DEF Bundles, Proofs, NoProof
<1>2. FirstBundle = <<b>>
  BY DEF FirstBundle
<1> HIDE DEF b
<1>3. FirstBundle \in Seq(Bundles) /\ Len(FirstBundle) = 1 /\ FirstBundle[1] = b
  BY <1>1, <1>2
<1>4. bundles \in [Devices -> Seq(Bundles)]
  BY DEF CryptoInv, CryptoTypeOK
<1>5. \A e \in Devices : bundles'[e] = IF e = d THEN FirstBundle ELSE bundles[e]
  BY <1>4
<1>6. bundles' \in [Devices -> Seq(Bundles)]
  BY <1>3, <1>4
<1>7. ASSUME NEW e \in Devices, NEW n \in 1..Len(bundles'[e])
      PROVE  /\ bundles'[e][n].base = n - 1
             /\ bundles'[e][n].proof # NoProof => bundles'[e][n].proof.over = n - 1
  <2>1. CASE e = d
    <3>1. bundles'[e] = FirstBundle
      BY <1>5, <2>1
    <3>2. n \in 1..1
      BY <1>3, <3>1
    <3>3. n = 1
      BY <3>2
    <3> QED
      BY <1>1, <1>3, <3>1, <3>3
  <2>2. CASE e # d
    <3>1. bundles'[e] = bundles[e] /\ n \in 1..Version(e)
      BY <1>5, <2>2 DEF Version
    <3> QED
      BY <3>1 DEF CryptoInv, BundlesOK, NoPublishLost
  <2> QED
    BY <2>1, <2>2
<1> QED
  BY <1>6, <1>7 DEF BundlesOK, NoPublishLost, Version

LEMMA RegisterFirstStep ==
    ASSUME CryptoInv, NEW r \in Handlers, NEW d \in Devices, RegisterFirst(r, d)
    PROVE  CryptoInv'
<1>1. CryptoTypeOK /\ CallOK(r) /\ DevicesOK
  BY DEF CryptoInv
<1>2. /\ call[r].op = "first"
      /\ device' = [device EXCEPT ![d] = "active"]
      /\ activatedBy' = [activatedBy EXCEPT ![d] = d]
      /\ bundles' = [bundles EXCEPT ![d] = FirstBundle]
      /\ End(r) /\ UNCHANGED <<challenge, intent>>
  BY DEF RegisterFirst
<1>3. EmptyRegistry /\ ownerLock = r
  BY <1>1, <1>2 DEF CallOK
<1>4. \A e \in Devices : device[e] = "absent" /\ activatedBy[e] = NoDevice
  BY <1>1, <1>3 DEF EmptyRegistry, DevicesOK, Activated
<1>5. Grows
  BY <1>2, <1>4 DEF Grows, Activated
<1>6. ASSUME NEW q \in Handlers \ {r}
      PROVE  call[q].op \notin {"first", "written"}
  <2>1. CallOK(q)
    BY DEF CryptoInv
  <2> QED
    BY <1>3, <1>4, <2>1 DEF CallOK
<1>7. /\ call' \in [Handlers -> CallRecords]
      /\ ownerLock' \in Handlers \cup {NoHandler}
      /\ deviceLock' \in [Devices -> Handlers \cup {NoHandler}]
      /\ \A q \in Handlers : CallOK(q)'
  BY <1>2, <1>5, <1>6, CommitKeeps
<1>8. bundles' \in [Devices -> Seq(Bundles)] /\ BundlesOK' /\ NoPublishLost'
  BY <1>2, FirstBundleKeeps
<1>9. /\ device' \in [Devices -> {"absent", "pending_link", "active", "revoked"}]
      /\ activatedBy' \in [Devices -> Devices \cup {NoDevice}]
  BY <1>1, <1>2 DEF CryptoTypeOK
<1>10. CryptoTypeOK'
  BY <1>1, <1>2, <1>7, <1>8, <1>9 DEF CryptoTypeOK, CallRecords
<1>11. \A e \in Devices : /\ device'[e] = IF e = d THEN "active" ELSE "absent"
                          /\ activatedBy'[e] = IF e = d THEN d ELSE NoDevice
  BY <1>1, <1>2, <1>4 DEF CryptoTypeOK
<1>12. DevicesOK' /\ TrustRooted'
  BY <1>11, CryptoAssumption DEF DevicesOK, TrustRooted, Activated
<1>13. IntentsOK'
  BY <1>2 DEF CryptoInv, IntentsOK
<1> QED
  BY <1>7, <1>8, <1>10, <1>12, <1>13 DEF CryptoInv

LEMMA RegisterPendingStep ==
    ASSUME CryptoInv, NEW r \in Handlers, NEW d \in Devices, RegisterPending(r, d)
    PROVE  CryptoInv'
<1>1. CryptoTypeOK /\ CallOK(r) /\ DevicesOK
  BY DEF CryptoInv
<1>2. /\ call[r].op = "register" /\ device[d] = "absent"
      /\ device' = [device EXCEPT ![d] = "pending_link"]
      /\ bundles' = [bundles EXCEPT ![d] = FirstBundle]
      /\ End(r) /\ UNCHANGED <<activatedBy, challenge, intent>>
  BY DEF RegisterPending
<1>3. ~EmptyRegistry
  BY <1>1, <1>2 DEF CallOK
<1>4. \A e \in Devices : device'[e] = IF e = d THEN "pending_link" ELSE device[e]
  BY <1>1, <1>2 DEF CryptoTypeOK
<1>5. Grows
  BY <1>2, <1>4 DEF Grows, Activated
<1>6. ASSUME NEW q \in Handlers \ {r}
      PROVE  /\ call[q].op = "first" => EmptyRegistry'
             /\ call[q].op = "written" => bundles'[call[q].device] = bundles[call[q].device]
  <2>1. CallOK(q)
    BY DEF CryptoInv
  <2>2. call[q].op # "first"
    BY <1>3, <2>1 DEF CallOK
  <2>3. call[q].op = "written" => call[q].device \in Devices \ {d}
    BY <1>2, <2>1 DEF CallOK
  <2> QED
    BY <1>1, <1>2, <2>2, <2>3 DEF CryptoTypeOK
<1>7. /\ call' \in [Handlers -> CallRecords]
      /\ ownerLock' \in Handlers \cup {NoHandler}
      /\ deviceLock' \in [Devices -> Handlers \cup {NoHandler}]
      /\ \A q \in Handlers : CallOK(q)'
  BY <1>2, <1>5, <1>6, CommitKeeps
<1>8. bundles' \in [Devices -> Seq(Bundles)] /\ BundlesOK' /\ NoPublishLost'
  BY <1>2, FirstBundleKeeps
<1>9. device' \in [Devices -> {"absent", "pending_link", "active", "revoked"}]
  BY <1>1, <1>2 DEF CryptoTypeOK
<1>10. CryptoTypeOK'
  BY <1>1, <1>2, <1>7, <1>8, <1>9 DEF CryptoTypeOK, CallRecords
<1>11. DevicesOK'
  BY <1>1, <1>2, <1>4 DEF DevicesOK, Activated
<1>12. TrustRooted' /\ IntentsOK'
  BY <1>2 DEF CryptoInv, TrustRooted, IntentsOK, Activated
<1> QED
  BY <1>7, <1>8, <1>10, <1>11, <1>12 DEF CryptoInv

(* A step that leaves devices and bundles as they are.                     *)
LEMMA ListingKeeps ==
    ASSUME CryptoInv, UNCHANGED <<device, activatedBy, bundles>>
    PROVE  EmptyRegistry' = EmptyRegistry /\ DevicesOK' /\ BundlesOK' /\ TrustRooted' /\ NoPublishLost'
BY DEF CryptoInv, EmptyRegistry, DevicesOK, BundlesOK, TrustRooted, NoPublishLost, Activated, Version

LEMMA ExpiredKeeps ==
    ASSUME CryptoInv, NEW S \in SUBSET Intents,
           \A i \in S : intent[i].status # "absent",
           intent' = Expired(S)
    PROVE  /\ intent' \in [Intents -> [status: {"absent", "pending", "approved", "expired"},
                                       device: Devices \cup {NoDevice}, version: Nat]]
           /\ IntentsOK'
           /\ \A i \in Intents : intent[i].status # "absent" => intent'[i].status # "absent"
<1>1. intent \in [Intents -> [status: {"absent", "pending", "approved", "expired"},
                              device: Devices \cup {NoDevice}, version: Nat]]
  BY DEF CryptoInv, CryptoTypeOK
<1>2. \A i \in Intents : intent'[i] = IF i \in S THEN [intent[i] EXCEPT !.status = "expired"] ELSE intent[i]
  BY DEF Expired
<1>3. intent' \in [Intents -> [status: {"absent", "pending", "approved", "expired"},
                               device: Devices \cup {NoDevice}, version: Nat]]
  BY <1>1 DEF Expired
<1>4. \A i \in Intents : /\ intent'[i].device = intent[i].device
                         /\ intent[i].status = "absent" <=> intent'[i].status = "absent"
  BY <1>1, <1>2
<1>5. IntentsOK'
  BY <1>1, <1>4 DEF CryptoInv, IntentsOK
<1> QED
  BY <1>3, <1>4, <1>5

LEMMA UpsertChallengeStep ==
    ASSUME CryptoInv, NEW r \in Handlers, UpsertChallenge(r)
    PROVE  CryptoInv'
<1>1. CryptoTypeOK /\ CallOK(r)
  BY DEF CryptoInv
<1>2. PICK d : d = call[r].device
  OBVIOUS
<1>3. /\ call[r].op = "challenge"
      /\ challenge' = [challenge EXCEPT ![d] = [over |-> call[r].version,
                                                serial |-> @.serial + 1, live |-> TRUE]]
      /\ End(r) /\ UNCHANGED <<device, activatedBy, bundles, intent>>
  BY <1>2 DEF UpsertChallenge
<1>4. call[r].version \in Nat /\ d \in Devices
  BY <1>1, <1>2, <1>3 DEF CryptoTypeOK, CallOK
<1>5. challenge' \in [Devices -> [over: Nat, serial: Nat, live: BOOLEAN]]
  BY <1>1, <1>3, <1>4 DEF CryptoTypeOK
<1>6. Grows /\ EmptyRegistry' = EmptyRegistry /\ DevicesOK' /\ BundlesOK' /\ TrustRooted' /\ NoPublishLost'
  BY <1>3, ListingKeeps DEF Grows, Activated
<1>7. ASSUME NEW q \in Handlers \ {r}
      PROVE  /\ call[q].op = "first" => EmptyRegistry'
             /\ call[q].op = "written" => bundles'[call[q].device] = bundles[call[q].device]
  BY <1>3, <1>6 DEF CryptoInv, CallOK
<1>8. /\ call' \in [Handlers -> CallRecords]
      /\ ownerLock' \in Handlers \cup {NoHandler}
      /\ deviceLock' \in [Devices -> Handlers \cup {NoHandler}]
      /\ \A q \in Handlers : CallOK(q)'
  BY <1>3, <1>6, <1>7, CommitKeeps
<1>9. CryptoTypeOK' /\ IntentsOK'
  BY <1>1, <1>3, <1>5, <1>8 DEF CryptoInv, CryptoTypeOK, CallRecords, IntentsOK
<1> QED
  BY <1>6, <1>8, <1>9 DEF CryptoInv

(* The commit of a publication.  Nobody else has written rows of the       *)
(* device, whose version is still the one the request has read.            *)
LEMMA CommitPublishStep ==
    ASSUME CryptoInv, NEW r \in Handlers, CommitPublish(r)
    PROVE  CryptoInv'
<1>1. CryptoTypeOK /\ CallOK(r)
  BY DEF CryptoInv
<1>2. PICK d : d = call[r].device
  OBVIOUS
<1> DEFINE b == [base |-> call[r].version, proof |-> call[r].proof]
<1>3. /\ call[r].op = "written"
      /\ bundles' = [bundles EXCEPT ![d] = Append(bundles[d], b)]
      /\ challenge' = [challenge EXCEPT ![d].live = FALSE]
      /\ intent' = Expired(call[r].expiring)
      /\ End(r) /\ UNCHANGED <<device, activatedBy>>
  BY <1>2 DEF CommitPublish
<1>4. /\ d \in Devices /\ deviceLock[d] = r /\ call[r].version = Version(d)
      /\ call[r].proof # NoProof => call[r].proof.over = Version(d)
  BY <1>1, <1>2, <1>3 DEF CallOK
<1>5. b \in Bundles /\ b.base = call[r].version /\ b.proof = call[r].proof
  BY <1>1 DEF CryptoTypeOK, Bundles
<1> HIDE DEF b
<1>6. bundles \in [Devices -> Seq(Bundles)]
  BY <1>1 DEF CryptoTypeOK
<1>7. \A e \in Devices : bundles'[e] = IF e = d THEN Append(bundles[d], b) ELSE bundles[e]
  BY <1>3, <1>6
<1>8. bundles[d] \in Seq(Bundles) /\ Version(d) \in Nat
  BY <1>4, <1>6 DEF Version
<1>9. /\ Append(bundles[d], b) \in Seq(Bundles)
      /\ Len(Append(bundles[d], b)) = Version(d) + 1
      /\ Append(bundles[d], b)[Version(d) + 1] = b
      /\ \A n \in 1..Version(d) : Append(bundles[d], b)[n] = bundles[d][n]
  BY <1>5, <1>8 DEF Version
<1>10. bundles' \in [Devices -> Seq(Bundles)]
  BY <1>3, <1>6, <1>9
<1>2a. ASSUME NEW n \in 1..Len(bundles'[d]), n # Version(d) + 1
       PROVE  n \in 1..Version(d) /\ bundles'[d][n] = bundles[d][n]
  <2>1. bundles'[d] = Append(bundles[d], b)
    BY <1>4, <1>7
  <2>2. n \in 1..Version(d) + 1
    BY <1>9, <2>1
  <2>3. n \in 1..Version(d)
    BY <1>8, <1>2a, <2>2
  <2> QED
    BY <1>9, <2>1, <2>3
<1>11. ASSUME NEW e \in Devices, NEW n \in 1..Len(bundles'[e])
       PROVE  /\ bundles'[e][n].base = n - 1
              /\ bundles'[e][n].proof # NoProof => bundles'[e][n].proof.over = n - 1
  <2>1. CASE e = d /\ n = Version(d) + 1
    <3>1. bundles'[e] = Append(bundles[d], b)
      BY <1>7, <2>1
    <3>2. bundles'[e][n] = b
      BY <1>9, <2>1, <3>1
    <3>3. n - 1 = Version(d)
      BY <1>8, <2>1
    <3> QED
      BY <1>4, <1>5, <3>2, <3>3
  <2>2. CASE e = d /\ n # Version(d) + 1
    <3>1. n \in 1..Version(d) /\ bundles'[e][n] = bundles[d][n]
      BY <1>2a, <2>2
    <3> QED
      BY <1>4, <3>1 DEF CryptoInv, BundlesOK, NoPublishLost
  <2>3. CASE e # d
    <3>1. bundles'[e] = bundles[e] /\ n \in 1..Version(e)
      BY <1>7, <2>3 DEF Version
    <3> QED
      BY <3>1 DEF CryptoInv, BundlesOK, NoPublishLost
  <2> QED
    BY <2>1, <2>2, <2>3
<1>12. BundlesOK' /\ NoPublishLost'
  BY <1>11 DEF BundlesOK, NoPublishLost, Version
<1>13. /\ intent' \in [Intents -> [status: {"absent", "pending", "approved", "expired"},
                                    device: Devices \cup {NoDevice}, version: Nat]]
       /\ IntentsOK' /\ Grows /\ EmptyRegistry' = EmptyRegistry
  <2>1. call[r].expiring \in SUBSET Intents /\ \A i \in call[r].expiring : intent[i].status # "absent"
    BY <1>1 DEF CryptoTypeOK, CallOK
  <2>2. /\ intent' \in [Intents -> [status: {"absent", "pending", "approved", "expired"},
                                     device: Devices \cup {NoDevice}, version: Nat]]
        /\ IntentsOK'
        /\ \A i \in Intents : intent[i].status # "absent" => intent'[i].status # "absent"
    BY <1>3, <2>1, ExpiredKeeps
  <2> QED
    BY <1>3, <2>2 DEF Grows, EmptyRegistry, Activated
<1>14. ASSUME NEW q \in Handlers \ {r}
       PROVE  /\ call[q].op = "first" => EmptyRegistry'
              /\ call[q].op = "written" => bundles'[call[q].device] = bundles[call[q].device]
  <2>1. CallOK(q)
    BY DEF CryptoInv
  <2>2. call[q].op = "written" => call[q].device \in Devices \ {d}
    BY <1>4, <2>1 DEF CallOK
  <2> QED
    BY <1>7, <1>13, <2>1, <2>2 DEF CallOK
<1>15. /\ call' \in [Handlers -> CallRecords]
       /\ ownerLock' \in Handlers \cup {NoHandler}
       /\ deviceLock' \in [Devices -> Handlers \cup {NoHandler}]
       /\ \A q \in Handlers : CallOK(q)'
  BY <1>3, <1>13, <1>14, CommitKeeps
<1>16. challenge' \in [Devices -> [over: Nat, serial: Nat, live: BOOLEAN]]
  BY <1>1, <1>3, <1>4 DEF CryptoTypeOK
<1>17. CryptoTypeOK'
  BY <1>1, <1>3, <1>10, <1>13, <1>15, <1>16 DEF CryptoTypeOK, CallRecords
<1>18. DevicesOK' /\ TrustRooted'
  BY <1>3 DEF CryptoInv, DevicesOK, TrustRooted, Activated
<1> QED
  BY <1>12, <1>13, <1>15, <1>17, <1>18 DEF CryptoInv

LEMMA CreateIntentStep ==
    ASSUME CryptoInv, NEW r \in Handlers, NEW i \in Intents, CreateIntent(r, i)
    PROVE  CryptoInv'
<1>1. CryptoTypeOK /\ CallOK(r)
  BY DEF CryptoInv
<1>2. PICK d, S : d = call[r].device /\ S = call[r].expiring
  OBVIOUS
<1> DEFINE new == [status |-> "pending", device |-> d, version |-> call[r].version]
<1>3. /\ call[r].op = "link" /\ intent[i].status = "absent"
      /\ intent' = [Expired(S) EXCEPT ![i] = new]
      /\ End(r) /\ UNCHANGED <<device, activatedBy, bundles, challenge>>
  BY <1>2 DEF CreateIntent
<1>4. d \in Devices /\ S \in SUBSET Intents
  BY <1>1, <1>2, <1>3 DEF CryptoTypeOK, CallOK
<1>5. new \in [status: {"absent", "pending", "approved", "expired"},
               device: Devices \cup {NoDevice}, version: Nat]
      /\ new.status = "pending" /\ new.device = d
  BY <1>1, <1>4 DEF CryptoTypeOK
<1> HIDE DEF new
<1>6. Expired(S) \in [Intents -> [status: {"absent", "pending", "approved", "expired"},
                                  device: Devices \cup {NoDevice}, version: Nat]]
  BY <1>1, <1>4 DEF CryptoTypeOK, Expired
<1>7. intent' \in [Intents -> [status: {"absent", "pending", "approved", "expired"},
                               device: Devices \cup {NoDevice}, version: Nat]]
  BY <1>3, <1>5, <1>6
<1>8. \A j \in Intents \ {i} : intent'[j] = IF j \in S THEN [intent[j] EXCEPT !.status = "expired"]
                                            ELSE intent[j]
  BY <1>3, <1>6 DEF Expired
<1>9. intent'[i] = new
  BY <1>3, <1>6
<1>10. \A j \in S : intent[j].status # "absent"
  BY <1>1, <1>2 DEF CallOK
<1>11. \A j \in Intents \ {i} : /\ intent'[j].device = intent[j].device
                                /\ intent[j].status = "absent" <=> intent'[j].status = "absent"
  BY <1>1, <1>8, <1>10 DEF CryptoTypeOK
<1>12. IntentsOK'
  BY <1>4, <1>5, <1>9, <1>11 DEF CryptoInv, IntentsOK
<1>13. Grows
  BY <1>3, <1>5, <1>9, <1>11 DEF Grows, Activated
<1>14. EmptyRegistry' = EmptyRegistry /\ DevicesOK' /\ BundlesOK' /\ TrustRooted' /\ NoPublishLost'
  BY <1>3, ListingKeeps
<1>15. ASSUME NEW q \in Handlers \ {r}
       PROVE  /\ call[q].op = "first" => EmptyRegistry'
              /\ call[q].op = "written" => bundles'[call[q].device] = bundles[call[q].device]
  BY <1>3, <1>14 DEF CryptoInv, CallOK
<1>16. /\ call' \in [Handlers -> CallRecords]
       /\ ownerLock' \in Handlers \cup {NoHandler}
       /\ deviceLock' \in [Devices -> Handlers \cup {NoHandler}]
       /\ \A q \in Handlers : CallOK(q)'
  BY <1>3, <1>13, <1>15, CommitKeeps
<1>17. CryptoTypeOK'
  BY <1>1, <1>3, <1>7, <1>16 DEF CryptoTypeOK, CallRecords
<1> QED
  BY <1>12, <1>14, <1>16, <1>17 DEF CryptoInv

(* The commit of an approval: the row is still pending_link, so that the   *)
(* device is activated for the first time.                                 *)
LEMMA ApproveStep ==
    ASSUME CryptoInv, NEW r \in Handlers, Approve(r)
    PROVE  CryptoInv'
<1>1. CryptoTypeOK /\ CallOK(r) /\ DevicesOK /\ TrustRooted
  BY DEF CryptoInv
<1>2. PICK d, i, a : d = call[r].device /\ i = call[r].intent /\ a = call[r].approver
  OBVIOUS
<1>3. /\ call[r].op = "approve" /\ device[d] = "pending_link" /\ intent[i].status = "pending"
      /\ intent' = [intent EXCEPT ![i].status = "approved"]
      /\ device' = [device EXCEPT ![d] = "active"]
      /\ activatedBy' = [activatedBy EXCEPT ![d] = a]
      /\ End(r) /\ UNCHANGED <<bundles, challenge>>
  BY <1>2 DEF Approve, StillPending
<1>4. d \in Devices /\ i \in Intents /\ a \in Devices \ {d} /\ Activated(a)
  BY <1>1, <1>2, <1>3 DEF CallOK
<1>5. /\ device' \in [Devices -> {"absent", "pending_link", "active", "revoked"}]
      /\ activatedBy' \in [Devices -> Devices \cup {NoDevice}]
      /\ intent' \in [Intents -> [status: {"absent", "pending", "approved", "expired"},
                                  device: Devices \cup {NoDevice}, version: Nat]]
  BY <1>1, <1>3, <1>4 DEF CryptoTypeOK
<1>6. \A e \in Devices : /\ device'[e] = IF e = d THEN "active" ELSE device[e]
                         /\ activatedBy'[e] = IF e = d THEN a ELSE activatedBy[e]
  BY <1>1, <1>3 DEF CryptoTypeOK
<1>7. \A j \in Intents : /\ intent'[j].device = intent[j].device
                         /\ intent[j].status # "absent" <=> intent'[j].status # "absent"
  BY <1>1, <1>3, <1>4 DEF CryptoTypeOK
<1>8. Grows /\ ~EmptyRegistry
  BY <1>3, <1>4, <1>6, <1>7, CryptoAssumption DEF Grows, EmptyRegistry, Activated
<1>9. ASSUME NEW q \in Handlers \ {r}
      PROVE  /\ call[q].op = "first" => EmptyRegistry'
             /\ call[q].op = "written" => bundles'[call[q].device] = bundles[call[q].device]
  BY <1>3, <1>8 DEF CryptoInv, CallOK
<1>10. /\ call' \in [Handlers -> CallRecords]
       /\ ownerLock' \in Handlers \cup {NoHandler}
       /\ deviceLock' \in [Devices -> Handlers \cup {NoHandler}]
       /\ \A q \in Handlers : CallOK(q)'
  BY <1>3, <1>8, <1>9, CommitKeeps
<1>11. CryptoTypeOK'
  BY <1>1, <1>3, <1>5, <1>10 DEF CryptoTypeOK, CallRecords
<1>12. DevicesOK'
  BY <1>1, <1>4, <1>6, CryptoAssumption DEF DevicesOK, Activated
<1>13. ~Activated(d)
  BY <1>1, <1>3, <1>4 DEF DevicesOK
<1>14. TrustRooted'
  <2>1. \A x, y \in Devices : activatedBy'[x] = x /\ activatedBy'[y] = y => x = y
    BY <1>1, <1>4, <1>6 DEF TrustRooted
  <2>2. ASSUME NEW x \in Devices, activatedBy'[x] # NoDevice
        PROVE  activatedBy'[activatedBy'[x]] # NoDevice
    <3>1. CASE x = d
      <4>1. activatedBy'[x] = a /\ activatedBy'[a] = activatedBy[a]
        BY <1>4, <1>6, <3>1
      <4> QED
        BY <4>1, <1>4 DEF Activated
    <3>2. CASE x # d
      <4>1. activatedBy'[x] = activatedBy[x] /\ activatedBy[x] # NoDevice
        BY <1>6, <2>2, <3>2
      <4>2. activatedBy[x] \in Devices
        BY <1>1, <4>1 DEF CryptoTypeOK
      <4>3. Activated(activatedBy[x])
        BY <1>1, <4>1 DEF TrustRooted, Activated
      <4>4. activatedBy[x] # d
        BY <1>13, <4>3
      <4>5. activatedBy'[activatedBy[x]] = activatedBy[activatedBy[x]]
        BY <1>6, <4>2, <4>4
      <4> QED
        BY <4>1, <4>3, <4>5 DEF Activated
    <3> QED
      BY <3>1, <3>2
  <2> QED
    BY <2>1, <2>2 DEF TrustRooted, Activated
<1>15. IntentsOK' /\ BundlesOK' /\ NoPublishLost'
  BY <1>3, <1>7 DEF CryptoInv, IntentsOK, BundlesOK, NoPublishLost, Version
<1> QED
  BY <1>10, <1>11, <1>12, <1>14, <1>15 DEF CryptoInv

LEMMA ExpiringStep ==
    ASSUME CryptoInv, NEW S \in SUBSET Intents, \A i \in S : intent[i].status = "pending",
           intent' = Expired(S),
           UNCHANGED <<device, activatedBy, bundles, challenge, ownerLock, deviceLock, call>>
    PROVE  CryptoInv'
<1>1. /\ intent' \in [Intents -> [status: {"absent", "pending", "approved", "expired"},
                                  device: Devices \cup {NoDevice}, version: Nat]]
      /\ IntentsOK'
      /\ \A i \in Intents : intent[i].status # "absent" => intent'[i].status # "absent"
  BY ExpiredKeeps
<1>2. EmptyRegistry' = EmptyRegistry /\ DevicesOK' /\ BundlesOK' /\ TrustRooted' /\ NoPublishLost'
  BY ListingKeeps
<1>3. Grows
  BY <1>1 DEF Grows, Activated
<1>4. \A q \in Handlers : CallOK(q)'
  BY <1>2, <1>3, OthersKept
<1>5. CryptoTypeOK'
  BY <1>1 DEF CryptoInv, CryptoTypeOK
<1> QED
  BY <1>1, <1>2, <1>4, <1>5 DEF CryptoInv

LEMMA RevokeStep ==
    ASSUME CryptoInv, NEW d \in Devices, RevokeCryptoDevice(d)
    PROVE  CryptoInv'
<1>1. CryptoTypeOK /\ DevicesOK
  BY DEF CryptoInv
<1>2. /\ device[d] \in {"pending_link", "active"}
      /\ device' = [device EXCEPT ![d] = "revoked"]
      /\ intent' = Expired(PendingOf(d))
      /\ UNCHANGED <<activatedBy, bundles, challenge, ownerLock, deviceLock, call>>
  BY DEF RevokeCryptoDevice
<1>3. PendingOf(d) \in SUBSET Intents /\ \A i \in PendingOf(d) : intent[i].status # "absent"
  BY DEF PendingOf
<1>4. /\ intent' \in [Intents -> [status: {"absent", "pending", "approved", "expired"},
                                  device: Devices \cup {NoDevice}, version: Nat]]
      /\ IntentsOK'
      /\ \A i \in Intents : intent[i].status # "absent" => intent'[i].status # "absent"
  BY <1>2, <1>3, ExpiredKeeps
<1>5. \A e \in Devices : device'[e] = IF e = d THEN "revoked" ELSE device[e]
  BY <1>1, <1>2 DEF CryptoTypeOK
<1>6. Grows /\ ~EmptyRegistry
  BY <1>2, <1>4, <1>5 DEF Grows, EmptyRegistry, Activated
<1>7. \A q \in Handlers : CallOK(q)'
  BY <1>2, <1>6, OthersKept
<1>8. device' \in [Devices -> {"absent", "pending_link", "active", "revoked"}]
  BY <1>1, <1>2 DEF CryptoTypeOK
<1>9. CryptoTypeOK'
  BY <1>1, <1>2, <1>4, <1>8 DEF CryptoTypeOK
<1>10. DevicesOK'
  BY <1>1, <1>2, <1>5 DEF DevicesOK, Activated
<1>11. BundlesOK' /\ TrustRooted' /\ NoPublishLost'
  BY <1>2 DEF CryptoInv, BundlesOK, TrustRooted, NoPublishLost, Activated, Version
<1> QED
  BY <1>4, <1>7, <1>9, <1>10, <1>11 DEF CryptoInv

-----------------------------------------------------------------------------
LEMMA CryptoInitially == CryptoInit => CryptoInv
<1> SUFFICES ASSUME CryptoInit PROVE CryptoInv
  OBVIOUS
<1>1. CryptoTypeOK
  BY DEF CryptoInit, CryptoTypeOK, NoCall, CallOps, Proofs, NoProof
<1>2. \A r \in Handlers : CallOK(r)
  BY DEF CryptoInit, CallOK, NoCall
<1>3. \A d \in Devices : Version(d) = 0
  BY DEF CryptoInit, Version
<1>4. BundlesOK /\ NoPublishLost
  BY <1>3 DEF BundlesOK, NoPublishLost
<1>5. DevicesOK /\ IntentsOK /\ TrustRooted
  BY CryptoAssumption DEF CryptoInit, DevicesOK, IntentsOK, TrustRooted, Activated
<1> QED
  BY <1>1, <1>2, <1>4, <1>5 DEF CryptoInv

LEMMA CryptoStep == CryptoInv /\ [CryptoNext]_cryptoVars => CryptoInv'
<1> SUFFICES ASSUME CryptoInv, [CryptoNext]_cryptoVars PROVE CryptoInv'
  OBVIOUS
<1>1. ASSUME NEW r \in Handlers, RequestStep(r)
      PROVE  CryptoInv'
  BY <1>1, RefuseStep, BeginFirstStep, BeginsStep, RegisterFirstStep, RegisterPendingStep, UpsertChallengeStep,
     PublishSteps, CommitPublishStep, CreateIntentStep, ApproveStep DEF RequestStep
<1>2. ASSUME NEW S \in SUBSET Intents, ListIntents(S)
      PROVE  CryptoInv'
  BY <1>2, ExpiringStep DEF ListIntents, Lapsed
<1>3. ASSUME NEW i \in Intents, ExpireIntent(i)
      PROVE  CryptoInv'
  BY <1>3, ExpiringStep DEF ExpireIntent
<1>4. ASSUME NEW d \in Devices, RevokeCryptoDevice(d)
      PROVE  CryptoInv'
  BY <1>4, RevokeStep
<1>5. CASE UNCHANGED cryptoVars
  BY <1>5 DEF cryptoVars, registryVars, CryptoInv, CryptoTypeOK, CallOK, DevicesOK, IntentsOK, BundlesOK,
      TrustRooted, NoPublishLost, EmptyRegistry, Activated, Version
<1> QED
  BY <1>1, <1>2, <1>3, <1>4, <1>5 DEF CryptoNext

LEMMA CryptoAlways == CryptoSpec => []CryptoInv
BY CryptoInitially, CryptoStep, PTL DEF CryptoSpec

(* The registry, the locks and the requests keep their types.              *)
THEOREM CryptoTypes == CryptoSpec => []CryptoTypeOK
<1>1. CryptoInv => CryptoTypeOK
  BY DEF CryptoInv
<1> QED
  BY <1>1, CryptoAlways, PTL

(* However many requests register and link devices at the same time, all   *)
(* trust comes from one device (BeginFirst, Approve).                      *)
THEOREM TrustHasOneRoot == CryptoSpec => []TrustRooted
<1>1. CryptoInv => TrustRooted
  BY DEF CryptoInv
<1> QED
  BY <1>1, CryptoAlways, PTL

(* No published bundle is replaced by one whose publisher had not read it  *)
(* (WritePublish).                                                         *)
THEOREM PublicationsKept == CryptoSpec => []NoPublishLost
<1>1. CryptoInv => NoPublishLost
  BY DEF CryptoInv
<1> QED
  BY <1>1, CryptoAlways, PTL

(* One challenge, one bundle: a proof is over the version its bundle       *)
(* replaces, and versions are not repeated (CheckPublish).                 *)
THEOREM ChallengesSpentOnce == CryptoSpec => []ChallengeSpentOnce
<1>1. CryptoInv => ChallengeSpentOnce
  <2> SUFFICES ASSUME CryptoInv, NEW d \in Devices, NEW m \in 1..Version(d), NEW n \in 1..Version(d),
                      bundles[d][m].proof # NoProof, bundles[d][m].proof = bundles[d][n].proof
               PROVE  m = n
    BY DEF ChallengeSpentOnce
  <2>1. bundles[d][m].proof.over = m - 1 /\ bundles[d][n].proof.over = n - 1
    BY DEF CryptoInv, BundlesOK
  <2>2. Version(d) \in Nat
    BY DEF CryptoInv, CryptoTypeOK, Version
  <2> QED
    BY <2>1, <2>2
<1> QED
  BY <1>1, CryptoAlways, PTL

(* No step brings a revoked device back or changes who activated a device  *)
(* (RegisterFirst, Approve).                                               *)
THEOREM RevocationIsFinal == CryptoSpec => RevokedForGood
<1>1. CryptoInv /\ [CryptoNext]_cryptoVars
        => [\A d \in Devices : /\ device[d] = "revoked" => device'[d] = "revoked"
                               /\ Activated(d) => activatedBy'[d] = activatedBy[d]]_cryptoVars
  <2> SUFFICES ASSUME CryptoInv, CryptoNext, NEW d \in Devices
               PROVE  /\ device[d] = "revoked" => device'[d] = "revoked"
                      /\ Activated(d) => activatedBy'[d] = activatedBy[d]
    BY DEF cryptoVars
  <2>1. CryptoTypeOK /\ DevicesOK
    BY DEF CryptoInv
  <2>2. ASSUME NEW r \in Handlers, RequestStep(r)
        PROVE  /\ device[d] = "revoked" => device'[d] = "revoked"
               /\ Activated(d) => activatedBy'[d] = activatedBy[d]
    <3>1. CASE UNCHANGED <<device, activatedBy>>
      BY <3>1
    <3>2. ASSUME NEW e \in Devices, RegisterFirst(r, e)
          PROVE  /\ device[d] = "revoked" => device'[d] = "revoked"
                 /\ Activated(d) => activatedBy'[d] = activatedBy[d]
      BY <3>2, <2>1 DEF RegisterFirst, CryptoTypeOK, DevicesOK
    <3>3. ASSUME NEW e \in Devices, RegisterPending(r, e)
          PROVE  /\ device[d] = "revoked" => device'[d] = "revoked"
                 /\ Activated(d) => activatedBy'[d] = activatedBy[d]
      BY <3>3, <2>1 DEF RegisterPending, CryptoTypeOK
    <3>4. CASE Approve(r)
      <4>1. PICK e : e = call[r].device
        OBVIOUS
      <4>2. /\ device[e] = "pending_link" /\ device' = [device EXCEPT ![e] = "active"]
            /\ activatedBy' = [activatedBy EXCEPT ![e] = call[r].approver]
        BY <3>4, <4>1 DEF Approve, StillPending
      <4>3. d = e => ~Activated(d)
        BY <4>2, <2>1 DEF DevicesOK
      <4> QED
        BY <4>2, <4>3, <2>1 DEF CryptoTypeOK
    <3> QED
      BY <2>2, <3>1, <3>2, <3>3, <3>4 DEF RequestStep, Refuse, BeginFirst, BeginPending, BeginChallenge,
         BeginPublish, BeginIntent, UpsertChallenge, CheckPublish, WritePublish, CommitPublish, CreateIntent,
         BeginApprove, registryVars
  <2>3. ASSUME NEW e \in Devices, RevokeCryptoDevice(e)
        PROVE  /\ device[d] = "revoked" => device'[d] = "revoked"
               /\ Activated(d) => activatedBy'[d] = activatedBy[d]
    BY <2>3, <2>1 DEF RevokeCryptoDevice, CryptoTypeOK
  <2> QED
    BY <2>2, <2>3 DEF CryptoNext, ListIntents, ExpireIntent
<1> QED
  BY <1>1, CryptoAlways, PTL DEF CryptoSpec, RevokedForGood

-----------------------------------------------------------------------------
(* The social graph.                                                       *)

OneDirection == \A l \in Ties : l \in asked => <<l[2], l[1]>> \notin asked
Consent == [\A l \in Ties : ~Friends(l) /\ Friends(l)' =>
               Both(l) \cap asked # {} /\ Both(l) \cap asked' = {}]_socialVars

SocialInv == SocialTypeOK /\ OneDirection

(* A pair written either way.                                              *)
LEMMA TiesReverse ==
    ASSUME NEW l \in Ties
    PROVE  /\ l = <<l[1], l[2]>> /\ <<l[2], l[1]>> \in Ties
           /\ Both(l) = {l, <<l[2], l[1]>>}
           /\ \A k \in Ties : k \in Both(l) <=> Pair(k[1], k[2]) = Pair(l[1], l[2])
<1>1. l = <<l[1], l[2]>> /\ l[1] \in People /\ l[2] \in People /\ l[1] # l[2]
  BY DEF Ties
<1>2. <<l[2], l[1]>> \in Ties
  BY <1>1 DEF Ties
<1>3. ASSUME NEW k \in Ties
      PROVE  k \in Both(l) <=> Pair(k[1], k[2]) = Pair(l[1], l[2])
  <2>1. k = <<k[1], k[2]>> /\ k[1] # k[2]
    BY DEF Ties
  <2>2. ASSUME Pair(k[1], k[2]) = Pair(l[1], l[2])
        PROVE  (k[1] = l[1] /\ k[2] = l[2]) \/ (k[1] = l[2] /\ k[2] = l[1])
    <3>1. k[1] \in {l[1], l[2]} /\ k[2] \in {l[1], l[2]}
      BY <2>2 DEF Pair
    <3> QED
      BY <2>1, <3>1
  <2>3. ASSUME (k[1] = l[1] /\ k[2] = l[2]) \/ (k[1] = l[2] /\ k[2] = l[1])
        PROVE  Pair(k[1], k[2]) = Pair(l[1], l[2])
    BY <2>3 DEF Pair
  <2> QED
    BY <1>1, <2>1, <2>2, <2>3 DEF Both
<1> QED
  BY <1>1, <1>2, <1>3 DEF Both

LEMMA SocialInitially == SocialInit => SocialInv
BY DEF SocialInit, SocialInv, SocialTypeOK, OneDirection

LEMMA SocialStepKeeps == SocialInv /\ [SocialNext]_socialVars => SocialInv'
<1> SUFFICES ASSUME SocialInv, [SocialNext]_socialVars PROVE SocialInv'
  OBVIOUS
<1>1. SocialTypeOK /\ OneDirection
  BY DEF SocialInv
<1>2. ASSUME NEW p \in Askers, NEW q \in Asking \cup {NoAsk}, ask' = [ask EXCEPT ![p] = q]
      PROVE  ask' \in [Askers -> Asking \cup {NoAsk}]
  BY <1>1, <1>2 DEF SocialTypeOK
<1>3. \A p \in Askers : Answered(p) => ask' \in [Askers -> Asking \cup {NoAsk}]
  BY <1>2 DEF Answered
<1>4. ASSUME NEW p \in Askers, ask[p] # NoAsk
      PROVE  ask[p] \in Asking /\ ask[p].tie \in Ties
  BY <1>1, <1>4 DEF SocialTypeOK, Asking
<1>5. ASSUME NEW p \in Askers, NEW l \in Ties, NEW op \in {"send", "accept"}, Begins(p, op, l)
      PROVE  SocialInv'
  <2>1. [op |-> op, tie |-> l, gone |-> {}, parted |-> FALSE] \in Asking
    BY DEF Asking
  <2> QED
    BY <1>1, <1>2, <1>5, <2>1 DEF Begins, SocialInv, SocialTypeOK, OneDirection
<1>6. ASSUME NEW p \in Askers, NEW l \in Ties, BlockUser(p, l)
      PROVE  SocialInv'
  <2> DEFINE a == [op |-> "block", tie |-> l, gone |-> Both(l) \cap asked, parted |-> Friends(l)]
  <2>1. Both(l) \cap asked \in SUBSET Ties /\ Friends(l) \in BOOLEAN
    BY <1>1 DEF SocialTypeOK, Friends
  <2>2. a \in Asking
    BY <2>1 DEF Asking
  <2>3. ask' = [ask EXCEPT ![p] = a] /\ UNCHANGED <<asked, friends, blocked>>
    BY <1>6 DEF BlockUser
  <2> HIDE DEF a
  <2> QED
    BY <1>1, <1>2, <2>2, <2>3 DEF SocialInv, SocialTypeOK, OneDirection
<1>7. ASSUME NEW p \in Askers, Refused(p)
      PROVE  SocialInv'
  BY <1>1, <1>3, <1>7 DEF Refused, SocialInv, SocialTypeOK, OneDirection
<1>8. ASSUME NEW p \in Askers, CreateFriendRequest(p)
      PROVE  SocialInv'
  <2>1. PICK l \in Ties : l = ask[p].tie
    BY <1>4, <1>8 DEF CreateFriendRequest
  <2>2. Both(l) \cap asked = {} /\ asked' = asked \cup {l} /\ UNCHANGED <<friends, blocked>> /\ Answered(p)
    BY <1>8, <2>1 DEF CreateFriendRequest
  <2>3. OneDirection'
    <3> SUFFICES ASSUME NEW k \in Ties, k \in asked', <<k[2], k[1]>> \in asked'
                 PROVE  FALSE
      BY DEF OneDirection
    <3>1. /\ k = <<k[1], k[2]>> /\ l = <<l[1], l[2]>> /\ k[1] # k[2]
          /\ l \notin asked /\ <<l[2], l[1]>> \notin asked
      BY <2>2, TiesReverse DEF Ties, Both
    <3>2. ~(k \in asked /\ <<k[2], k[1]>> \in asked)
      BY <1>1 DEF OneDirection
    <3> QED
      BY <2>2, <3>1, <3>2
  <2> QED
    BY <1>1, <1>3, <2>2, <2>3 DEF SocialInv, SocialTypeOK
<1>9. ASSUME NEW p \in Askers, CreateFriendship(p)
      PROVE  SocialInv'
  <2>1. PICK l \in Ties : l = ask[p].tie
    BY <1>4, <1>9 DEF CreateFriendship
  <2>2. asked' = asked \ {l} /\ friends' = friends \cup {Pair(l[1], l[2])} /\ UNCHANGED blocked /\ Answered(p)
    BY <1>9, <2>1 DEF CreateFriendship
  <2> QED
    BY <1>1, <1>3, <2>2 DEF SocialInv, SocialTypeOK, OneDirection
<1>10. ASSUME NEW p \in Askers, CommitBlock(p)
       PROVE  SocialInv'
  <2>1. PICK l \in Ties : l = ask[p].tie
    BY <1>4, <1>10 DEF CommitBlock
  <2>2. asked' \subseteq asked /\ friends' \subseteq friends /\ blocked' = blocked \cup {l} /\ Answered(p)
    BY <1>10, <2>1 DEF CommitBlock
  <2> QED
    BY <1>1, <1>3, <2>1, <2>2 DEF SocialInv, SocialTypeOK, OneDirection
<1>11. ASSUME NEW l \in Ties, DeleteFriendRequest(l) \/ RemoveFriend(l) \/ UnblockUser(l)
       PROVE  SocialInv'
  BY <1>1, <1>11 DEF DeleteFriendRequest, RemoveFriend, UnblockUser, SocialInv, SocialTypeOK, OneDirection
<1>12. CASE UNCHANGED socialVars
  BY <1>1, <1>12 DEF socialVars, SocialInv, SocialTypeOK, OneDirection
<1> QED
  BY <1>5, <1>6, <1>7, <1>8, <1>9, <1>10, <1>11, <1>12
  DEF SocialNext, SocialStep, SendFriendRequest, AcceptFriendRequest

LEMMA ConsentStep == SocialInv /\ [SocialNext]_socialVars => Consent
<1> SUFFICES ASSUME SocialInv, SocialNext, NEW k \in Ties, ~Friends(k), Friends(k)'
             PROVE  Both(k) \cap asked # {} /\ Both(k) \cap asked' = {}
  BY DEF Consent, socialVars
<1>1. PICK p \in Askers : CreateFriendship(p)
  BY DEF SocialNext, SocialStep, SendFriendRequest, AcceptFriendRequest, BlockUser, Refused, CreateFriendRequest,
     CommitBlock, DeleteFriendRequest, RemoveFriend, UnblockUser, Begins, Friends
<1>2. ask[p] \in Asking /\ ask[p].tie \in Ties
  BY <1>1 DEF CreateFriendship, SocialInv, SocialTypeOK, Asking
<1>3. PICK l \in Ties : l = ask[p].tie
  BY <1>2
<1>4. l \in asked /\ asked' = asked \ {l} /\ friends' = friends \cup {Pair(l[1], l[2])}
  BY <1>1, <1>3 DEF CreateFriendship, RequestDeleted
<1>5. Pair(k[1], k[2]) = Pair(l[1], l[2])
  BY <1>4 DEF Friends
<1>6. l \in Both(k) /\ Both(k) = Both(l)
  <2>1. l \in Both(k) /\ k \in Both(l)
    BY <1>5, TiesReverse
  <2> QED
    BY <2>1, TiesReverse DEF Both, Ties
<1>7. <<l[2], l[1]>> \notin asked
  BY <1>4 DEF SocialInv, OneDirection
<1> QED
  BY <1>4, <1>6, <1>7 DEF Both

(* Every friendship uses up a request that is still there, and nobody asks *)
(* somebody who is asking them (AcceptFriendRequest, SendFriendRequest).   *)
THEOREM FriendshipNeedsConsent == SocialSpec => FriendsByConsent
<1>1. SocialSpec => []SocialInv
  BY SocialInitially, SocialStepKeeps, PTL DEF SocialSpec
<1>2. SocialInv => OneDirection
  BY DEF SocialInv
<1> QED
  BY <1>1, <1>2, ConsentStep, PTL DEF SocialSpec, FriendsByConsent, OneDirection, Consent

-----------------------------------------------------------------------------
(* The limiter of logins and registrations.                                *)
Bucket(k) == [credit: 0..Full[k], age: 0..Horizon, inFlight: Nat]
AdmittedOn(k) == {q \in Callers : k \in admitted[q]}

LimiterInv ==
    /\ DOMAIN buckets \subseteq Keys
    /\ \A k \in DOMAIN buckets : buckets[k] \in Bucket(k)
    /\ admitted \in [Callers -> SUBSET Keys]
    /\ \A k \in Keys :
          /\ IsFiniteSet(AdmittedOn(k))
          /\ IF k \in DOMAIN buckets THEN buckets[k].inFlight = Cardinality(AdmittedOn(k))
                                     ELSE AdmittedOn(k) = {}

(* Table t says of every key what the table of the limiter says.           *)
SaysTheSame(t) ==
    /\ DOMAIN t \subseteq DOMAIN buckets
    /\ \A k \in DOMAIN t : /\ t[k] \in Bucket(k)
                           /\ t[k].inFlight = buckets[k].inFlight
                           /\ Refilled(t[k], k) = Refilled(buckets[k], k)
    /\ \A k \in DOMAIN buckets \ DOMAIN t : /\ buckets[k].inFlight = 0
                                            /\ Refilled(buckets[k], k) = Full[k]

LEMMA ProductGrows ==
    \A b, r \in Nat \ {0} : b * r \in Nat /\ r <= b * r
<1> SUFFICES ASSUME NEW b \in Nat \ {0}, NEW r \in Nat \ {0}
             PROVE  b * r \in Nat /\ r <= b * r
  OBVIOUS
<1>1. b - 1 \in Nat /\ b * r = (b - 1) * r + r
  OBVIOUS
<1>2. (b - 1) * r \in Nat
  BY <1>1
<1>3. QED
  BY <1>1, <1>2

(* A bucket holds one token at least, and is full again by the Horizon.    *)
LEMMA Amounts ==
    ASSUME NEW k \in Keys
    PROVE  /\ Full[k] \in Nat /\ Cost[k] \in Nat /\ Limit[k] \in Nat \ {0}
           /\ Cost[k] <= Full[k] /\ Full[k] <= Horizon
<1>1. k[1] \in Scopes
  BY DEF Keys, Scopes
<1>2. Burst[k[1]] \in Nat \ {0} /\ Refill[k[1]] \in Nat \ {0} /\ Burst[k[1]] * Refill[k[1]] <= Horizon
  BY <1>1, LimiterAssumption
<1>3. Full[k] = Burst[k[1]] * Refill[k[1]] /\ Cost[k] = Refill[k[1]]
  BY DEF Full, Cost
<1>4. Limit[k] \in Nat \ {0}
  BY DEF Limit
<1>5. QED
  BY <1>2, <1>3, <1>4, ProductGrows

LEMMA BucketFields ==
    ASSUME NEW C, NEW A, NEW N, NEW b \in [credit: C, age: A, inFlight: N],
           NEW c \in C, NEW a \in A, NEW n \in N
    PROVE  /\ LET e == [b EXCEPT !.credit = c, !.age = a] IN
              /\ e \in [credit: C, age: A, inFlight: N]
              /\ e.credit = c /\ e.age = a /\ e.inFlight = b.inFlight
           /\ LET e == [b EXCEPT !.credit = c, !.inFlight = n] IN
              /\ e \in [credit: C, age: A, inFlight: N]
              /\ e.credit = c /\ e.age = b.age /\ e.inFlight = n
           /\ LET e == [b EXCEPT !.inFlight = n] IN
              /\ e \in [credit: C, age: A, inFlight: N]
              /\ e.credit = b.credit /\ e.age = b.age /\ e.inFlight = n
           /\ LET e == [b EXCEPT !.age = a] IN
              /\ e \in [credit: C, age: A, inFlight: N]
              /\ e.credit = b.credit /\ e.age = a /\ e.inFlight = b.inFlight
  OBVIOUS

(* What Refilled returns, and that bringing a bucket up to date changes    *)
(* nothing of it.                                                          *)
LEMMA Refills ==
    ASSUME NEW k \in Keys, NEW b \in Bucket(k)
    PROVE  /\ Refilled(b, k) \in 0..Full[k]
           /\ UpToDate(b, k) \in Bucket(k) /\ UpToDate(b, k).age = 0
           /\ UpToDate(b, k).credit = Refilled(b, k)
           /\ UpToDate(b, k).inFlight = b.inFlight
           /\ Refilled(UpToDate(b, k), k) = Refilled(b, k)
<1>1. Full[k] \in Nat /\ Horizon \in Nat
  BY Amounts, LimiterAssumption
<1>2. b.credit \in 0..Full[k] /\ b.age \in 0..Horizon /\ b.inFlight \in Nat
  BY DEF Bucket
<1>3. Refilled(b, k) \in 0..Full[k]
  BY <1>1, <1>2 DEF Refilled
<1>4. /\ UpToDate(b, k) \in Bucket(k) /\ UpToDate(b, k).age = 0
      /\ UpToDate(b, k).credit = Refilled(b, k)
      /\ UpToDate(b, k).inFlight = b.inFlight
  <2>1. 0 \in 0..Horizon
    BY <1>1
  <2> HIDE DEF Refilled
  <2>2. QED
    BY <1>3, <2>1, BucketFields DEF UpToDate, Bucket
<1>5. Refilled(UpToDate(b, k), k) = Refilled(b, k)
  <2>1. \A x \in 0..Full[k] : (IF x + 0 <= Full[k] THEN x + 0 ELSE Full[k]) = x
    BY <1>1
  <2>2. Refilled(UpToDate(b, k), k) =
           IF Refilled(b, k) + 0 <= Full[k] THEN Refilled(b, k) + 0 ELSE Full[k]
    BY <1>4 DEF Refilled
  <2>3. QED
    BY <1>3, <2>1, <2>2
<1>6. QED
  BY <1>3, <1>4, <1>5

LEMMA TouchedSays ==
    ASSUME LimiterInv, NEW K \in SUBSET Keys
    PROVE  /\ SaysTheSame(Touched(K)) /\ DOMAIN Touched(K) = DOMAIN buckets
           /\ \A k \in K \cap DOMAIN buckets :
                 /\ Touched(K)[k].age = 0
                 /\ Touched(K)[k].credit = Refilled(buckets[k], k)
<1>1. /\ DOMAIN Touched(K) = DOMAIN buckets
      /\ \A k \in DOMAIN buckets :
            Touched(K)[k] = IF k \in K THEN UpToDate(buckets[k], k) ELSE buckets[k]
  BY DEF Touched
<1>2. \A k \in DOMAIN buckets : k \in Keys /\ buckets[k] \in Bucket(k)
  BY DEF LimiterInv
<1>3. QED
  BY <1>1, <1>2, Refills DEF SaysTheSame

(* What is asked for is never forgotten: it has just been used.            *)
LEMMA RoomySays ==
    ASSUME LimiterInv, NEW K \in SUBSET Keys
    PROVE  /\ SaysTheSame(Roomy(K))
           /\ \A k \in K \cap DOMAIN buckets :
                 k \in DOMAIN Roomy(K) /\ Roomy(K)[k].credit = Refilled(buckets[k], k)
                                       /\ Roomy(K)[k].age = 0
<1> DEFINE t == Touched(K)
<1>1. /\ SaysTheSame(t) /\ DOMAIN t = DOMAIN buckets
      /\ \A k \in K \cap DOMAIN buckets : t[k].age = 0 /\ t[k].credit = Refilled(buckets[k], k)
  BY TouchedSays
<1> HIDE DEF t
<1>2. CASE Roomy(K) = t
  BY <1>1, <1>2
<1>3. CASE Roomy(K) = Restrict(t, {k \in DOMAIN t : ~Forgotten(t, k)})
  <2>1. /\ DOMAIN Roomy(K) = {k \in DOMAIN t : ~Forgotten(t, k)}
        /\ \A k \in DOMAIN Roomy(K) : Roomy(K)[k] = t[k]
    BY <1>3 DEF Restrict
  <2>2. \A k \in K \cap DOMAIN buckets : ~Forgotten(t, k)
    BY <1>1, LimiterAssumption DEF Forgotten
  <2>3. ASSUME NEW k \in DOMAIN buckets, Forgotten(t, k)
        PROVE  buckets[k].inFlight = 0 /\ Refilled(buckets[k], k) = Full[k]
    <3>1. k \in Keys /\ buckets[k] \in Bucket(k)
      BY DEF LimiterInv
    <3>2. Refilled(buckets[k], k) \in 0..Full[k] /\ Full[k] \in Nat
      BY <3>1, Refills, Amounts
    <3>3. /\ t[k].inFlight = buckets[k].inFlight
          /\ Refilled(t[k], k) = Refilled(buckets[k], k)
      BY <1>1 DEF SaysTheSame
    <3>4. t[k].inFlight = 0 /\ Refilled(t[k], k) >= Full[k]
      BY <2>3 DEF Forgotten
    <3>5. QED
      BY <3>2, <3>3, <3>4
  <2>4. QED
    BY <1>1, <2>1, <2>2, <2>3 DEF SaysTheSame
<1>4. QED
  BY <1>2, <1>3 DEF Roomy, MakeRoom, t

(* A table that says the same may take the place of the old one.           *)
LEMMA TableStep ==
    ASSUME LimiterInv, SaysTheSame(buckets'), admitted' = admitted
    PROVE  LimiterInv' /\ Credit' = Credit
<1>1. \A k \in Keys : AdmittedOn(k)' = AdmittedOn(k)
  BY DEF AdmittedOn
<1>2. ASSUME NEW k \in Keys, k \in DOMAIN buckets, k \notin DOMAIN buckets'
      PROVE  AdmittedOn(k) = {}
  <2>1. Cardinality(AdmittedOn(k)) = 0 /\ IsFiniteSet(AdmittedOn(k))
    BY <1>2 DEF LimiterInv, SaysTheSame
  <2>2. QED
    BY <2>1, FS_EmptySet
<1>3. \A k \in DOMAIN buckets' : /\ k \in DOMAIN buckets /\ buckets'[k] \in Bucket(k)
                                 /\ buckets'[k].inFlight = buckets[k].inFlight
                                 /\ Refilled(buckets'[k], k) = Refilled(buckets[k], k)
  BY DEF SaysTheSame
<1>4. LimiterInv'
  BY <1>1, <1>2, <1>3 DEF LimiterInv, Bucket
<1>5. Credit' = [k \in Keys |-> IF k \in DOMAIN buckets' THEN Refilled(buckets'[k], k) ELSE Full[k]]
  BY DEF Credit, Refilled
<1>6. Credit' = Credit
  BY <1>3, <1>5 DEF Credit, SaysTheSame
<1>7. QED
  BY <1>4, <1>6

-----------------------------------------------------------------------------
(* Requests come and go.                                                   *)
LEMMA KeysAsked ==
    ASSUME NEW operation \in {"login", "register"}, NEW a \in Addresses, NEW n \in Logins
    PROVE  KeysOf(operation, a, n) \in SUBSET Keys
  BY DEF KeysOf, Keys

(* The contract counts as the limiter does.                                *)
LEMMA SameCardinality ==
    \A S : Budget!Cardinality(S) = Cardinality(S)
  BY Zenon DEF Budget!Cardinality, Cardinality

LEMMA AcquireStep ==
    ASSUME LimiterInv, NEW q \in Callers, NEW operation \in {"login", "register"},
           NEW a \in Addresses, NEW n \in Logins, Acquire(q, operation, a, n)
    PROVE  LimiterInv' /\ Budget!Admit(q, KeysOf(operation, a, n))
<1> DEFINE K == KeysOf(operation, a, n)
           new == K \ DOMAIN buckets
           room == Roomy(K)
<1>1. K \in SUBSET Keys
  BY KeysAsked
<1> HIDE DEF K
<1>2. /\ admitted[q] = {}
      /\ \A k \in K : Passes(k)
      /\ buckets' = [k \in DOMAIN room \cup new |->
                        IF k \in new THEN Charged(Fresh(k), k)
                        ELSE IF k \in K THEN Charged(room[k], k) ELSE room[k]]
      /\ admitted' = [admitted EXCEPT ![q] = K]
  BY DEF Acquire, K
<1>3. /\ SaysTheSame(room)
      /\ \A k \in K \cap DOMAIN buckets :
            k \in DOMAIN room /\ room[k].credit = Refilled(buckets[k], k) /\ room[k].age = 0
  BY <1>1, RoomySays
<1> HIDE DEF room
<1>4. /\ DOMAIN buckets' = DOMAIN room \cup new
      /\ \A k \in new : buckets'[k] = Charged(Fresh(k), k)
      /\ \A k \in K \cap DOMAIN buckets : buckets'[k] = Charged(room[k], k)
      /\ \A k \in DOMAIN room \ K : buckets'[k] = room[k]
  <2>1. K \cap DOMAIN buckets \subseteq DOMAIN room /\ DOMAIN room \subseteq DOMAIN buckets
    BY <1>3 DEF SaysTheSame
  <2>2. QED
    BY <1>2, <2>1
<1>5. admitted \in [Callers -> SUBSET Keys] /\ DOMAIN buckets \subseteq Keys
  BY DEF LimiterInv
<1>6. /\ admitted'[q] = K /\ \A r \in Callers : r # q => admitted'[r] = admitted[r]
      /\ admitted' \in [Callers -> SUBSET Keys]
  BY <1>1, <1>2, <1>5
<1>7. \A k \in Keys : AdmittedOn(k)' = IF k \in K THEN AdmittedOn(k) \cup {q} ELSE AdmittedOn(k)
  BY <1>2, <1>5, <1>6 DEF AdmittedOn
<1>8. \A k \in Keys : q \notin AdmittedOn(k) /\ IsFiniteSet(AdmittedOn(k))
  BY <1>2 DEF AdmittedOn, LimiterInv
<1>9. \A k \in K : /\ IsFiniteSet(AdmittedOn(k)') /\ Cardinality(AdmittedOn(k)) \in Nat
                    /\ Cardinality(AdmittedOn(k)') = Cardinality(AdmittedOn(k)) + 1
  BY <1>1, <1>7, <1>8, FS_AddElement, FS_CardinalityType
<1>10. ASSUME NEW k \in new
       PROVE  /\ buckets'[k] \in Bucket(k)
              /\ buckets'[k].inFlight = 1 /\ AdmittedOn(k) = {} /\ Cardinality(AdmittedOn(k)) = 0
              /\ buckets'[k].credit = Full[k] - Cost[k] /\ buckets'[k].age = 0
  <2>1. /\ k \in Keys /\ Full[k] \in Nat /\ Cost[k] \in Nat /\ Cost[k] <= Full[k] /\ Horizon \in Nat
    BY <1>1, Amounts, LimiterAssumption
  <2>2. buckets'[k] = [credit |-> Full[k] - Cost[k], age |-> 0, inFlight |-> 1]
    <3>1. Fresh(k).inFlight + 1 = 1
      BY DEF Fresh
    <3>2. QED
      BY <1>4, <3>1 DEF Charged, Fresh
  <2>3. AdmittedOn(k) = {} /\ Cardinality(AdmittedOn(k)) = 0
    BY <2>1, FS_EmptySet DEF LimiterInv
  <2>4. QED
    BY <2>1, <2>2, <2>3 DEF Bucket
<1>11. ASSUME NEW k \in K \cap DOMAIN buckets
       PROVE  /\ buckets'[k] \in Bucket(k)
              /\ buckets'[k].inFlight = buckets[k].inFlight + 1
              /\ buckets'[k].credit = Refilled(buckets[k], k) - Cost[k] /\ buckets'[k].age = 0
              /\ Refilled(buckets[k], k) >= Cost[k] /\ buckets[k].inFlight < Limit[k]
              /\ Refilled(buckets[k], k) \in 0..Full[k]
  <2>1. /\ k \in Keys /\ Full[k] \in Nat /\ Cost[k] \in Nat /\ Horizon \in Nat
    BY <1>1, Amounts, LimiterAssumption
  <2>2. buckets[k] \in Bucket(k) /\ Refilled(buckets[k], k) \in 0..Full[k]
    BY <2>1, Refills DEF LimiterInv
  <2>3. Refilled(buckets[k], k) >= Cost[k] /\ buckets[k].inFlight < Limit[k]
    BY <1>2 DEF Passes
  <2>4. /\ room[k] \in Bucket(k) /\ room[k].inFlight = buckets[k].inFlight
        /\ room[k].credit = Refilled(buckets[k], k) /\ room[k].age = 0
    BY <1>3 DEF SaysTheSame
  <2>5. buckets'[k] = [room[k] EXCEPT !.credit = room[k].credit - Cost[k],
                                     !.inFlight = room[k].inFlight + 1]
    BY <1>4 DEF Charged
  <2>6. room[k].credit - Cost[k] \in 0..Full[k] /\ room[k].inFlight + 1 \in Nat
    BY <2>1, <2>2, <2>3, <2>4 DEF Bucket
  <2>7. /\ buckets'[k] \in Bucket(k)
        /\ buckets'[k].inFlight = room[k].inFlight + 1
        /\ buckets'[k].credit = room[k].credit - Cost[k] /\ buckets'[k].age = room[k].age
    <3> DEFINE c == room[k].credit - Cost[k]
               m == room[k].inFlight + 1
    <3>1. buckets'[k] = [room[k] EXCEPT !.credit = c, !.inFlight = m] /\ c \in 0..Full[k] /\ m \in Nat
      BY <2>5, <2>6
    <3> HIDE DEF c, m
    <3>2. /\ buckets'[k] \in Bucket(k)
          /\ buckets'[k].inFlight = m /\ buckets'[k].credit = c /\ buckets'[k].age = room[k].age
      BY <2>4, <3>1 DEF Bucket
    <3>3. QED
      BY <3>2 DEF c, m
  <2>8. QED
    BY <2>2, <2>3, <2>4, <2>7
<1>12. \A k \in DOMAIN room \ K : /\ k \in DOMAIN buckets /\ buckets'[k] \in Bucket(k)
                                  /\ buckets'[k].inFlight = buckets[k].inFlight
                                  /\ Refilled(buckets'[k], k) = Refilled(buckets[k], k)
  BY <1>3, <1>4 DEF SaysTheSame
<1>13. \A k \in DOMAIN buckets : k \notin DOMAIN buckets' =>
          k \notin K /\ buckets[k].inFlight = 0 /\ Refilled(buckets[k], k) = Full[k]
  BY <1>3, <1>4 DEF SaysTheSame
<1>14. LimiterInv'
  <2>1. DOMAIN buckets' \subseteq Keys
    BY <1>1, <1>3, <1>4, <1>5 DEF SaysTheSame
  <2>2. \A k \in DOMAIN buckets' : buckets'[k] \in Bucket(k)
    BY <1>4, <1>10, <1>11, <1>12
  <2>3. ASSUME NEW k \in Keys
        PROVE  /\ IsFiniteSet(AdmittedOn(k)')
               /\ IF k \in DOMAIN buckets' THEN buckets'[k].inFlight = Cardinality(AdmittedOn(k)')
                                            ELSE AdmittedOn(k)' = {}
    <3>1. IF k \in DOMAIN buckets THEN buckets[k].inFlight = Cardinality(AdmittedOn(k))
                                   ELSE AdmittedOn(k) = {}
      BY DEF LimiterInv
    <3>2. CASE k \in new
      <4>1. Cardinality(AdmittedOn(k)') = 1 /\ IsFiniteSet(AdmittedOn(k)')
        BY <1>9, <1>10, <3>2
      <4>2. QED
        BY <1>4, <1>10, <3>2, <4>1
    <3>3. CASE k \in K \cap DOMAIN buckets
      <4>1. k \in DOMAIN buckets' /\ buckets'[k].inFlight = buckets[k].inFlight + 1
        BY <1>3, <1>4, <1>11, <3>3
      <4>2. QED
        BY <1>9, <3>1, <3>3, <4>1
    <3>4. CASE k \in DOMAIN room \ K
      BY <1>4, <1>7, <1>8, <1>12, <3>1, <3>4
    <3>5. CASE k \notin DOMAIN room /\ k \notin K
      <4>1. AdmittedOn(k) = {}
        <5>1. k \in DOMAIN buckets => Cardinality(AdmittedOn(k)) = 0
          BY <1>4, <1>13, <3>1, <3>5
        <5>2. QED
          BY <1>8, <3>1, <5>1, FS_EmptySet
      <4>2. QED
        BY <1>4, <1>7, <1>8, <3>5, <4>1
    <3>6. QED
      BY <1>3, <3>2, <3>3, <3>4, <3>5
  <2>4. QED
    BY <1>6, <2>1, <2>2, <2>3 DEF LimiterInv, Bucket
<1>15. ASSUME NEW k \in Keys
       PROVE  /\ Credit'[k] = IF k \in K THEN Credit[k] - Cost[k] ELSE Credit[k]
              /\ k \in K => Credit[k] >= Cost[k] /\ Cardinality(AdmittedOn(k)) < Limit[k]
  <2>1. /\ Credit'[k] = IF k \in DOMAIN buckets' THEN Refilled(buckets'[k], k) ELSE Full[k]
        /\ Credit[k] = IF k \in DOMAIN buckets THEN Refilled(buckets[k], k) ELSE Full[k]
    BY DEF Credit, Refilled
  <2>2. Full[k] \in Nat /\ Cost[k] \in Nat /\ Limit[k] \in Nat \ {0} /\ Cost[k] <= Full[k]
    BY Amounts
  <2>3. CASE k \in new
    <3>1. Refilled(buckets'[k], k) = Full[k] - Cost[k]
      BY <1>10, <2>2, <2>3 DEF Refilled
    <3>2. QED
      BY <1>4, <1>10, <2>1, <2>2, <2>3, <3>1
  <2>4. CASE k \in K \cap DOMAIN buckets
    <3>1. k \in DOMAIN buckets' /\ buckets[k].inFlight = Cardinality(AdmittedOn(k))
      BY <1>3, <1>4, <2>4 DEF LimiterInv
    <3>2. Refilled(buckets'[k], k) = Refilled(buckets[k], k) - Cost[k]
      <4>1. Refilled(buckets'[k], k) = IF buckets'[k].credit + 0 <= Full[k] THEN buckets'[k].credit + 0
                                                                          ELSE Full[k]
        BY <1>11, <2>4 DEF Refilled
      <4>2. QED
        BY <1>11, <2>2, <2>4, <4>1
    <3>3. QED
      BY <1>11, <2>1, <2>4, <3>1, <3>2
  <2>5. CASE k \in DOMAIN room \ K
    BY <1>4, <1>12, <2>1, <2>5
  <2>6. CASE k \notin DOMAIN room /\ k \notin K
    BY <1>4, <1>13, <2>1, <2>6
  <2>7. QED
    BY <1>3, <2>3, <2>4, <2>5, <2>6
<1>16. Budget!Admit(q, K)
  <2>1. Credit' = [k \in Keys |-> IF k \in K THEN Credit[k] - Cost[k] ELSE Credit[k]]
    <3>1. Credit' = [k \in Keys |-> Credit'[k]]
      BY DEF Credit
    <3>2. QED
      BY <1>15, <3>1
  <2>2. \A k \in K : Credit[k] >= Cost[k] /\ Cardinality(Budget!InFlight(k)) < Limit[k]
    BY <1>1, <1>15 DEF Budget!InFlight, AdmittedOn
  <2>3. QED
    BY <1>2, <2>1, <2>2, SameCardinality DEF Budget!Admit
<1>17. QED
  BY <1>14, <1>16 DEF K

LEMMA ReleaseStep ==
    ASSUME LimiterInv, NEW q \in Callers, Release(q)
    PROVE  LimiterInv' /\ Budget!Finish(q)
<1> DEFINE K == admitted[q]
<1>1. /\ buckets' = [k \in DOMAIN buckets |->
                        IF k \in K THEN [buckets[k] EXCEPT !.inFlight = @ - 1] ELSE buckets[k]]
      /\ admitted' = [admitted EXCEPT ![q] = {}]
      /\ admitted \in [Callers -> SUBSET Keys] /\ DOMAIN buckets \subseteq Keys
  BY DEF Release, LimiterInv
<1>2. \A k \in Keys : AdmittedOn(k)' = AdmittedOn(k) \ {q}
  BY <1>1 DEF AdmittedOn
<1>3. /\ DOMAIN buckets' = DOMAIN buckets
      /\ \A k \in K \cap DOMAIN buckets : buckets'[k] = [buckets[k] EXCEPT !.inFlight = buckets[k].inFlight - 1]
      /\ \A k \in DOMAIN buckets \ K : buckets'[k] = buckets[k]
  BY <1>1
<1>4. \A k \in Keys : IsFiniteSet(AdmittedOn(k)) /\ (q \in AdmittedOn(k) <=> k \in K)
  BY DEF AdmittedOn, LimiterInv
<1>5. \A k \in Keys : k \in DOMAIN buckets => buckets[k].inFlight = Cardinality(AdmittedOn(k))
  BY DEF LimiterInv
<1> HIDE DEF K
<1>6. ASSUME NEW k \in DOMAIN buckets
      PROVE  /\ buckets'[k] \in Bucket(k) /\ IsFiniteSet(AdmittedOn(k)')
             /\ buckets'[k].inFlight = Cardinality(AdmittedOn(k)')
             /\ Refilled(buckets'[k], k) = Refilled(buckets[k], k)
  <2>1. k \in Keys /\ buckets[k] \in Bucket(k)
    BY DEF LimiterInv
  <2>2. CASE k \in K
    <3>1. /\ Cardinality(AdmittedOn(k)) \in Nat /\ Cardinality(AdmittedOn(k)) # 0
          /\ IsFiniteSet(AdmittedOn(k) \ {q})
          /\ Cardinality(AdmittedOn(k) \ {q}) = Cardinality(AdmittedOn(k)) - 1
      BY <1>4, <2>1, <2>2, FS_RemoveElement, FS_EmptySet, FS_CardinalityType
    <3>2. buckets[k].inFlight - 1 \in Nat
      BY <1>5, <2>1, <3>1
    <3> DEFINE m == buckets[k].inFlight - 1
    <3>3. buckets'[k] = [buckets[k] EXCEPT !.inFlight = m] /\ m \in Nat
      BY <1>3, <2>2, <3>2
    <3> HIDE DEF m
    <3>4. /\ buckets'[k] \in Bucket(k) /\ buckets'[k].inFlight = m
          /\ buckets'[k].credit = buckets[k].credit /\ buckets'[k].age = buckets[k].age
      BY <2>1, <3>3 DEF Bucket
    <3>5. QED
      BY <1>2, <1>5, <2>1, <3>1, <3>4 DEF m, Refilled
  <2>3. CASE k \notin K
    <3>1. AdmittedOn(k)' = AdmittedOn(k)
      BY <1>2, <1>4, <2>1, <2>3
    <3>2. QED
      BY <1>3, <1>4, <1>5, <2>1, <2>3, <3>1
  <2>4. QED
    BY <2>2, <2>3
<1>7. \A k \in Keys \ DOMAIN buckets : AdmittedOn(k)' = {} /\ IsFiniteSet(AdmittedOn(k)')
  BY <1>2, FS_EmptySet DEF LimiterInv
<1>8. admitted' \in [Callers -> SUBSET Keys]
  BY <1>1
<1>9. LimiterInv'
  BY <1>1, <1>3, <1>6, <1>7, <1>8 DEF LimiterInv, Bucket
<1>10. Credit' = Credit
  <2>1. Credit' = [k \in Keys |-> IF k \in DOMAIN buckets' THEN Refilled(buckets'[k], k) ELSE Full[k]]
    BY DEF Credit, Refilled
  <2>2. QED
    BY <1>3, <1>6, <2>1 DEF Credit
<1>11. QED
  BY <1>1, <1>9, <1>10 DEF Budget!Finish

LEMMA TickStep ==
    ASSUME LimiterInv, Tick
    PROVE  LimiterInv' /\ Budget!Refills
<1> DEFINE older(k) == IF buckets[k].age < Horizon THEN buckets[k].age + 1 ELSE buckets[k].age
<1>1. /\ buckets' = [k \in DOMAIN buckets |-> [buckets[k] EXCEPT !.age = older(k)]]
      /\ admitted' = admitted
  BY DEF Tick
<1>2. \A k \in Keys : AdmittedOn(k)' = AdmittedOn(k)
  BY <1>1 DEF AdmittedOn
<1>3. ASSUME NEW k \in DOMAIN buckets
      PROVE  /\ k \in Keys /\ buckets'[k] \in Bucket(k)
             /\ buckets'[k].inFlight = buckets[k].inFlight
             /\ Refilled(buckets'[k], k) = IF Refilled(buckets[k], k) < Full[k]
                                             THEN Refilled(buckets[k], k) + 1 ELSE Refilled(buckets[k], k)
  <2>1. /\ k \in Keys /\ buckets[k] \in Bucket(k)
    BY DEF LimiterInv
  <2>2. Full[k] \in Nat /\ Horizon \in Nat /\ Full[k] <= Horizon
    BY <2>1, Amounts, LimiterAssumption
  <2>3. buckets[k].age \in 0..Horizon /\ buckets[k].credit \in 0..Full[k]
    BY <2>1 DEF Bucket
  <2> DEFINE o == older(k)
  <2>4. o \in 0..Horizon
    BY <2>2, <2>3
  <2>5. buckets'[k] = [buckets[k] EXCEPT !.age = o]
    BY <1>1
  <2> HIDE DEF o
  <2>6. /\ buckets'[k] \in Bucket(k) /\ buckets'[k].inFlight = buckets[k].inFlight
        /\ buckets'[k].credit = buckets[k].credit /\ buckets'[k].age = o
    BY <2>1, <2>4, <2>5 DEF Bucket
  <2>7. QED
    BY <2>1, <2>2, <2>3, <2>6 DEF o, Refilled
<1> HIDE DEF older
<1>4. DOMAIN buckets' = DOMAIN buckets
  BY <1>1
<1>5. LimiterInv'
  BY <1>1, <1>2, <1>3, <1>4 DEF LimiterInv, Bucket
<1>6. Credit' = [k \in Keys |-> IF Credit[k] < Full[k] THEN Credit[k] + 1 ELSE Credit[k]]
  <2>1. Credit' = [k \in Keys |-> IF k \in DOMAIN buckets' THEN Refilled(buckets'[k], k) ELSE Full[k]]
    BY DEF Credit, Refilled
  <2>2. ASSUME NEW k \in Keys
        PROVE  (IF k \in DOMAIN buckets' THEN Refilled(buckets'[k], k) ELSE Full[k])
                  = (IF Credit[k] < Full[k] THEN Credit[k] + 1 ELSE Credit[k])
    <3>1. Full[k] \in Nat
      BY Amounts
    <3>2. Credit[k] = IF k \in DOMAIN buckets THEN Refilled(buckets[k], k) ELSE Full[k]
      BY DEF Credit
    <3>3. QED
      BY <1>3, <1>4, <3>1, <3>2
  <2>3. QED
    BY <2>1, <2>2
<1>7. QED
  BY <1>1, <1>5, <1>6 DEF Budget!Refills

-----------------------------------------------------------------------------
(* The limiter keeps its books: a bucket counts the requests in flight     *)
(* that were admitted on its key, and a key without a bucket has none.     *)
LEMMA LimiterStep ==
    ASSUME LimiterInv, [LimiterNext]_limiterVars
    PROVE  LimiterInv' /\ [Budget!BudgetNext]_Budget!budgetVars
<1>1. ASSUME NEW q \in Callers, Release(q)
      PROVE  LimiterInv' /\ Budget!BudgetNext
  BY <1>1, ReleaseStep DEF Budget!BudgetNext
<1>2. ASSUME NEW K \in SUBSET Keys, SaysTheSame(buckets'), admitted' = admitted
      PROVE  LimiterInv' /\ UNCHANGED Budget!budgetVars
  BY <1>2, TableStep DEF Budget!budgetVars
<1>3. ASSUME NEW a \in Addresses, NEW n \in Logins, RefuseAccount(a, n)
      PROVE  LimiterInv' /\ UNCHANGED Budget!budgetVars
  <2>1. {<<"login-account", n>>} \in SUBSET Keys
    BY DEF Keys
  <2>2. QED
    BY <1>2, <1>3, <2>1, TouchedSays DEF RefuseAccount
<1>4. ASSUME NEW a \in Addresses, NEW n \in Logins, NEW operation \in {"login", "register"},
             RefuseLate(operation, a, n) \/ RefuseFull(operation, a, n)
      PROVE  LimiterInv' /\ UNCHANGED Budget!budgetVars
  <2>1. KeysOf(operation, a, n) \in SUBSET Keys
    BY KeysAsked
  <2>2. QED
    BY <1>2, <1>4, <2>1, TouchedSays, RoomySays DEF RefuseLate, RefuseFull
<1>5. ASSUME NEW a \in Addresses, NEW n \in Logins, NEW operation \in {"login", "register"},
             NEW q \in Callers, Acquire(q, operation, a, n)
      PROVE  LimiterInv' /\ Budget!BudgetNext
  BY <1>5, AcquireStep DEF Budget!BudgetNext
<1>6. ASSUME Tick
      PROVE  LimiterInv' /\ Budget!BudgetNext
  BY <1>6, TickStep DEF Budget!BudgetNext
<1>7. ASSUME UNCHANGED limiterVars
      PROVE  LimiterInv' /\ UNCHANGED Budget!budgetVars
  <2>1. SaysTheSame(buckets') /\ admitted' = admitted
    BY <1>7 DEF limiterVars, LimiterInv, SaysTheSame
  <2>2. QED
    BY <1>2, <2>1
<1>8. QED
  BY <1>1, <1>3, <1>4, <1>5, <1>6, <1>7 DEF LimiterNext

(* docs/adr/091: the table of the limiter may forget keys, to make room,   *)
(* and still every request is admitted against the whole budget of its     *)
(* keys: as if no key was ever forgotten.                                  *)
THEOREM ForgettingIsHarmless == LimiterSpec => ForgetsNothing
<1>1. LimiterInit => LimiterInv /\ Budget!BudgetInit
  <2> SUFFICES ASSUME LimiterInit PROVE LimiterInv /\ Budget!BudgetInit
    OBVIOUS
  <2>1. buckets = <<>> /\ DOMAIN buckets = {} /\ admitted = [q \in Callers |-> {}]
    BY DEF LimiterInit
  <2>2. \A k \in Keys : AdmittedOn(k) = {} /\ IsFiniteSet(AdmittedOn(k))
    BY <2>1, FS_EmptySet DEF AdmittedOn
  <2>3. LimiterInv
    BY <2>1, <2>2 DEF LimiterInv
  <2>4. Credit = Full
    BY <2>1 DEF Credit, Full
  <2>5. QED
    BY <2>1, <2>3, <2>4 DEF Budget!BudgetInit
<1>2. LimiterInv /\ [LimiterNext]_limiterVars => LimiterInv'
  BY LimiterStep
<1>3. LimiterInv /\ [LimiterNext]_limiterVars => [Budget!BudgetNext]_Budget!budgetVars
  BY LimiterStep
<1>4. QED
  BY <1>1, <1>2, <1>3, PTL DEF LimiterSpec, ForgetsNothing, Budget!BudgetSpec

=============================================================================

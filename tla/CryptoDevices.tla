--------------------------- MODULE CryptoDevices ---------------------------
(***************************************************************************)
(* The crypto device registry of aero-identity for one user: devices,      *)
(* their versioned key bundles, the challenges for publishing a bundle and *)
(* the intents by which an active device links a new one                   *)
(* (internal/domain/identity/crypto_device_service.go over                 *)
(* internal/storage/postgres/crypto_devices.go).                           *)
(*                                                                         *)
(* Transactions are READ COMMITTED and read without locks, so a request is *)
(* a read step and, later, the statements that write.  The version of a    *)
(* bundle stands for its digest too, as the row of a version is never      *)
(* changed.  A signed proof is what its device signed: the challenge for a *)
(* bundle, the intent for a link.                                          *)
(*                                                                         *)
(* Challenges and intents run out.  That only makes a request fail, which  *)
(* any request may at any time, or an intent "expired".                    *)
(***************************************************************************)
EXTENDS Naturals, Sequences

CONSTANTS
    Devices, Intents, Handlers,
    MaxVersion,               \* bundles of a device
    MaxChallenges,            \* challenges issued for a device
    NoDevice, NoIntent, NoHandler

ASSUME CryptoAssumption ==
    /\ NoDevice \notin Devices
    /\ NoIntent \notin Intents
    /\ NoHandler \notin Handlers

VARIABLES
    device,                   \* crypto_devices.status
    activatedBy,              \* activated_at with linked_by_crypto_device_id;
                              \* the first device stands for its own NULL
    bundles,                  \* crypto_device_bundles, in the order of the versions
    challenge,                \* crypto_device_bundle_publish_challenges
    intent,                   \* crypto_device_link_intents
    ownerLock, deviceLock,    \* rows written by open transactions
    call                      \* where a request is

registryVars == <<device, activatedBy, bundles, challenge, intent>>
cryptoVars == <<registryVars, ownerLock, deviceLock, call>>

(* A challenge is for the version over; serial tells challenges apart.     *)
NoProof == [over |-> 0, serial |-> 0]
Proofs == [over: Nat, serial: Nat]

(* base is the version the publisher has read, proof what came with it.    *)
Bundles == [base: Nat, proof: Proofs]
FirstBundle == <<[base |-> 0, proof |-> NoProof]>>

NoCall == [op |-> "idle", device |-> NoDevice, intent |-> NoIntent, approver |-> NoDevice,
           version |-> 0, proof |-> NoProof, expiring |-> {}]
CallOps == {"idle", "first", "register", "challenge", "publish", "checked", "written",
            "link", "approve"}

CryptoTypeOK ==
    /\ device \in [Devices -> {"absent", "pending_link", "active", "revoked"}]
    /\ activatedBy \in [Devices -> Devices \cup {NoDevice}]
    /\ bundles \in [Devices -> Seq(Bundles)]
    /\ challenge \in [Devices -> [over: Nat, serial: Nat, live: BOOLEAN]]
    /\ intent \in [Intents -> [status: {"absent", "pending", "approved", "expired"},
                               device: Devices \cup {NoDevice}, version: Nat]]
    /\ ownerLock \in Handlers \cup {NoHandler}
    /\ deviceLock \in [Devices -> Handlers \cup {NoHandler}]
    /\ call \in [Handlers -> [op: CallOps, device: Devices \cup {NoDevice},
                              intent: Intents \cup {NoIntent}, approver: Devices \cup {NoDevice},
                              version: Nat, proof: Proofs,
                              expiring: SUBSET Intents]]

CryptoInit ==
    /\ device = [d \in Devices |-> "absent"]
    /\ activatedBy = [d \in Devices |-> NoDevice]
    /\ bundles = [d \in Devices |-> <<>>]
    /\ challenge = [d \in Devices |-> [over |-> 0, serial |-> 0, live |-> FALSE]]
    /\ intent = [i \in Intents |-> [status |-> "absent", device |-> NoDevice, version |-> 0]]
    /\ ownerLock = NoHandler
    /\ deviceLock = [d \in Devices |-> NoHandler]
    /\ call = [r \in Handlers |-> NoCall]

Version(d) == Len(bundles[d])
Start(r, c) == call[r].op = "idle" /\ call' = [call EXCEPT ![r] = c]

(* The end of a request's transaction.                                     *)
End(r) ==
    /\ call' = [call EXCEPT ![r] = NoCall]
    /\ ownerLock' = IF ownerLock = r THEN NoHandler ELSE ownerLock
    /\ deviceLock' = [d \in Devices |-> IF deviceLock[d] = r THEN NoHandler ELSE deviceLock[d]]

(* An answer that changes nothing: a check that does not hold, a lapsed    *)
(* challenge or intent, a conflict, an error of the database.  What the    *)
(* transaction has written is rolled back.                                 *)
Refuse(r) == call[r].op # "idle" /\ End(r) /\ UNCHANGED registryVars

(* Intents an open transaction has expired: others wait for its end.       *)
Held(i) == \E r \in Handlers : i \in call[r].expiring
PendingOf(d) == {i \in Intents : intent[i].status = "pending" /\ intent[i].device = d}
Expired(S) == [i \in Intents |-> IF i \in S THEN [intent[i] EXCEPT !.status = "expired"] ELSE intent[i]]

-----------------------------------------------------------------------------
(* Registration.  Only the first device locks the row of the user.         *)

LockOwner_skipped(r) == UNCHANGED ownerLock
LockOwner(r) == ownerLock = NoHandler /\ ownerLock' = r

EmptyRegistry == \A d \in Devices : device[d] = "absent"

BeginFirst(r) ==
    /\ LockOwner(r)
    /\ EmptyRegistry
    /\ Start(r, [NoCall EXCEPT !.op = "first"])
    /\ UNCHANGED <<registryVars, deviceLock>>

RegisterFirst(r, d) ==
    /\ call[r].op = "first" /\ device[d] = "absent"
    /\ device' = [device EXCEPT ![d] = "active"]
    /\ activatedBy' = [activatedBy EXCEPT ![d] = d]
    /\ bundles' = [bundles EXCEPT ![d] = FirstBundle]
    /\ End(r)
    /\ UNCHANGED <<challenge, intent>>

BeginPending(r) ==
    /\ \E d \in Devices : device[d] = "active"
    /\ Start(r, [NoCall EXCEPT !.op = "register"])
    /\ UNCHANGED <<registryVars, ownerLock, deviceLock>>

RegisterPending(r, d) ==
    /\ call[r].op = "register" /\ device[d] = "absent"
    /\ device' = [device EXCEPT ![d] = "pending_link"]
    /\ bundles' = [bundles EXCEPT ![d] = FirstBundle]
    /\ End(r)
    /\ UNCHANGED <<activatedBy, challenge, intent>>

-----------------------------------------------------------------------------
(* Publishing a bundle.                                                    *)

BeginChallenge(r, d) ==
    /\ device[d] = "active"
    /\ Start(r, [NoCall EXCEPT !.op = "challenge", !.device = d, !.version = Version(d)])
    /\ UNCHANGED <<registryVars, ownerLock, deviceLock>>

UpsertChallenge(r) ==
    LET d == call[r].device IN
    /\ call[r].op = "challenge" /\ challenge[d].serial < MaxChallenges
    /\ challenge' = [challenge EXCEPT ![d] = [over |-> call[r].version,
                                              serial |-> @.serial + 1, live |-> TRUE]]
    /\ End(r)
    /\ UNCHANGED <<device, activatedBy, bundles, intent>>

(* The service reads the status to decide whether a proof is to be passed  *)
(* on.  The client signs the challenge it was given; the row may be gone   *)
(* or another one when the transaction looks.                              *)
BeginPublish(r, d) ==
    /\ \/ /\ device[d] = "active" /\ challenge[d].live
          /\ Start(r, [NoCall EXCEPT !.op = "publish", !.device = d,
                       !.proof = [over |-> challenge[d].over, serial |-> challenge[d].serial]])
       \/ /\ device[d] = "pending_link"
          /\ Start(r, [NoCall EXCEPT !.op = "publish", !.device = d])
    /\ UNCHANGED <<registryVars, ownerLock, deviceLock>>

ProofMatches_anyChallenge(r, d) == call[r].proof # NoProof
ProofMatches(r, d) ==
    /\ call[r].proof # NoProof
    /\ challenge[d] = [over |-> call[r].proof.over, serial |-> call[r].proof.serial, live |-> TRUE]
    /\ challenge[d].over = Version(d)

(* The transaction reads the device, its current bundle and the challenge. *)
CheckPublish(r) ==
    LET d == call[r].device IN
    /\ call[r].op = "publish"
    /\ device[d] = "pending_link" \/ (device[d] = "active" /\ ProofMatches(r, d))
    /\ call' = [call EXCEPT ![r].op = "checked", ![r].version = Version(d)]
    /\ UNCHANGED <<registryVars, ownerLock, deviceLock>>

(* Its statements: the current bundle is superseded and the next version   *)
(* inserted, which only succeeds on the version that was read; the device  *)
(* is tracked and, while its row is pending_link, its intents expire.      *)
NextVersionFree_fromCurrent(r) == TRUE
NextVersionFree(r) == Version(call[r].device) = call[r].version

WritePublish(r) ==
    LET d == call[r].device
        stale == IF device[d] = "pending_link" THEN PendingOf(d) ELSE {} IN
    /\ call[r].op = "checked" /\ deviceLock[d] = NoHandler
    /\ NextVersionFree(r) /\ Version(d) < MaxVersion
    /\ \A i \in stale : ~Held(i)
    /\ deviceLock' = [deviceLock EXCEPT ![d] = r]
    /\ call' = [call EXCEPT ![r].op = "written", ![r].expiring = stale]
    /\ UNCHANGED <<registryVars, ownerLock>>

CommitPublish(r) ==
    LET d == call[r].device IN
    /\ call[r].op = "written"
    /\ bundles' = [bundles EXCEPT ![d] = Append(@, [base |-> call[r].version, proof |-> call[r].proof])]
    /\ challenge' = [challenge EXCEPT ![d].live = FALSE]
    /\ intent' = Expired(call[r].expiring)
    /\ End(r)
    /\ UNCHANGED <<device, activatedBy>>

-----------------------------------------------------------------------------
(* Linking.  Every transaction that creates or lists intents first expires *)
(* those whose time is over, here any pending ones S.                      *)

Lapsed(S) == \A i \in S : intent[i].status = "pending" /\ ~Held(i)

BeginIntent(r, d, S) ==
    /\ device[d] = "pending_link"
    /\ Lapsed(S) /\ PendingOf(d) \subseteq S
    /\ Start(r, [NoCall EXCEPT !.op = "link", !.device = d, !.version = Version(d), !.expiring = S])
    /\ UNCHANGED <<registryVars, ownerLock, deviceLock>>

(* At most one pending intent of a device, by a unique index.              *)
CreateIntent(r, i) ==
    LET d == call[r].device IN
    /\ call[r].op = "link" /\ intent[i].status = "absent"
    /\ PendingOf(d) \subseteq call[r].expiring
    /\ intent' = [Expired(call[r].expiring) EXCEPT
                     ![i] = [status |-> "pending", device |-> d, version |-> call[r].version]]
    /\ End(r)
    /\ UNCHANGED <<device, activatedBy, bundles, challenge>>

ListIntents(S) ==
    /\ S # {} /\ Lapsed(S)
    /\ intent' = Expired(S)
    /\ UNCHANGED <<device, activatedBy, bundles, challenge, ownerLock, deviceLock, call>>

ApproverActive_exists(a) == device[a] # "absent"
ApproverActive(a) == device[a] = "active"

(* The reads of an approval; a has signed the intent and its bundle.       *)
BeginApprove(r, i, a) ==
    LET d == intent[i].device IN
    /\ intent[i].status = "pending" /\ device[d] = "pending_link"
    /\ a # d /\ ApproverActive(a)
    /\ Version(d) = intent[i].version
    /\ Start(r, [NoCall EXCEPT !.op = "approve", !.device = d, !.intent = i, !.approver = a])
    /\ UNCHANGED <<registryVars, ownerLock, deviceLock>>

(* Both rows are updated only as they were read.                           *)
StillPending_asRead(i, d) == TRUE
StillPending(i, d) == intent[i].status = "pending" /\ device[d] = "pending_link"

Approve(r) ==
    LET d == call[r].device  i == call[r].intent IN
    /\ call[r].op = "approve"
    /\ ~Held(i) /\ deviceLock[d] = NoHandler
    /\ StillPending(i, d)
    /\ intent' = [intent EXCEPT ![i].status = "approved"]
    /\ device' = [device EXCEPT ![d] = "active"]
    /\ activatedBy' = [activatedBy EXCEPT ![d] = call[r].approver]
    /\ End(r)
    /\ UNCHANGED <<bundles, challenge>>

ExpireIntent(i) ==
    /\ intent[i].status = "pending" /\ ~Held(i)
    /\ intent' = Expired({i})
    /\ UNCHANGED <<device, activatedBy, bundles, challenge, ownerLock, deviceLock, call>>

-----------------------------------------------------------------------------
RevokeCryptoDevice(d) ==
    /\ device[d] \in {"pending_link", "active"} /\ deviceLock[d] = NoHandler
    /\ \A i \in PendingOf(d) : ~Held(i)
    /\ device' = [device EXCEPT ![d] = "revoked"]
    /\ intent' = Expired(PendingOf(d))
    /\ UNCHANGED <<activatedBy, bundles, challenge, ownerLock, deviceLock, call>>

RequestStep(r) ==
    \/ Refuse(r)
    \/ BeginFirst(r) \/ BeginPending(r)
    \/ \E d \in Devices : \/ RegisterFirst(r, d) \/ RegisterPending(r, d)
                          \/ BeginChallenge(r, d) \/ BeginPublish(r, d)
                          \/ \E S \in SUBSET Intents : BeginIntent(r, d, S)
    \/ UpsertChallenge(r) \/ CheckPublish(r) \/ WritePublish(r) \/ CommitPublish(r)
    \/ \E i \in Intents : \/ CreateIntent(r, i)
                          \/ \E a \in Devices : BeginApprove(r, i, a)
    \/ Approve(r)

CryptoNext ==
    \/ \E r \in Handlers : RequestStep(r)
    \/ \E S \in SUBSET Intents : ListIntents(S)
    \/ \E i \in Intents : ExpireIntent(i)
    \/ \E d \in Devices : RevokeCryptoDevice(d)

CryptoSpec == CryptoInit /\ [][CryptoNext]_cryptoVars

-----------------------------------------------------------------------------
Activated(d) == activatedBy[d] # NoDevice

(* All trust in the devices of a user comes from one of them: two requests *)
(* never both register the first device, and any other device was linked   *)
(* by one that had been activated itself, whatever was published, expired  *)
(* or revoked between the checks of an approval and its commit.            *)
TrustRooted ==
    /\ \A d, e \in Devices : activatedBy[d] = d /\ activatedBy[e] = e => d = e
    /\ \A d \in Devices : Activated(d) => Activated(activatedBy[d])

(* A bundle replaces the one its publisher had read: of two publications   *)
(* that overlap, the later is refused and not built upon unseen.           *)
NoPublishLost == \A d \in Devices : \A n \in 1..Version(d) : bundles[d][n].base = n - 1

(* A challenge is good for one bundle, however many requests present it at *)
(* the same time.                                                          *)
ChallengeSpentOnce ==
    \A d \in Devices : \A m, n \in 1..Version(d) :
        /\ bundles[d][m].proof # NoProof
        /\ bundles[d][m].proof = bundles[d][n].proof
        => m = n

(* A revoked device stays revoked: an approval that has seen it pending    *)
(* does not bring it back, and nothing activates a device a second time.   *)
RevokedForGood ==
    [][\A d \in Devices : /\ device[d] = "revoked" => device'[d] = "revoked"
                          /\ Activated(d) => activatedBy'[d] = activatedBy[d]]_cryptoVars

(* "For an active device publish/update requires a signed bundle publish   *)
(* proof" (docs/adr/059).                                                  *)
ActiveNeedsProof ==
    [][\A d \in Devices : device[d] = "active" /\ bundles'[d] # bundles[d]
          => bundles'[d][Len(bundles'[d])].proof # NoProof]_cryptoVars
=============================================================================

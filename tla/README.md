# AeroChat: a TLA+ verification project

AeroChat is a monorepo of Go services and a web client. This project models the
parts whose correctness depends on the order in which several processes act, and
it checks and proves properties of them. Modules are translated from the Go code
and the SQL it runs; comments name the functions.

## 1. Inventory

| Component | State it keeps | Operations | Works with |
|---|---|---|---|
| `aero-rtc-control`, call service (`internal/domain/rtc`) | none of its own | start, join, leave, end, touch, signal, reads; all of them evict stale participants on the way | call repository, chat scope, identity sessions |
| `aero-rtc-control`, call repository (`internal/storage/postgres/repository.go`) | calls, participant rows | create with participant, join, leave-and-maybe-end, end | same database as the media store |
| `aero-rtc-control`, slot guard (`media_slot_guard.go`) | user mutex rows | discover, lock, revalidate; refuses call transactions that would break a held grant | call repository, media store |
| `aero-rtc-control`, media store (`media_store.go`) | rooms, grants, leases, revoke operations, cleanup outbox, source inbox, deny watermarks | reserve, activate, register/close lease, begin revoke, apply source event, claim/retry/acknowledge cleanup, expire | media control, revocation receiver; callers of the cleanup operations are not in the repository yet |
| `aero-rtc-control`, media control (`media_control.go`) | leave/end intents with children and participants, room jobs | request leave/end, claim/retry/acknowledge room, finalize | media store, call tables |
| `aero-rtc-control`, media contract (`mediacontract/reference.go`) | state of one grant | activate, check admission, begin revoke, confirm teardown | specification of the store |
| `aero-rtc-control`, authorized control and admission registration | none / admission owners | observe authority, then request; register an admission owner | identity, chat |
| `aero-identity` | accounts, sessions, devices, friend requests, blocks, link intents, revocation outbox | login, refresh, revoke, register/approve device, befriend, block | delivery worker |
| `aero-identity`, `aero-chat`, revocation delivery (`internal/domain/delivery`) | delivery rows with claim, fence, attempt | claim, look up, apply, complete, retry, quarantine | revocation receiver of rtc-control over HTTP |
| `aero-chat` | chats, groups, members with epochs, messages, encrypted sequence, attachments, quotas, read state | send, edit, join, promote, restrict, upload, finalize, expire, ... | MinIO, Redis, gateway |
| `aero-gateway` | hub of connections with bounded queues, admission counters | connect, publish, close, admit | all services |
| `aero-jobs` | nothing yet | - | - |
| `libs/go` | nothing | tokens, signatures, envelopes, schema runner | all services |
| `apps/web` | reducers, local crypto stores | user interface, browser side of calls | gateway |

What is hard, and for which component:

* call service: a request is several transactions; between two of them other
  requests run. *Correct when* an active call has participants, nobody is left in an
  ended call, and a request only ever removes the row it looked at.
* media store: deny events, revokes, reservations and acknowledgements of several
  processes in any order; workers whose claims lapse while they work. *Correct when*
  a user has one slot, a denial takes effect in either order, teardown is reported
  only when it has happened, a stale claimant changes nothing, and every revoke can
  always be finished.
* media control: a request to end a call takes effect much later than it is
  accepted. *Correct when* nothing enters the call in between and the request can always
  be finished.
* revocation delivery: at-least-once delivery with lost answers and requests that
  are executed late. *Correct when* a delivered row was applied, with the operation
  it records, only hopeless rows are given up, and every row is settled.
* hub: goroutines of a connection that learn of each other late, and publishers that
  go through copies of its sets. *Correct when* the indexes are exact, nothing
  published after a revocation is written, revoked connections are closed, and a
  shutdown drains the hub.
* group authority: checks on roles read before the transaction, and a revision per
  pair of group and user that other services rely on. *Correct when* a group has
  one owner, only open links admit, limits hold, and each authority given out is
  current or covered by an event.
* attachments: a row, three objects in a bucket and a cleanup queue that no
  transaction spans; copies and uploads that land late. *Correct when* what may be
  downloaded is stored, messages keep their files, no object is forgotten, the quota
  holds and garbage goes.
* encrypted messages: a roster read before the transaction that uses it, sequence
  numbers under a lock, a migration in batches. *Correct when* a version names one
  roster, former members are not addressed, and messages appear in the order of their
  numbers, above every read position.
* crypto devices and the social graph: checks and statements in one request, others
  in between. *Correct when* all trust comes from the first device, no publication is
  lost, challenges are spent once, revocation is final, and friendship needs a request.
* admission limiter: a table that forgets keys to make room. *Correct when* nobody
  gets more than the budget of each key.
* slot guard: a transaction has to find out by reading which rows it must lock.
  *Correct when* its statements come to one step on the rows as they are at the commit,
  and transactions do not wait for each other in a circle.

`PROJECT.json` lists all components with their status, and the hazards with their lines.

## 2. Modules

| Module | Models | Source |
|---|---|---|
| `MediaLedger` | the tables of `aero-rtc-control`, types, initial state and the predicates several components share (held grants, deny watermarks, pending ends) | `db/schema/000000`, `000001`, `000003`, `db/queries` |
| `CallRepository` | the four call transactions, with the slot guard when `Guarded` | `storage/postgres/repository.go`, `media_slot_guard.go` |
| `MediaStore` | reserve, activate, leases, revoke in two phases, deny events, cleanup outbox, expiry | `media_store.go` |
| `MediaControl` | leave and end requests, their children, the room acknowledgement, finalization | `media_control.go` |
| `MediaSystem` | the composition of the four and its properties | - |
| `MediaContract` | abstract: what a grant promises | `mediacontract/reference.go` |
| `SlotTransactions` | abstract: a guarded request is one step on the rows as they are, or none | `media_slot_guard.go` |
| `SlotLocks` | the statements of the guard: discovery, locks, rediscovery, retries; shown to implement `SlotTransactions` | `media_slot_guard.go`, `media_store.go` (`lockedGrant`) |
| `RtcService` | the call service on top of `CallRepository`: requests as processes that are interrupted between any two transactions | `domain/rtc/service.go` |
| `SourceDelivery` | delivery of revocations by the workers of `aero-identity` and `aero-chat`, HTTP in between, the inbox of `aero-rtc-control` | `domain/delivery/worker.go`, `authority_delivery.go`, `rtcrevocation/client.go` |
| `GroupAuthority` | groups of `aero-chat`: requests as processes, transactions, the authority trigger, `CheckGroupSubject` | `chat/service.go`, `group_policy.go`, `group_authorization.go`, `repository.go`, `db/schema/000024` |
| `EncryptedConversation` | the encrypted lane of a group: roster and version, sequence numbers, read positions, the backfill | `chat/service.go`, `repository.go`, `encrypted_sequence.go` |
| `AttachmentLifecycle` | upload intents, completion, the backfill of legacy rows, messages, expiry, the cleanup pass, the bucket | `chat/attachments.go`, `attachment_finalization.go`, `attachment_lifecycle.go`, `attachment_legacy_migration.go` |
| `CryptoDevices` | devices of a user, bundles, challenges, link intents | `crypto_device_service.go`, `crypto_devices.go` |
| `SocialGraph` | friend requests, friendships, blocks | `social_graph.go` |
| `RealtimeHub` | websocket connections of the gateway: three goroutines each, RPC handlers, shutdown | `realtime/hub.go`, `handler.go` |
| `AdmissionBudget` | abstract: every key has a budget and nothing is forgotten | `docs/adr/091` |
| `AdmissionLimiter` | the limiter of logins and registrations with its table of keys; shown to implement `AdmissionBudget` | `admission/limiter.go` |
| `MC*` | small instances for TLC | - |
| `*Proofs` | theorems and proofs, section 4 | - |

`MediaSystem` extends `MediaControl`, which extends `MediaStore`, `CallRepository`
and `MediaLedger`; `RtcService` extends `CallRepository` alone. `SlotLocks` justifies
that `CallRepository` and `MediaStore` have the guarded transactions as single steps.
The other components share no state with these: what passes between them is an event
(`GroupAuthority` writes events to its outbox, `SourceDelivery` carries an event
to the receiver, `MediaStore.ApplySourceEvent` applies it). Each hand-over has one
property on either side: `ObservedIsSettled` says that exactly the authorities
that are no longer current are covered by an event, `DeliveredMeansApplied` and
`EverySettles` that each event arrives, `DenyIsEffective` that an applied event
leaves no usable grant.

### How state and actions correspond to the code

* **Transactions.** A repository method that takes its row locks first runs as one
  step, and one that is refused or rolled back is no step. Where the code decides on
  what it reads without locks (the slot guard, the crypto device registry, a friend
  request, the roster of a conversation), reads and statements are steps of their own.
  What the code does *between* transactions (reads of the service before it writes,
  HTTP calls, a goroutine that has released a mutex) is where the models let others in.
* **Requests** (`req`, `call`, `work`, `job`, `tx`). A request carries exactly what its
  handler holds in local variables between two accesses to the database: the role it
  has read, the participants it has found stale, the rows it has discovered. It can fail
  at any point.
* **Clocks.** Deadlines are compared with the times of unsynchronised callers.
  A comparison that decides whether something has lapsed is a free choice, so
  every order of "in time" and "too late" is explored. The cutoff for stale
  participants is the variable `stale`. The limiter is about one clock and counts ticks.
* **Participants** are pairs of a user and a serial number: the unique index allows
  a user one active row, `part` says where it is and `row` which one it is. An
  eviction names a row, so rows of the same user must be told apart.
* **Leases and fences.** Claims that were handed out are remembered in history
  variables (`claims`, `rClaims`), so that a worker that has lost its claim can
  still act on it.
* **Locks of the slot guard.** `owner` says who has which row; a row is its kind and its
  id, and `Precedes` is the order of the code. `SlotTransactions` names a room by the
  first grant in it. A release is all that the last acknowledgement or the expiry of a
  grant does to these rows (`finishMediaParticipation`): the grant is revoked, its user
  leaves the call, the call ends with its last participant and the room closes with its
  last grant. A row is named by its user and call, which names the row of a grant as long
  as its user cannot leave (`HoldsArePlaced`). Left out are room limits, the creator of a
  call, pending ends (under which a release leaves call and room open), and the extra
  users and rooms of the control store; `CallRepository`, `MediaStore` and `MediaControl`
  have them. `main.go` does not switch the guard on today.
* **Objects** of the bucket are their contents; contents that have the size and type
  of the row are told apart from all others. An upload or copy that was started may
  land at any later time (`posting`, `copying`).
* **Rosters** are sets of devices with a version; a message is stored with the devices
  it is addressed to. The unread count alone checks membership of a recipient again
  (`repository.go:1584-1594`); the unique index on `server_sequence` is a second net.
* **Signatures** of device bundles and link approvals are what they sign.
* **Envelopes** of the hub are what `NoLateDelivery` tells apart: published before or
  after the token was revoked.
* **The trigger** is part of each transaction that changes memberships
  (`Memberships`); a transition it refuses makes the transaction fail.
* **BIGINT.** The revision has the limit `MaxRevision` in place of 2^63-1, with the
  same checks at the limit, so the runs get there.

Left out: names, timestamps as values, message texts, join counts, typing
indicators, notification preferences, logging, the refusals' wording, the client's
address and `Retry-After` of the limiter.

## 3. Runs

Several runs go through scopes: variable `scope` (or `focus`) is chosen at the start
and a behaviour moves in one component, or in one part of its states, for good.

| Run | Shows |
|---|---|
| `media` | scope *media*: two users in a group call with one grant each, deny events for a group epoch and a session, a lease, a worker, a leave or end request, guard on; and two calls after each other with rows left over from an old one. Scope *locks*: the statements of two overlapping guarded requests, after any number of earlier ones, over two calls with one grant or one call with two: each comes to one step, and none waits in a circle |
| `media_workers` | two callers of the cleanup and room operations, whose claims lapse, are taken over or given back: a stale claim completes nothing, and every revoke and request can still be finished |
| `services` | scope *rtc*: two overlapping requests over all operations of the call service without the guard, as `main.go` wires it, and the call transactions under the media of a room of one place; the store implements the contract. Scope *conversation*: the encrypted lane with overlapping requests, and with its migration |
| `source_delivery` | a good, a conflicting and an invalid event, two workers: what a row says is true, a lost claim disturbs nothing, every row is settled |
| `realtime_hub` | one connection, two devices, two handlers: exact indexes, nothing late is written, revoked connections close, a shutdown drains |
| `registries` | scope *groups*: two users move in and out until the revisions run out, three users in two groups race between check and transaction. Scope *devices*: two overlapping requests over three devices and one intent, or two and two. Scope *friends*: three requests of two people. Scope *admissions*: three callers, two names, two addresses, a table of three keys |
| `attachments` | all the races over one attachment, with liveness; two requests that share a quota; a message with two attachments against a cleanup pass and a second message |
| `rtc_stale`, `group_owner`, `attachment_replay`, `device_publish`, `social_block` | disagreements with the documentation, see below |

The passing runs have between 147 000 and 2.5 million distinct states.

### Bounds, and why they are enough

* Two users, two grants, one or two calls (`media`): every property is about one grant
  and at most one other grant of its user or its call; deny events are about one
  user. `RoomLimit` is 2, or 1 where two users have to compete for a place, instead of
  the 4 of the code, for the same reason.
* `MaxRow` bounds how often users join, `MaxGen` the generations of a room,
  `MaxFence` how often a claim is taken over. Two of each is what it takes for an
  old value to meet a new one, a third is just another new one; a run whose question is
  about other values has one. They are guards of the actions that count up, and the
  theorems do not depend on them.
* Two grants with one connection and one request, or one grant with two of each
  (`MCTeardowns`), for two callers of the cleanup operations: a claim and the one that
  takes it over need two callers, an end with two children two grants.
* Two requests of the slot guard at a time: a circle of waiting needs two, a stale read
  one that reads and one that commits. `MCFocus` and `MCOneGrant` split the states into
  one call with two grants and two calls with one. `Attempts` is 2 instead of 3.
* One connection in the hub: connections meet only in the sets of the hub, which
  every operation treats one by one, and the theorems hold for any number. Buffer
  size 2 lets the queue be empty, partly full and full.
* Two requests at once in `GroupAuthority`: a check that has become stale needs the
  request and one other. Two successors of one owner need a third user (`MCRaces`), who
  is not there when two users go through four revisions of a pair (`MCLongLife`).
* Two requests and three devices: a first device, a linked one and one that is being
  linked; `MCFewDevices` makes it two when there are two intents.
* Four messages, two of them old: two is what an order needs, and the batches of the
  migration have one or two.
* A table of three keys is too small for the four keys that two names and two
  addresses have when they log in, so every way of making room is taken.
* Sets of the runs that use `SYMMETRY` are model values no definition tells apart, and
  no liveness property is checked there.
* `CHECK_DEADLOCK FALSE` is said where the system may stop: all grants used up, all
  rows settled, all connections closed, revisions exhausted, requests answered.

### Fairness, and why the code justifies it

* The media plane has no fairness. Nothing in the repository but tests calls
  `ClaimCleanup`, `RecordCleanupAcknowledgement`, `ClaimRoom`, `RecordRoomAcknowledgement`
  or the two `Finalize` operations: `main.go` (81-120) starts servers only, and the
  `README.md` of `aero-rtc-control` (lines 8-11 and 36) says that workers and trusted
  acknowledgements are not connected. So nothing here says that a revoke or a request
  completes. `RevokeStaysOpen` and `RequestStaysOpen` say what the store owes to whoever
  will call it: no order of claims, lapses, retries and acknowledgements leads to where
  it cannot be completed.
* `DeliveryFairSpec`: `Worker.Run` has a ticker, deadlines pass, and the receiver
  answers a caller that keeps waiting. Failures of calls and stops of workers are
  not fair, and possible only below `MaxFence`: `EverySettles` says that finitely
  many failures do no harm.
* `HubFairSpec`: the goroutine of a connection goes on because each of its calls
  has a timeout, `close` finishes, and a handler goes through its targets without
  blocking. The client is under no fairness: the read loop may hang for ever.
* `FileFairness`: the clock runs, the storage finishes what it accepted, requests end
  with their timeout, cleanup loops poll, and a pass that waits for a row gets it (the
  queue of the row lock, hence strong fairness). From some time on passes do not fail any
  more: a key that can never be deleted ends every pass before the keys behind it,
  so without this `GarbageGoes` would not hold.

### Disagreements found

* `group_owner`: the role of the target is read before the transaction, and the
  transaction does not look again. A transfer in between makes the target the
  owner, who is then removed, leaves or is demoted: the group has no owner, and
  nobody can become one. `docs/adr/032-group-membership-management-bootstrap.md`
  promises exactly one owner at any time (lines 43, 118, 195).
  The same check before the transaction (`service.go:747`) lets a restriction hit a
  member who has just become the owner, contrary to
  `docs/adr/047-group-moderation-and-admin-policy-expansion.md:108`.
* `rtc_stale`: a participant found stale may send a heartbeat before the eviction and
  is evicted all the same, although
  `docs/adr/086-rtc-participant-heartbeat-and-stale-eviction.md:81` makes the timestamp
  that the heartbeat updates the cutoff.
* `attachment_replay`: a completion that gives up on its copy can be repeated with other
  staging contents, and the first copy may land on the published object;
  `docs/adr/088-bounded-staging-and-immutable-media-finalization.md:51` says the bytes of
  a final attachment do not change.
* `device_publish`: a publication that has read "pending_link" goes through without a
  proof after an approval has made the device active, contrary to
  `docs/adr/059-proof-bound-crypto-bundle-update-and-rotation-hardening.md:39`.
* `social_block`: a friend request is inserted after a block that was not there when it
  was checked, contrary to `docs/adr/007-social-graph-foundation.md:84` and 89.

Without a run: the trigger writes an `eligibility_denied` event when a removed user
returns as a reader (`db/schema/000024`, line 85), although
`docs/adr/097-group-media-trusted-authorization-contract.md:572` says a return writes
none. The event is superfluous and harmless: the removal has covered everything it covers.

Not a disagreement, though it looks like one: an end of a call whose room was never
opened stays pending, because nothing resolves it. ADR 097 (lines 284-285) wants it to
fail closed, so `RequestStaysOpen` is about requests whose media is known. A request that
has read the roster of a conversation before another one may write the older roster
again, under a version of its own; `VersionFixesRoster` and `OnlyMembersAddressed` hold
all the same, because the recipients are compared with the members once more.


## 4. Theorems

Every safety property of a passing run is a theorem of its specification, for every
number of users, calls, grants, requests and so on. The theorems assume what the
modules say of their constants (`ScopeAssumption`, `AuthorityAssumption`,
`NoneAssumption`, `BoundAssumption`, `SlotAssumption`, `DeliveryAssumption`,
`HubAssumption`, `GroupAssumption`, `AttachmentAssumption`, `CryptoAssumption`,
`SocialAssumption`, `ConversationAssumption`, `LimiterAssumption`); the runs evaluate
these assumptions. Most sets need not be finite: finiteness is proved where something
is counted, because only finitely many steps have been taken.

The pattern is the same everywhere: the property is not inductive because it leaves
out what requests, workers or transactions hold in their hands; the invariant adds what
that is still worth, with one lemma per action or per group of actions.

**`MediaSystemProofs`** (the media plane of `aero-rtc-control`)

| Theorem | Argument |
|---|---|
| `MediaTypes` | types of the tables; a grant that exists has a binding |
| `SlotIsExclusive`, `DenyHolds` | together, because a deny event finds the grant of its user only if there is one: all steps but `Reserve` and `ApplySourceEvent` only take away from what is held (`GrantSteps`) |
| `FencesAreUnique` | no claim was handed out with a fence above that of its row (`FenceBound`) |
| `SlotStaysBacked` | the guard refuses exactly the call transactions that would take the call or the row from under a held grant; that it looks at one grant is enough because of `SlotIsExclusive` |
| `BarrierStands` | `EndInv`: what an end request has noted when it was accepted; a call has one pending end at most, and as long as it has one every way in is barred |
| `ReceiptsAreHonest` | `ReceiptInv`: a grant that a receipt names is in revocation or revoked, so its binding and the operation stay what they were |
| `RoomsStaySmall` | the grants that exist are finitely many, so that a room has a cardinality; `Reserve` counts before it adds |
| `LeasesEndWithGrants`, `CompletionIsTeardown` | `TeardownInv` relates the state of a grant to its operation, its cleanup actions and the lease they aim at; without the last one, an acknowledgement could complete the revoke of a grant with a lease still open |
| `RevokesStayOpen`, `RequestsStayOpen` | `OpenInv`: a claimed action or room has a claimant whose fence is the current one; a grant in revocation has an action that is not acknowledged; a request waits only for grants that are revoked or in revocation. With `EndInv`, which keeps the call as the end request has found it |
| `StoreImplementsContract` | step simulation: `ContractStep` holds for each kind of step and grant; steps that leave a grant in its place (`SamePlaces`) are stutters of its contract |

**`RtcServiceProofs`** (the call service, with or without the guard)

| Theorem | Argument |
|---|---|
| `ServiceTypes` | a request that leaves a call knows the row it leaves (`RequestOK`) |
| `CallsHavePeople` | handlers change the tables by the call transactions only (`TablesMove`); each of these leaves an active call with a participant, and nobody joins one that has ended. Rows that an older version of the program left in ended calls (`OldCalls`) are excepted, as they are in the code's own clean-up |
| `OnlyNamedRows` | the row a request removes is the one it holds; whoever joins again has a row of a higher number |

**`SlotLockProofs`** (the statements of the slot guard)

| Theorem | Argument |
|---|---|
| `LocksAreKept` | `LockInv`: what a transaction has read under its locks is what the rows still say (`FoundOK`). It rests on every commit changing only rows that it has locked, or a call that nobody could see before (`CommitEffect`) |
| `SlotsImplementContract` | at a commit everything the decision depends on is locked (`CommitReads`), so it is the decision of `SlotTransactions` on the rows as they are; all other steps are stutters |
| `HoldsStayPlaced` | shown of `SlotTransactions` alone, one lemma per kind of write, and carried over by `SlotsImplementContract` |
| `LocksAreOrdered` | a set of transactions that wait for each other would have a greatest locked row (`HasMaxima`), and its owner would wait for a greater one (`LockOrder`) |

**`RevocationProofs`** (delivery of revocations, and the hub that acts on them)

| Theorem | Argument |
|---|---|
| `DeliveredIsApplied`, `QuarantineIsDeserved`, `LostClaimsAreHarmless` | `DeliveryInv`: what a worker, or an answer on its way to it, says about the receiver is true for ever (`WorkerKnows`), and each settled row was settled rightly |
| `IndexesAreExact` | `IndexInv`: which goroutine of a connection may be where while the other is somewhere else (`Together`); the hub knows exactly those that are being served |
| `LateIsNeverDelivered` | `LateInv`: late envelopes are there for revoked tokens only, and none is past the revalidation that comes before each write |

**`GroupAuthorityProofs`**, from `GroupInv`

| Theorem | Argument |
|---|---|
| `OwnerIsUnique` | a transaction that makes an owner starts from the row of the present one |
| `AuthorityMirrorsMembership`, `ObservationsSettle` | `Ledger`: revisions only go up, an authority given out is the current one or below an event; `MembershipsKeepLedger` shows it once for all transactions, because they change memberships only through the trigger |
| `DoorsStayClosed` | an action property: the join transaction looks at the link again |

**`AttachmentProofs`**, from `FileInv`

| Theorem | Argument |
|---|---|
| `PublishedStaysStored`, `MessagesKeepFiles`, `NothingForgotten` | one invariant of the row, the objects of its keys, the request and the cleanup pass that works on it, and who holds the row lock (`RowInv`, `ObjectInv`, `JobInv`, `PassInv`): each property alone depends on the other two |
| `QuotaStaysKept` | the usage is read under the lock of the owner's row, and only the intent that holds this lock adds to it |

**`IdentityProofs`** (devices, friends, admissions)

| Theorem | Argument |
|---|---|
| `TrustHasOneRoot`, `PublicationsKept`, `ChallengesSpentOnce`, `RevocationIsFinal` | `CryptoInv`: what a request has read of a device or an intent, and which of it cannot have changed since (`CallOK`) |
| `FriendshipNeedsConsent` | with `OneDirection`: no two requests of one pair cross |
| `ForgettingIsHarmless` | refinement of `AdmissionBudget`. A key that is forgotten had no request in flight and its tokens would be full again, so the table says the same without it (`SaysTheSame`); `LimiterInv` ties the count of a bucket to the requests admitted on it |

**`EncryptedConversationProofs`**, from `ConversationInv`

| Theorem | Argument |
|---|---|
| `OneRosterPerVersion` | `RosterInv`, over the lane, the stored messages and the rosters that requests carry |
| `FormerMembersUnaddressed` | `RecipientsInv`: from the last look at the recipients to the commit, nobody can leave |
| `VisibleInOrder` | `HolderInv`, `CounterInv`: a number is reserved by whoever holds the row of the group, and it is the one after all that anybody knows of |
| `OrderServed` | `OrderInv`: at any time the old messages that have numbers come before all that have none; `ServingInv` |

*Only model-checked.* Liveness is out of reach of the prover: `EverySettles`,
`RevokedCloses`, `ShutdownDrains`, `GarbageGoes`. The fairness they need is in
section 3. That `Attempts` (`AttemptsAssumption`) are used up
sensibly is seen in the runs alone; no theorem needs it.

*Only proved.* The type invariants, `FenceUnique`, `HoldsArePlaced`, `QuarantinedMeansBad`,
`QuotaKept` and the inductive invariants have theorems; no run repeats them where it has more to
say with the same states.

## 5. Not modelled, and the plan

Not modelled are conversions between layers (handlers, downstream clients, SQL mapping),
generated code, libraries, the web client, the deployment, and `aero-jobs`, which does
nothing yet. The remaining gaps in components whose core is modelled:

* plaintext messages, pins and direct chats; direct chats share the encrypted lane's
  sequence numbers and read positions, which `EncryptedConversation` has for groups;
* roles and restrictions in the encrypted lane, which `GroupAuthority` has for
  memberships;
* accounts and sessions of `aero-identity` beyond devices and friends;
* the authorized control of calls, which asks identity and chat before it calls the
  media control, and the registration of admission owners.

In this order:

1. `DirectChat`: plaintext and encrypted direct chats, pins, edits and tombstones.
   Questions: may a message be pinned or edited after its deletion
   (`docs/adr/008`, line 141; `docs/adr/043`, line 77), and may one message be announced
   to a device twice (`docs/adr/086-web-notifications`, lines 75-80)?
2. `AuthorizedControl` on top of `MediaControl`: an authority that is read over HTTP
   is used after it may have changed; the deny event has to close the gap.
3. Sessions and profiles of `aero-identity`: a profile is read and written back
   whole in two statements.
4. An abstract outbox that `SourceDelivery` implements.
5. The state of a call in the web client.

------------------------ MODULE AttachmentLifecycle ------------------------
(***************************************************************************)
(* The attachments of aero-chat: the rows of attachments, upload sessions, *)
(* links and source cleanup, and the objects they stand for in the bucket  *)
(* (internal/domain/chat/attachments.go, attachment_lifecycle.go and       *)
(* attachment_legacy_migration.go with their repositories).                *)
(*                                                                         *)
(* An attachment has up to three objects: the staging object that the      *)
(* upload capability writes, the final object that only the service writes *)
(* and, for a row older than the two namespaces, a legacy object in the    *)
(* place of both.  A content stands for an object with its ETag; Contents  *)
(* have the size and the type of the row, Bad does not.  All attachments   *)
(* have one owner and count one unit of the quota.                         *)
(*                                                                         *)
(* Time is what the guards see of it: whether the capability is live, has  *)
(* lapsed or is past its five minutes of grace, and whether the row has    *)
(* had its present status for longer than the retention of that status.    *)
(***************************************************************************)
EXTENDS FiniteSets, Naturals

CONSTANTS
    Attachments, Messages,
    Requests,                 \* requests and runs of the operator's backfill
    Cleaners,                 \* cleanup loops, one per instance of the service
    Contents, Bad,
    Quota,                    \* mediaUserQuotaBytes
    NoMessage, NoWorker, NoObject, NoFile

ASSUME AttachmentAssumption ==
    /\ IsFiniteSet(Attachments)
    /\ Requests \cap Cleaners = {}
    /\ Quota \in Nat
    /\ Bad \notin Contents
    /\ NoMessage \notin Messages
    /\ NoWorker \notin Requests \cup Cleaners
    /\ NoObject \notin Contents \cup {Bad}
    /\ NoFile \notin Attachments

VARIABLES
    status, session, mapped, link,  \* the rows: attachments, attachment_upload_sessions,
                                    \* attachments.object_key, message_attachments
    source,                         \* the key the capability of a row is for
    cleanup,                        \* attachment_source_cleanup, by attachment and key
    window, ripe,                   \* the clock
    bucket, posting, copying,       \* objects; a write and a copy still under way
    lock, ownerLock,                \* row locks of open transactions
    job, pass,                      \* where a worker is
    message                         \* the messages that take the attachments

rowVars == <<status, session, mapped, link, source>>
clockVars == <<window, ripe>>
storageVars == <<bucket, posting, copying>>
workVars == <<job, pass, lock, ownerLock>>
fileVars == <<rowVars, cleanup, clockVars, storageVars, workVars, message>>

Statuses == {"absent", "pending", "uploaded", "attached", "failed", "expired", "detached", "deleted"}
Sessions == {"absent", "pending", "completed", "failed", "expired"}
Keys == {"staging", "final", "legacy"}
Objects == Contents \cup {Bad, NoObject}
Files == Attachments \cup {NoFile}

Workers == Requests \cup Cleaners
NoJob == [op |-> "idle", file |-> NoFile, etag |-> NoObject, used |-> 0]
NoPass == [keys |-> {}, lapsed |-> {}, graced |-> {}, old |-> {}, queue |-> {}]
Ops == {"idle", "reserve", "stat", "promote", "verify",
        "sources", "orphans", "list", "delete", "erase", "eraseFinal", "mark"}

(* A worker has a file exactly while its transaction holds the row.        *)
LocksHeld == \A w \in Workers, a \in Attachments : lock[a] = w <=> job[w].file = a

RowTypeOK ==
    /\ status \in [Attachments -> Statuses]
    /\ session \in [Attachments -> Sessions]
    /\ mapped \in [Attachments -> {"final", "legacy"}]
    /\ link \in [Attachments -> Messages \cup {NoMessage}]
    /\ source \in [Attachments -> {"staging", "legacy"}]
    /\ cleanup \in [Attachments -> [Keys -> {"none", "waiting", "due"}]]
    /\ window \in [Attachments -> {"live", "lapsed", "graced"}]
    /\ ripe \in [Attachments -> BOOLEAN]
StorageTypeOK ==
    /\ bucket \in [Attachments -> [Keys -> Objects]]
    /\ posting \in [Attachments -> Objects]
    /\ copying \in [Attachments -> Objects]
WorkTypeOK ==
    /\ lock \in [Attachments -> Workers \cup {NoWorker}]
    /\ ownerLock \in Workers \cup {NoWorker}
    /\ job \in [Workers -> [op: Ops, file: Files, etag: Objects, used: Nat]]
    /\ pass \in [Cleaners -> [keys: SUBSET (Attachments \X Keys), lapsed: SUBSET Attachments,
                              graced: SUBSET Attachments, old: SUBSET (Attachments \X Statuses),
                              queue: SUBSET Attachments]]
    /\ LocksHeld
MessageTypeOK ==
    message \in [Messages -> [phase: {"new", "checked", "stored", "refused", "gone"},
                              files: SUBSET Attachments]]
FileTypeOK == RowTypeOK /\ StorageTypeOK /\ WorkTypeOK /\ MessageTypeOK

Counted == {"pending", "uploaded", "attached", "failed"}
Usage == Cardinality({a \in Attachments : status[a] \in Counted})

(* At the start only legacy rows exist, pending or uploaded.               *)
FileInit ==
    /\ status \in [Attachments -> {"absent", "pending", "uploaded"}]
    /\ source = [a \in Attachments |-> IF status[a] = "absent" THEN "staging" ELSE "legacy"]
    /\ session = [a \in Attachments |-> IF status[a] = "uploaded" THEN "completed" ELSE status[a]]
    /\ mapped = [a \in Attachments |-> IF source[a] = "legacy" THEN "legacy" ELSE "final"]
    /\ link = [a \in Attachments |-> NoMessage]
    /\ cleanup = [a \in Attachments |-> [k \in Keys |-> "none"]]
    /\ window = [a \in Attachments |-> "live"]
    /\ ripe = [a \in Attachments |-> FALSE]
    /\ bucket \in [Attachments -> [Keys -> Objects]]
    /\ \A a \in Attachments : \A k \in Keys :
          bucket[a][k] # NoObject => k = "legacy" /\ status[a] # "absent"
    /\ posting = [a \in Attachments |-> NoObject]
    /\ copying = [a \in Attachments |-> NoObject]
    /\ lock = [a \in Attachments |-> NoWorker]
    /\ ownerLock = NoWorker
    /\ job = [w \in Workers |-> NoJob]
    /\ pass = [w \in Cleaners |-> NoPass]
    /\ message = [m \in Messages |-> [phase |-> "new", files |-> {}]]

Goto(w, op) == job' = [job EXCEPT ![w].op = op]
Locked(w, a) == lock' = [lock EXCEPT ![a] = w]
Free(a) == lock[a] = NoWorker
Enter(a, s) == /\ status' = [status EXCEPT ![a] = s]
               /\ ripe' = [ripe EXCEPT ![a] = FALSE]

(* The end of a transaction, and of the request it served.                 *)
Release(w) ==
    /\ lock' = [a \in Attachments |-> IF lock[a] = w THEN NoWorker ELSE lock[a]]
    /\ ownerLock' = IF ownerLock = w THEN NoWorker ELSE ownerLock
Finish(w) ==
    /\ Release(w)
    /\ job' = [job EXCEPT ![w] = NoJob]
    /\ pass' = [c \in Cleaners |-> IF c = w THEN NoPass ELSE pass[c]]

-----------------------------------------------------------------------------
(* Upload intents.  The owner's row is locked before the usage is read.    *)

LockQuotaOwner(w) == ownerLock = NoWorker /\ ownerLock' = w

BeginIntent(w) ==
    /\ job[w].op = "idle"
    /\ LockQuotaOwner(w)
    /\ job' = [job EXCEPT ![w] = [NoJob EXCEPT !.op = "reserve", !.used = Usage]]
    /\ UNCHANGED <<rowVars, cleanup, clockVars, storageVars, lock, pass, message>>

WithinQuota(w) == job[w].used + 1 <= Quota

CreateIntent(w, a) ==
    /\ job[w].op = "reserve" /\ status[a] = "absent"
    /\ IF WithinQuota(w)
       THEN /\ Enter(a, "pending")
            /\ session' = [session EXCEPT ![a] = "pending"]
            /\ cleanup' = [cleanup EXCEPT ![a]["staging"] = "waiting"]
       ELSE UNCHANGED <<status, ripe, session, cleanup>>
    /\ Finish(w)
    /\ UNCHANGED <<mapped, link, source, window, storageVars, message>>

-----------------------------------------------------------------------------
(* Completion, and the operator's backfill of legacy rows: the row stays   *)
(* locked while the source is inspected, copied and inspected again.       *)

Completed(a) == session[a] = "completed" /\ status[a] \in {"uploaded", "attached"}
StillPending(a) == status[a] = "pending" /\ session[a] = "pending"

(* CompleteAttachmentUpload up to the first request to the storage.  The   *)
(* answers that change nothing, refused or repeated, leave no trace.       *)
BeginComplete(w, a) ==
    /\ job[w].op = "idle" /\ Free(a) /\ mapped[a] = "final"
    /\ ~Completed(a) /\ StillPending(a)
    /\ IF window[a] = "live"
       THEN /\ Locked(w, a)
            /\ job' = [job EXCEPT ![w] = [NoJob EXCEPT !.op = "stat", !.file = a]]
            /\ UNCHANGED <<status, ripe, session>>
       ELSE /\ Enter(a, "expired")
            /\ session' = [session EXCEPT ![a] = "expired"]
            /\ UNCHANGED <<lock, job>>
    /\ UNCHANGED <<mapped, link, source, cleanup, window, storageVars, ownerLock, pass, message>>

CapabilitiesOver == \A a \in Attachments : source[a] = "legacy" => window[a] = "graced"

BeginBackfill(w, a) ==
    /\ job[w].op = "idle" /\ Free(a)
    /\ CapabilitiesOver
    /\ mapped[a] = "legacy" /\ status[a] \in {"uploaded", "attached", "detached"}
    /\ Locked(w, a)
    /\ job' = [job EXCEPT ![w] = [NoJob EXCEPT !.op = "stat", !.file = a]]
    /\ UNCHANGED <<rowVars, cleanup, clockVars, storageVars, ownerLock, pass, message>>

Conforms(o) == o \in Contents

(* A mismatch fails a pending upload for good; the backfill only stops.    *)
StatSource(w) ==
    LET a == job[w].file  found == bucket[a][source[a]] IN
    /\ job[w].op = "stat" /\ found # NoObject
    /\ \/ /\ Conforms(found)
          /\ job' = [job EXCEPT ![w].op = "promote", ![w].etag = found]
          /\ UNCHANGED <<status, ripe, session, lock, ownerLock, pass>>
       \/ /\ ~Conforms(found)
          /\ IF mapped[a] = "final"
             THEN /\ Enter(a, "failed")
                  /\ session' = [session EXCEPT ![a] = "failed"]
             ELSE UNCHANGED <<status, ripe, session>>
          /\ Finish(w)
    /\ UNCHANGED <<mapped, link, source, cleanup, window, storageVars, message>>

SourceMatches_present(w) == bucket[job[w].file][source[job[w].file]] # NoObject

(* The copy is conditional on the ETag that was inspected.                 *)
SourceMatches(w) == bucket[job[w].file][source[job[w].file]] = job[w].etag

Promote(w) ==
    /\ job[w].op = "promote" /\ SourceMatches(w)
    /\ bucket' = [bucket EXCEPT ![job[w].file]["final"] = bucket[job[w].file][source[job[w].file]]]
    /\ Goto(w, "verify")
    /\ UNCHANGED <<rowVars, cleanup, clockVars, posting, copying, lock, ownerLock, pass, message>>

(* The request gives up on a copy that the storage goes on with.           *)
LoseCopy(w) ==
    /\ job[w].op = "promote" /\ SourceMatches(w)
    /\ copying[job[w].file] = NoObject
    /\ copying' = [copying EXCEPT ![job[w].file] = bucket[job[w].file][source[job[w].file]]]
    /\ Finish(w)
    /\ UNCHANGED <<rowVars, cleanup, clockVars, bucket, posting, message>>

(* The final object is inspected; the row is published if the capability   *)
(* is still live, a legacy row with the cleanup of its old object.         *)
PublishUpload(w) ==
    LET a == job[w].file IN
    /\ job[w].op = "verify" /\ mapped[a] = "final"
    /\ Conforms(bucket[a]["final"])
    /\ window[a] = "live"
    /\ Enter(a, "uploaded")
    /\ session' = [session EXCEPT ![a] = "completed"]
    /\ Finish(w)
    /\ UNCHANGED <<mapped, link, source, cleanup, window, storageVars, message>>

PublishLegacyFinalKey(w) ==
    LET a == job[w].file IN
    /\ job[w].op = "verify" /\ mapped[a] = "legacy"
    /\ Conforms(bucket[a]["final"])
    /\ mapped' = [mapped EXCEPT ![a] = "final"]
    /\ cleanup' = [cleanup EXCEPT ![a]["legacy"] = IF @ = "none" THEN "due" ELSE @]
    /\ Finish(w)
    /\ UNCHANGED <<status, session, link, source, clockVars, storageVars, message>>

(* An error of the storage or the database, a conflict, a timeout or a     *)
(* crash: the transaction is rolled back and a pass is over.               *)
Abandon(w) ==
    /\ job[w].op # "idle"
    /\ Finish(w)
    /\ UNCHANGED <<rowVars, cleanup, clockVars, storageVars, message>>

-----------------------------------------------------------------------------
(* A cleanup pass.  It compares every row with the time it began at: what  *)
(* had lapsed, and which rows were old in the status they had then.        *)

BeginPass(w) ==
    /\ job[w].op = "idle"
    /\ Goto(w, "sources")
    /\ pass' = [pass EXCEPT ![w] =
          [keys   |-> {x \in Attachments \X Keys : cleanup[x[1]][x[2]] = "due"},
           lapsed |-> {a \in Attachments : window[a] # "live"},
           graced |-> {a \in Attachments : window[a] = "graced"},
           old    |-> {x \in Attachments \X Statuses : status[x[1]] = x[2] /\ ripe[x[1]]},
           queue  |-> {}]]
    /\ UNCHANGED <<rowVars, cleanup, clockVars, storageVars, lock, ownerLock, message>>

Old(w, a) == <<a, status[a]>> \in pass[w].old

Reschedule_once == "none"

Reschedule == "waiting"

(* One listed source: its object is deleted and it is tried again in an    *)
(* hour, for as long as the row exists, which is for ever.                 *)
CleanSource(w, a, k) ==
    /\ job[w].op = "sources" /\ <<a, k>> \in pass[w].keys
    /\ bucket' = [bucket EXCEPT ![a][k] = NoObject]
    /\ cleanup' = [cleanup EXCEPT ![a][k] = Reschedule]
    /\ pass' = [pass EXCEPT ![w].keys = @ \ {<<a, k>>}]
    /\ UNCHANGED <<rowVars, clockVars, posting, copying, job, lock, ownerLock, message>>

(* The object is deleted, and the pass ends before it is rescheduled.      *)
CleanHalf(w, a, k) ==
    /\ job[w].op = "sources" /\ <<a, k>> \in pass[w].keys
    /\ bucket' = [bucket EXCEPT ![a][k] = NoObject]
    /\ Finish(w)
    /\ UNCHANGED <<rowVars, cleanup, clockVars, posting, copying, message>>

(* Both updates skip the rows another transaction has locked.              *)
ExpirablePending(w) ==
    {a \in pass[w].lapsed : /\ session[a] = "pending" /\ status[a] = "pending"
                            /\ link[a] = NoMessage /\ Free(a)}
ExpirableOrphans_listed(w) == {a \in Attachments : <<a, "uploaded">> \in pass[w].old /\ Free(a)}

ExpirableOrphans(w) ==
    {a \in Attachments : /\ status[a] = "uploaded" /\ Old(w, a)
                         /\ link[a] = NoMessage /\ Free(a)}

ExpireAll(S) ==
    /\ status' = [a \in Attachments |-> IF a \in S THEN "expired" ELSE status[a]]
    /\ ripe' = [a \in Attachments |-> ripe[a] /\ a \notin S]

ExpirePending(w) ==
    /\ job[w].op = "sources" /\ pass[w].keys = {}
    /\ ExpireAll(ExpirablePending(w))
    /\ session' = [a \in Attachments |->
                      IF a \in ExpirablePending(w) THEN "expired" ELSE session[a]]
    /\ Goto(w, "orphans")
    /\ UNCHANGED <<mapped, link, source, cleanup, window, storageVars, lock, ownerLock, pass, message>>

ExpireOrphans(w) ==
    /\ job[w].op = "orphans"
    /\ ExpireAll(ExpirableOrphans(w))
    /\ Goto(w, "list")
    /\ UNCHANGED <<session, mapped, link, source, cleanup, window, storageVars, lock, ownerLock, pass, message>>

Deletable(w, a) ==
    /\ Old(w, a)
    /\ \/ status[a] \in {"expired", "failed"} /\ link[a] = NoMessage
       \/ status[a] = "detached"

ListCandidates(w) ==
    /\ job[w].op = "list"
    /\ pass' = [pass EXCEPT ![w].queue = {a \in Attachments : Deletable(w, a)}]
    /\ Goto(w, "delete")
    /\ UNCHANGED <<rowVars, cleanup, clockVars, storageVars, lock, ownerLock, message>>

(* The listed row is locked and its eligibility is read again.             *)
EligibleUnderLock(w, a) ==
    Deletable(w, a) /\ (session[a] # "absent" => a \in pass[w].graced)

LockCandidate(w, a) ==
    /\ job[w].op = "delete" /\ a \in pass[w].queue /\ Free(a)
    /\ IF EligibleUnderLock(w, a)
       THEN /\ Locked(w, a)
            /\ job' = [job EXCEPT ![w].op = "erase", ![w].file = a]
            /\ UNCHANGED pass
       ELSE /\ pass' = [pass EXCEPT ![w].queue = @ \ {a}]
            /\ UNCHANGED <<job, lock>>
    /\ UNCHANGED <<rowVars, cleanup, clockVars, storageVars, ownerLock, message>>

PassDone(w) ==
    /\ job[w].op = "delete" /\ pass[w].queue = {}
    /\ Finish(w)
    /\ UNCHANGED <<rowVars, cleanup, clockVars, storageVars, message>>

(* The objects go first, a legacy row's and the final one in two requests, *)
(* and the row is marked after them.                                       *)
EraseObject(w) ==
    LET a == job[w].file
        key == IF job[w].op = "erase" THEN mapped[a] ELSE "final" IN
    /\ job[w].op \in {"erase", "eraseFinal"}
    /\ bucket' = [bucket EXCEPT ![a][key] = NoObject]
    /\ Goto(w, IF key = "legacy" THEN "eraseFinal" ELSE "mark")
    /\ UNCHANGED <<rowVars, cleanup, clockVars, posting, copying, lock, ownerLock, pass, message>>

Retire_skipped(row) == row

(* An object that goes with its row is deleted again every hour, for a     *)
(* copy or a write that ends later; a row of its cleanup is never replaced.*)
Retire(row) == IF row = "none" THEN "waiting" ELSE row

MarkDeleted(w) ==
    LET a == job[w].file IN
    /\ job[w].op = "mark"
    /\ Enter(a, "deleted")
    /\ cleanup' = [cleanup EXCEPT ![a]["final"] = Retire(@),
                                  ![a]["legacy"] = IF mapped[a] = "legacy" THEN Retire(@) ELSE @]
    /\ lock' = [lock EXCEPT ![a] = NoWorker]
    /\ job' = [job EXCEPT ![w] = [NoJob EXCEPT !.op = "delete"]]
    /\ pass' = [pass EXCEPT ![w].queue = @ \ {a}]
    /\ UNCHANGED <<session, mapped, link, source, window, storageVars, ownerLock, message>>

-----------------------------------------------------------------------------
(* Messages.  The attachments are checked before the transaction that      *)
(* stores the message and links them, one by one, or none of them.         *)

Linkable(a) == status[a] = "uploaded" /\ link[a] = NoMessage

CheckAttachments(m, files) ==
    /\ message[m].phase = "new" /\ files # {}
    /\ \A a \in files : Linkable(a)
    /\ message' = [message EXCEPT ![m] = [phase |-> "checked", files |-> files]]
    /\ UNCHANGED <<rowVars, cleanup, clockVars, storageVars, workVars>>

MarkAttached(a) == status[a] = "uploaded"

StoreMessage(m) ==
    LET files == message[m].files IN
    /\ message[m].phase = "checked"
    /\ \A a \in files : Free(a)
    /\ IF \A a \in files : MarkAttached(a) /\ link[a] = NoMessage
       THEN /\ status' = [a \in Attachments |-> IF a \in files THEN "attached" ELSE status[a]]
            /\ ripe' = [a \in Attachments |-> ripe[a] /\ a \notin files]
            /\ link' = [a \in Attachments |-> IF a \in files THEN m ELSE link[a]]
            /\ message' = [message EXCEPT ![m].phase = "stored"]
       ELSE /\ message' = [message EXCEPT ![m].phase = "refused"]
            /\ UNCHANGED <<status, ripe, link>>
    /\ UNCHANGED <<session, mapped, source, cleanup, window, storageVars, workVars>>

(* A tombstone detaches what the message holds.                            *)
HeldBy(m) == {a \in Attachments : link[a] = m /\ status[a] = "attached"}

Tombstone(m) ==
    /\ message[m].phase = "stored"
    /\ \A a \in HeldBy(m) : Free(a)
    /\ status' = [a \in Attachments |-> IF a \in HeldBy(m) THEN "detached" ELSE status[a]]
    /\ ripe' = [a \in Attachments |-> ripe[a] /\ a \notin HeldBy(m)]
    /\ message' = [message EXCEPT ![m].phase = "gone"]
    /\ UNCHANGED <<session, mapped, link, source, cleanup, window, storageVars, workVars>>

-----------------------------------------------------------------------------
(* Outside the service: the client writes what it likes for as long as its *)
(* capability is live, a write or a copy may land late, and time passes.   *)

BeginPost(a, c) ==
    /\ session[a] # "absent" /\ window[a] = "live" /\ posting[a] = NoObject
    /\ posting' = [posting EXCEPT ![a] = c]
    /\ UNCHANGED <<rowVars, cleanup, clockVars, bucket, copying, workVars, message>>

EndPost(a) ==
    /\ posting[a] # NoObject
    /\ posting' = [posting EXCEPT ![a] = NoObject]
    /\ \/ bucket' = [bucket EXCEPT ![a][source[a]] = posting[a]]
       \/ UNCHANGED bucket
    /\ UNCHANGED <<rowVars, cleanup, clockVars, copying, workVars, message>>

EndCopy(a) ==
    /\ copying[a] # NoObject
    /\ copying' = [copying EXCEPT ![a] = NoObject]
    /\ \/ bucket' = [bucket EXCEPT ![a]["final"] = copying[a]]
       \/ UNCHANGED bucket
    /\ UNCHANGED <<rowVars, cleanup, clockVars, posting, workVars, message>>

WindowPasses(a) ==
    /\ session[a] # "absent" /\ window[a] # "graced"
    /\ window' = [window EXCEPT ![a] = IF @ = "live" THEN "lapsed" ELSE "graced"]
    /\ UNCHANGED <<rowVars, cleanup, ripe, storageVars, workVars, message>>

Ripens(a) ==
    /\ status[a] \in {"uploaded", "failed", "expired", "detached"} /\ ~ripe[a]
    /\ ripe' = [ripe EXCEPT ![a] = TRUE]
    /\ UNCHANGED <<rowVars, cleanup, window, storageVars, workVars, message>>

ComesDue(a, k) ==
    /\ cleanup[a][k] = "waiting"
    /\ k = "staging" => window[a] = "graced"
    /\ cleanup' = [cleanup EXCEPT ![a][k] = "due"]
    /\ UNCHANGED <<rowVars, clockVars, storageVars, workVars, message>>

RequestStep(w) ==
    \/ BeginIntent(w)
    \/ \E a \in Attachments : CreateIntent(w, a) \/ BeginComplete(w, a) \/ BeginBackfill(w, a)
    \/ StatSource(w) \/ Promote(w) \/ LoseCopy(w) \/ PublishUpload(w) \/ PublishLegacyFinalKey(w)

PassStep(w) ==
    \/ BeginPass(w) \/ ExpirePending(w) \/ ExpireOrphans(w) \/ ListCandidates(w)
    \/ \E a \in Attachments : LockCandidate(w, a) \/ \E k \in Keys : CleanSource(w, a, k)
    \/ EraseObject(w) \/ MarkDeleted(w) \/ PassDone(w)

FileNext ==
    \/ \E w \in Requests : RequestStep(w) \/ Abandon(w)
    \/ \E w \in Cleaners : PassStep(w) \/ Abandon(w) \/ \E a \in Attachments, k \in Keys : CleanHalf(w, a, k)
    \/ \E m \in Messages : \/ \E files \in SUBSET Attachments : CheckAttachments(m, files)
                           \/ StoreMessage(m) \/ Tombstone(m)
    \/ \E a \in Attachments : \/ \E c \in Contents \cup {Bad} : BeginPost(a, c)
                              \/ EndPost(a) \/ EndCopy(a) \/ WindowPasses(a) \/ Ripens(a)
                              \/ \E k \in Keys : ComesDue(a, k)

FileSpec == FileInit /\ [][FileNext]_fileVars

(* Fairness: the cleanup ticker of main.go, which starts passes and takes  *)
(* their steps, the clock, and the storage, which finishes what it         *)
(* accepted.  A pass waits for a row in the queue of its lock, a request   *)
(* that holds one ends, at the latest with its timeout, and from some time *)
(* on passes do not fail any more.                                         *)
PassFails(w) == /\ ~PassDone(w)
                /\ Abandon(w) \/ \E a \in Attachments, k \in Keys : CleanHalf(w, a, k)

FileFairness ==
    /\ \A a \in Attachments :
          /\ WF_fileVars(EndPost(a) \/ EndCopy(a))
          /\ WF_fileVars(WindowPasses(a) \/ Ripens(a))
          /\ \A k \in Keys : WF_fileVars(ComesDue(a, k))
    /\ \A w \in Requests : WF_fileVars(Abandon(w))
    /\ \A w \in Cleaners :
          /\ WF_fileVars(PassStep(w))
          /\ \A a \in Attachments : SF_fileVars(LockCandidate(w, a))
    /\ <>[][\A w \in Cleaners : ~PassFails(w)]_fileVars

FileFairSpec == FileSpec /\ FileFairness

-----------------------------------------------------------------------------
(* Whatever completion, backfill, cleanup and late copies do to the bucket *)
(* at the same time, an attachment that may be downloaded has its final    *)
(* object, with the size and the type of its row.                          *)
Published(a) == status[a] \in {"uploaded", "attached"} /\ mapped[a] = "final"
PublishedIsStored == \A a \in Attachments : Published(a) => Conforms(bucket[a]["final"])

(* A stored message keeps all of its attachments: none is expired by a     *)
(* cleanup pass that saw it unlinked, and none is taken by the other       *)
(* message that checked it at the same time.                               *)
MessageKeepsFiles ==
    \A m \in Messages : message[m].phase = "stored" =>
        \A a \in message[m].files : status[a] = "attached" /\ link[a] = m

(* No object is forgotten: a staging object has its cleanup row, the final *)
(* and the legacy object have a row that still leads to their deletion, or *)
(* a cleanup row.  A crash between a copy and its commit, a write or a     *)
(* copy that ends after the deletion, all leave the bucket accounted for.  *)
NoForgottenObject ==
    \A a \in Attachments :
        /\ bucket[a]["staging"] # NoObject => cleanup[a]["staging"] # "none"
        /\ bucket[a]["final"] # NoObject =>
              status[a] \notin {"absent", "deleted"} \/ cleanup[a]["final"] # "none"
        /\ bucket[a]["legacy"] # NoObject =>
              (mapped[a] = "legacy" /\ status[a] # "deleted") \/ cleanup[a]["legacy"] # "none"

(* Concurrent intents of one owner do not exceed the quota together: no    *)
(* step raises the usage above it.                                         *)
QuotaKept == [][Usage' > Usage => Usage' <= Quota]_fileVars

(* Whatever is no longer wanted goes for good: an expired, failed or       *)
(* detached attachment is deleted though rows are locked and requests      *)
(* crash, and its objects with it, late copies and late writes included.   *)
GarbageGoes ==
    \A a \in Attachments :
        status[a] \in {"expired", "failed", "detached"}
            ~> [](status[a] = "deleted" /\ \A k \in Keys : bucket[a][k] = NoObject)

(* docs/adr/088: a replay of the staging object, before or after           *)
(* completion, does not change the bytes of a final attachment, and the    *)
(* loser of two completions does not copy over the published object.       *)
FinalIsImmutable ==
    [][\A a \in Attachments : Published(a) /\ Published(a)' =>
           bucket'[a]["final"] = bucket[a]["final"]]_fileVars
=============================================================================

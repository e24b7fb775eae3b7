-------------------------- MODULE AttachmentProofs --------------------------
(***************************************************************************)
(* Proofs about AttachmentLifecycle, for any number of attachments,        *)
(* messages, requests and cleanup loops, and any set of contents.          *)
(***************************************************************************)
EXTENDS AttachmentLifecycle, FiniteSetTheorems, TLAPS

(* A worker is at a step that needs a row exactly while it has one.        *)
RowOps == {"stat", "promote", "verify", "erase", "eraseFinal", "mark"}
OpsAgree == \A w \in Workers : job[w].op \in RowOps <=> job[w].file # NoFile

TypeInv == FileTypeOK /\ OpsAgree
WorkInv == WorkTypeOK /\ OpsAgree

-----------------------------------------------------------------------------
(* The usage is a number, because there are finitely many attachments.     *)
LEMMA UsageIsNat == Usage \in Nat /\ Usage' \in Nat
<1> DEFINE C == {a \in Attachments : status[a] \in Counted}
           D == {a \in Attachments : status'[a] \in Counted}
<1>1. IsFiniteSet(C) /\ IsFiniteSet(D)
  BY AttachmentAssumption, FS_Subset
<1>2. Cardinality(C) \in Nat /\ Cardinality(D) \in Nat
  BY <1>1, FS_CardinalityType
<1> QED
  BY <1>2 DEF Usage, Counted

(* The end of a transaction frees the rows of its worker and no others.    *)
LEMMA FinishKeepsWork ==
    ASSUME WorkInv, NEW w \in Workers, Finish(w)
    PROVE  WorkInv'
<1> USE DEF WorkInv, WorkTypeOK, LocksHeld, OpsAgree, Finish, Release, NoJob, NoPass, Files, Objects,
           Ops, RowOps, Workers
<1>1. lock' \in [Attachments -> Workers \cup {NoWorker}]
  BY AttachmentAssumption
<1>2. ownerLock' \in Workers \cup {NoWorker}
  OBVIOUS
<1>3. job' \in [Workers -> [op: Ops, file: Files, etag: Objects, used: Nat]]
  OBVIOUS
<1>4. pass' \in [Cleaners -> [keys: SUBSET (Attachments \X Keys), lapsed: SUBSET Attachments,
                              graced: SUBSET Attachments, old: SUBSET (Attachments \X Statuses),
                              queue: SUBSET Attachments]]
  OBVIOUS
<1>5. LocksHeld'
  BY AttachmentAssumption
<1>6. OpsAgree'
  OBVIOUS
<1> QED
  BY <1>1, <1>2, <1>3, <1>4, <1>5, <1>6

(* A worker that takes a row another transaction does not hold.            *)
LEMMA TakeKeepsWork ==
    ASSUME WorkInv, NEW w \in Workers, NEW a \in Attachments, NEW op \in RowOps, NEW e \in Objects,
           job[w].file = NoFile, Free(a), Locked(w, a), UNCHANGED <<ownerLock, pass>>,
           \/ job' = [job EXCEPT ![w] = [NoJob EXCEPT !.op = op, !.file = a]]
           \/ job' = [job EXCEPT ![w].op = op, ![w].file = a]
    PROVE  WorkInv'
<1> USE DEF WorkInv, WorkTypeOK, LocksHeld, OpsAgree, Free, Locked, NoJob, Files, Objects,
           Ops, RowOps, Workers
<1>1. lock' \in [Attachments -> Workers \cup {NoWorker}]
  BY AttachmentAssumption
<1> DEFINE Taken == /\ job' \in [Workers -> [op: Ops, file: Files, etag: Objects, used: Nat]]
                    /\ job'[w].op = op /\ job'[w].file = a
                    /\ \A v \in Workers \ {w} : job'[v] = job[v]
<1>2. ASSUME job' = [job EXCEPT ![w] = [NoJob EXCEPT !.op = op, !.file = a]] PROVE Taken
  BY <1>2
<1>3. ASSUME job' = [job EXCEPT ![w].op = op, ![w].file = a] PROVE Taken
  BY <1>3
<1>4. Taken
  BY <1>2, <1>3
<1>5. LocksHeld'
  BY <1>4, AttachmentAssumption
<1>6. OpsAgree'
  BY <1>4, AttachmentAssumption
<1> QED
  BY <1>1, <1>4, <1>5, <1>6

(* A worker that goes on without taking or leaving a row.                  *)
LEMMA GoKeepsWork ==
    ASSUME WorkInv, NEW w \in Workers, NEW op \in Ops, job[w].op \in RowOps <=> op \in RowOps,
           \/ job' = [job EXCEPT ![w].op = op]
           \/ \E e \in Objects : job' = [job EXCEPT ![w].op = op, ![w].etag = e],
           UNCHANGED <<lock, ownerLock, pass>>
    PROVE  WorkInv'
<1> USE DEF WorkInv, WorkTypeOK, LocksHeld, OpsAgree, Workers
<1>3. job' \in [Workers -> [op: Ops, file: Files, etag: Objects, used: Nat]]
  OBVIOUS
<1>5. LocksHeld'
  OBVIOUS
<1>6. OpsAgree'
  OBVIOUS
<1> QED
  BY <1>3, <1>5, <1>6

(* A cleaner that takes a candidate off its queue.                         *)
LEMMA LeaveKeepsWork ==
    ASSUME WorkInv, NEW w \in Cleaners, NEW a \in Attachments,
           pass' = [pass EXCEPT ![w].queue = @ \ {a}], UNCHANGED <<job, lock, ownerLock>>
    PROVE  WorkInv'
<1>1. pass' \in [Cleaners -> [keys: SUBSET (Attachments \X Keys), lapsed: SUBSET Attachments,
                              graced: SUBSET Attachments, old: SUBSET (Attachments \X Statuses),
                              queue: SUBSET Attachments]]
  BY DEF WorkInv, WorkTypeOK
<1> QED
  BY <1>1 DEF WorkInv, WorkTypeOK, LocksHeld, OpsAgree

-----------------------------------------------------------------------------
(* Every step keeps the types of the rows and of the clock.                *)
LEMMA RowTypeStep ==
    ASSUME TypeInv, [FileNext]_fileVars
    PROVE  RowTypeOK'
<1> USE DEF TypeInv, FileTypeOK, OpsAgree, RowTypeOK, Enter, Statuses, Sessions, Keys
<1>1. ASSUME NEW w \in Requests, NEW a \in Attachments, CreateIntent(w, a) PROVE RowTypeOK'
  <2>1. cleanup' \in [Attachments -> [Keys -> {"none", "waiting", "due"}]]
    <3>1. CASE WithinQuota(w)
      <4>1. cleanup' = [cleanup EXCEPT ![a]["staging"] = "waiting"]
        BY <1>1, <3>1 DEF CreateIntent
      <4> QED
        BY <4>1
    <3>2. CASE ~WithinQuota(w)
      BY <1>1, <3>2 DEF CreateIntent
    <3> QED
      BY <3>1, <3>2
  <2>2. status' \in [Attachments -> Statuses] /\ ripe' \in [Attachments -> BOOLEAN] /\ session' \in [Attachments -> Sessions]
    BY <1>1 DEF CreateIntent
  <2> QED
    BY <1>1, <2>1, <2>2 DEF CreateIntent
<1>2. ASSUME NEW w \in Requests, NEW a \in Attachments, BeginComplete(w, a) PROVE RowTypeOK'
  BY <1>2 DEF BeginComplete
<1>3. ASSUME NEW w \in Requests, StatSource(w) PROVE RowTypeOK'
  <2> DEFINE a == job[w].file
  <2>1. a \in Attachments
    BY <1>3 DEF StatSource, WorkTypeOK, RowOps, Files, Workers
  <2> QED
    BY <1>3, <2>1 DEF StatSource
<1>4. ASSUME NEW w \in Requests, PublishUpload(w) PROVE RowTypeOK'
  <2>1. job[w].file \in Attachments
    BY <1>4 DEF PublishUpload, WorkTypeOK, RowOps, Files, Workers
  <2> QED
    BY <1>4, <2>1 DEF PublishUpload
<1>5. ASSUME NEW w \in Requests, PublishLegacyFinalKey(w) PROVE RowTypeOK'
  <2>1. job[w].file \in Attachments
    BY <1>5 DEF PublishLegacyFinalKey, WorkTypeOK, RowOps, Files, Workers
  <2>2. cleanup' \in [Attachments -> [Keys -> {"none", "waiting", "due"}]]
    BY <1>5, <2>1 DEF PublishLegacyFinalKey
  <2>3. mapped' \in [Attachments -> {"final", "legacy"}]
    BY <1>5, <2>1 DEF PublishLegacyFinalKey
  <2> QED
    BY <1>5, <2>2, <2>3 DEF PublishLegacyFinalKey, clockVars
<1>6. ASSUME NEW w \in Cleaners, NEW a \in Attachments, NEW k \in Keys, CleanSource(w, a, k) PROVE RowTypeOK'
  <2>1. cleanup' \in [Attachments -> [Keys -> {"none", "waiting", "due"}]]
    BY <1>6 DEF CleanSource, Reschedule
  <2> QED
    BY <1>6, <2>1 DEF CleanSource, rowVars, clockVars
<1>7. ASSUME NEW w \in Cleaners, ExpirePending(w) PROVE RowTypeOK'
  BY <1>7 DEF ExpirePending, ExpireAll, ExpirablePending
<1>8. ASSUME NEW w \in Cleaners, ExpireOrphans(w) PROVE RowTypeOK'
  BY <1>8 DEF ExpireOrphans, ExpireAll, ExpirableOrphans
<1>9. ASSUME NEW w \in Cleaners, MarkDeleted(w) PROVE RowTypeOK'
  <2>1. job[w].file \in Attachments
    BY <1>9 DEF MarkDeleted, WorkTypeOK, RowOps, Files, Workers
  <2> QED
    BY <1>9, <2>1 DEF MarkDeleted, Retire
<1>10. ASSUME NEW m \in Messages, StoreMessage(m) PROVE RowTypeOK'
  <2>1. status' \in [Attachments -> Statuses] /\ ripe' \in [Attachments -> BOOLEAN]
    <3>1. CASE \A a \in message[m].files : MarkAttached(a) /\ link[a] = NoMessage
      <4>1. status' = [a \in Attachments |-> IF a \in message[m].files THEN "attached" ELSE status[a]]
        BY <1>10, <3>1, Zenon DEF StoreMessage
      <4>2. ripe' = [a \in Attachments |-> ripe[a] /\ a \notin message[m].files]
        BY <1>10, <3>1, Zenon DEF StoreMessage
      <4> QED
        BY <4>1, <4>2
    <3>2. CASE ~(\A a \in message[m].files : MarkAttached(a) /\ link[a] = NoMessage)
      BY <1>10, <3>2 DEF StoreMessage
    <3> QED
      BY <3>1, <3>2
  <2>2. link' \in [Attachments -> Messages \cup {NoMessage}]
    BY <1>10 DEF StoreMessage
  <2> QED
    BY <1>10, <2>1, <2>2 DEF StoreMessage
<1>11. ASSUME NEW m \in Messages, Tombstone(m) PROVE RowTypeOK'
  BY <1>11 DEF Tombstone
<1>12. ASSUME NEW a \in Attachments, WindowPasses(a) PROVE RowTypeOK'
  <2>1. window' \in [Attachments -> {"live", "lapsed", "graced"}]
    BY <1>12 DEF WindowPasses
  <2> QED
    BY <1>12, <2>1 DEF WindowPasses, rowVars
<1>13. ASSUME NEW a \in Attachments, Ripens(a) PROVE RowTypeOK'
  <2>1. ripe' \in [Attachments -> BOOLEAN]
    BY <1>13 DEF Ripens
  <2> QED
    BY <1>13, <2>1 DEF Ripens, rowVars
<1>14. ASSUME NEW a \in Attachments, NEW k \in Keys, ComesDue(a, k) PROVE RowTypeOK'
  <2>1. cleanup' \in [Attachments -> [Keys -> {"none", "waiting", "due"}]]
    BY <1>14 DEF ComesDue
  <2> QED
    BY <1>14, <2>1 DEF ComesDue, rowVars, clockVars
<1>15. ASSUME NEW w \in Requests,
             BeginIntent(w) \/ Promote(w) \/ LoseCopy(w)
      PROVE  RowTypeOK'
  BY <1>15 DEF BeginIntent, Promote, LoseCopy, rowVars, clockVars, storageVars, workVars
<1>16. ASSUME NEW w \in Requests, NEW a \in Attachments,
             BeginBackfill(w, a)
      PROVE  RowTypeOK'
  BY <1>16 DEF BeginBackfill, rowVars, clockVars, storageVars, workVars
<1>17. ASSUME NEW w \in Workers,
             Abandon(w)
      PROVE  RowTypeOK'
  BY <1>17 DEF Abandon, rowVars, clockVars, storageVars, workVars
<1>18. ASSUME NEW w \in Cleaners,
             BeginPass(w) \/ ListCandidates(w) \/ EraseObject(w) \/ PassDone(w)
      PROVE  RowTypeOK'
  BY <1>18 DEF BeginPass, ListCandidates, EraseObject, PassDone, rowVars, clockVars, storageVars,
       workVars
<1>19. ASSUME NEW w \in Cleaners, NEW a \in Attachments,
             LockCandidate(w, a)
      PROVE  RowTypeOK'
  BY <1>19 DEF LockCandidate, rowVars, clockVars, storageVars, workVars
<1>20. ASSUME NEW w \in Cleaners, NEW a \in Attachments, NEW k \in Keys,
             CleanHalf(w, a, k)
      PROVE  RowTypeOK'
  BY <1>20 DEF CleanHalf, rowVars, clockVars, storageVars, workVars
<1>21. ASSUME NEW m \in Messages, NEW files \in SUBSET Attachments,
             CheckAttachments(m, files)
      PROVE  RowTypeOK'
  BY <1>21 DEF CheckAttachments, rowVars, clockVars, storageVars, workVars
<1>22. ASSUME NEW a \in Attachments, NEW c \in Contents \cup {Bad},
             BeginPost(a, c)
      PROVE  RowTypeOK'
  BY <1>22 DEF BeginPost, rowVars, clockVars, storageVars, workVars
<1>23. ASSUME NEW a \in Attachments,
             EndPost(a) \/ EndCopy(a)
      PROVE  RowTypeOK'
  BY <1>23 DEF EndPost, EndCopy, rowVars, clockVars, storageVars, workVars
<1>24. ASSUME UNCHANGED fileVars PROVE RowTypeOK'
  BY <1>24 DEF fileVars, rowVars, clockVars, storageVars, workVars
<1> QED
  BY <1>1, <1>2, <1>3, <1>4, <1>5, <1>6, <1>7, <1>8, <1>9, <1>10, <1>11, <1>12, <1>13, <1>14,
       <1>15, <1>16, <1>17, <1>18, <1>19, <1>20, <1>21, <1>22, <1>23, <1>24 DEF FileNext,
       RequestStep, PassStep, Workers

(* Every step keeps the types of the objects.                              *)
LEMMA StorageTypeStep ==
    ASSUME TypeInv, [FileNext]_fileVars
    PROVE  StorageTypeOK'
<1> USE DEF TypeInv, FileTypeOK, OpsAgree, RowTypeOK, StorageTypeOK, Objects, Keys
<1>1. ASSUME NEW w \in Requests, Promote(w) PROVE StorageTypeOK'
  <2>1. job[w].file \in Attachments
    BY <1>1 DEF Promote, WorkTypeOK, RowOps, Files, Workers
  <2> QED
    BY <1>1, <2>1 DEF Promote
<1>2. ASSUME NEW w \in Requests, LoseCopy(w) PROVE StorageTypeOK'
  <2>1. job[w].file \in Attachments
    BY <1>2 DEF LoseCopy, WorkTypeOK, RowOps, Files, Workers
  <2> QED
    BY <1>2, <2>1 DEF LoseCopy
<1>3. ASSUME NEW w \in Cleaners, EraseObject(w) PROVE StorageTypeOK'
  <2>1. job[w].file \in Attachments
    BY <1>3 DEF EraseObject, WorkTypeOK, RowOps, Files, Workers
  <2> QED
    BY <1>3, <2>1 DEF EraseObject
<1>4. ASSUME NEW w \in Cleaners, NEW a \in Attachments, NEW k \in Keys, CleanSource(w, a, k) PROVE StorageTypeOK'
  BY <1>4 DEF CleanSource
<1>5. ASSUME NEW w \in Cleaners, NEW a \in Attachments, NEW k \in Keys, CleanHalf(w, a, k) PROVE StorageTypeOK'
  BY <1>5 DEF CleanHalf
<1>6. ASSUME NEW a \in Attachments, NEW c \in Contents \cup {Bad}, BeginPost(a, c) PROVE StorageTypeOK'
  BY <1>6 DEF BeginPost
<1>7. ASSUME NEW a \in Attachments, EndPost(a) PROVE StorageTypeOK'
  <2>1. posting' \in [Attachments -> Objects]
    BY <1>7 DEF EndPost
  <2>2. bucket' \in [Attachments -> [Keys -> Objects]]
    <3>1. CASE bucket' = [bucket EXCEPT ![a][source[a]] = posting[a]]
      BY <3>1
    <3>2. CASE UNCHANGED bucket
      BY <3>2
    <3> QED
      BY <1>7, <3>1, <3>2 DEF EndPost
  <2> QED
    BY <1>7, <2>1, <2>2 DEF EndPost
<1>8. ASSUME NEW a \in Attachments, EndCopy(a) PROVE StorageTypeOK'
  <2>1. copying' \in [Attachments -> Objects]
    BY <1>8 DEF EndCopy
  <2>2. bucket' \in [Attachments -> [Keys -> Objects]]
    <3>1. CASE bucket' = [bucket EXCEPT ![a]["final"] = copying[a]]
      BY <3>1
    <3>2. CASE UNCHANGED bucket
      BY <3>2
    <3> QED
      BY <1>8, <3>1, <3>2 DEF EndCopy
  <2> QED
    BY <1>8, <2>1, <2>2 DEF EndCopy
<1>9. ASSUME NEW w \in Requests,
             BeginIntent(w) \/ StatSource(w) \/ PublishUpload(w) \/ PublishLegacyFinalKey(w)
      PROVE  StorageTypeOK'
  BY <1>9 DEF BeginIntent, StatSource, PublishUpload, PublishLegacyFinalKey, rowVars, clockVars,
       storageVars, workVars
<1>10. ASSUME NEW w \in Requests, NEW a \in Attachments,
             CreateIntent(w, a) \/ BeginComplete(w, a) \/ BeginBackfill(w, a)
      PROVE  StorageTypeOK'
  BY <1>10 DEF CreateIntent, BeginComplete, BeginBackfill, rowVars, clockVars, storageVars, workVars
<1>11. ASSUME NEW w \in Workers,
             Abandon(w)
      PROVE  StorageTypeOK'
  BY <1>11 DEF Abandon, rowVars, clockVars, storageVars, workVars
<1>12. ASSUME NEW w \in Cleaners,
             BeginPass(w) \/ ExpirePending(w) \/ ExpireOrphans(w) \/ ListCandidates(w) \/
             MarkDeleted(w) \/ PassDone(w)
      PROVE  StorageTypeOK'
  BY <1>12 DEF BeginPass, ExpirePending, ExpireOrphans, ListCandidates, MarkDeleted, PassDone,
       rowVars, clockVars, storageVars, workVars
<1>13. ASSUME NEW w \in Cleaners, NEW a \in Attachments,
             LockCandidate(w, a)
      PROVE  StorageTypeOK'
  BY <1>13 DEF LockCandidate, rowVars, clockVars, storageVars, workVars
<1>14. ASSUME NEW m \in Messages, NEW files \in SUBSET Attachments,
             CheckAttachments(m, files)
      PROVE  StorageTypeOK'
  BY <1>14 DEF CheckAttachments, rowVars, clockVars, storageVars, workVars
<1>15. ASSUME NEW m \in Messages,
             StoreMessage(m) \/ Tombstone(m)
      PROVE  StorageTypeOK'
  BY <1>15 DEF StoreMessage, Tombstone, rowVars, clockVars, storageVars, workVars
<1>16. ASSUME NEW a \in Attachments,
             WindowPasses(a) \/ Ripens(a)
      PROVE  StorageTypeOK'
  BY <1>16 DEF WindowPasses, Ripens, rowVars, clockVars, storageVars, workVars
<1>17. ASSUME NEW a \in Attachments, NEW k \in Keys,
             ComesDue(a, k)
      PROVE  StorageTypeOK'
  BY <1>17 DEF ComesDue, rowVars, clockVars, storageVars, workVars
<1>18. ASSUME UNCHANGED fileVars PROVE StorageTypeOK'
  BY <1>18 DEF fileVars, rowVars, clockVars, storageVars, workVars
<1> QED
  BY <1>1, <1>2, <1>3, <1>4, <1>5, <1>6, <1>7, <1>8, <1>9, <1>10, <1>11, <1>12, <1>13, <1>14,
       <1>15, <1>16, <1>17, <1>18 DEF FileNext, RequestStep, PassStep, Workers

(* Every step keeps the types of the messages.                             *)
LEMMA MessageTypeStep ==
    ASSUME TypeInv, [FileNext]_fileVars
    PROVE  MessageTypeOK'
<1> USE DEF TypeInv, FileTypeOK, MessageTypeOK
<1>1. ASSUME NEW m \in Messages, NEW files \in SUBSET Attachments, CheckAttachments(m, files) PROVE MessageTypeOK'
  BY <1>1 DEF CheckAttachments
<1>2. ASSUME NEW m \in Messages, StoreMessage(m) PROVE MessageTypeOK'
  BY <1>2 DEF StoreMessage
<1>3. ASSUME NEW m \in Messages, Tombstone(m) PROVE MessageTypeOK'
  BY <1>3 DEF Tombstone
<1>4. ASSUME NEW w \in Requests,
             BeginIntent(w) \/ StatSource(w) \/ Promote(w) \/ LoseCopy(w) \/ PublishUpload(w)
             \/ PublishLegacyFinalKey(w)
      PROVE  MessageTypeOK'
  BY <1>4 DEF BeginIntent, StatSource, Promote, LoseCopy, PublishUpload, PublishLegacyFinalKey,
       rowVars, clockVars, storageVars, workVars
<1>5. ASSUME NEW w \in Requests, NEW a \in Attachments,
             CreateIntent(w, a) \/ BeginComplete(w, a) \/ BeginBackfill(w, a)
      PROVE  MessageTypeOK'
  BY <1>5 DEF CreateIntent, BeginComplete, BeginBackfill, rowVars, clockVars, storageVars, workVars
<1>6. ASSUME NEW w \in Workers,
             Abandon(w)
      PROVE  MessageTypeOK'
  BY <1>6 DEF Abandon, rowVars, clockVars, storageVars, workVars
<1>7. ASSUME NEW w \in Cleaners,
             BeginPass(w) \/ ExpirePending(w) \/ ExpireOrphans(w) \/ ListCandidates(w) \/
             EraseObject(w) \/ MarkDeleted(w) \/ PassDone(w)
      PROVE  MessageTypeOK'
  BY <1>7 DEF BeginPass, ExpirePending, ExpireOrphans, ListCandidates, EraseObject, MarkDeleted,
       PassDone, rowVars, clockVars, storageVars, workVars
<1>8. ASSUME NEW w \in Cleaners, NEW a \in Attachments,
             LockCandidate(w, a)
      PROVE  MessageTypeOK'
  BY <1>8 DEF LockCandidate, rowVars, clockVars, storageVars, workVars
<1>9. ASSUME NEW w \in Cleaners, NEW a \in Attachments, NEW k \in Keys,
             CleanSource(w, a, k) \/ CleanHalf(w, a, k)
      PROVE  MessageTypeOK'
  BY <1>9 DEF CleanSource, CleanHalf, rowVars, clockVars, storageVars, workVars
<1>10. ASSUME NEW a \in Attachments, NEW c \in Contents \cup {Bad},
             BeginPost(a, c)
      PROVE  MessageTypeOK'
  BY <1>10 DEF BeginPost, rowVars, clockVars, storageVars, workVars
<1>11. ASSUME NEW a \in Attachments,
             EndPost(a) \/ EndCopy(a) \/ WindowPasses(a) \/ Ripens(a)
      PROVE  MessageTypeOK'
  BY <1>11 DEF EndPost, EndCopy, WindowPasses, Ripens, rowVars, clockVars, storageVars, workVars
<1>12. ASSUME NEW a \in Attachments, NEW k \in Keys,
             ComesDue(a, k)
      PROVE  MessageTypeOK'
  BY <1>12 DEF ComesDue, rowVars, clockVars, storageVars, workVars
<1>13. ASSUME UNCHANGED fileVars PROVE MessageTypeOK'
  BY <1>13 DEF fileVars, rowVars, clockVars, storageVars, workVars
<1> QED
  BY <1>1, <1>2, <1>3, <1>4, <1>5, <1>6, <1>7, <1>8, <1>9, <1>10, <1>11, <1>12, <1>13 DEF
       FileNext, RequestStep, PassStep, Workers

(* Every step keeps the locks in agreement with the workers.               *)
LEMMA WorkStep ==
    ASSUME TypeInv, [FileNext]_fileVars
    PROVE  WorkInv'
<1> USE DEF TypeInv, FileTypeOK, WorkInv
<1>1. ASSUME NEW w \in Requests, BeginIntent(w) PROVE WorkInv'
  <2>1. Usage \in Nat
    BY UsageIsNat
  <2>2. job' \in [Workers -> [op: Ops, file: Files, etag: Objects, used: Nat]]
    BY <1>1, <2>1 DEF BeginIntent, WorkTypeOK, Ops, Files, Objects, NoJob
  <2>3. LocksHeld' /\ OpsAgree'
    BY <1>1, AttachmentAssumption DEF BeginIntent, WorkTypeOK, OpsAgree, LocksHeld, NoJob, RowOps,
         Workers
  <2> QED
    BY <1>1, <2>2, <2>3 DEF BeginIntent, LockQuotaOwner, WorkTypeOK, Workers
<1>2. ASSUME NEW w \in Requests, NEW a \in Attachments, CreateIntent(w, a) PROVE WorkInv'
  BY <1>2, FinishKeepsWork DEF CreateIntent, Workers
<1>3. ASSUME NEW w \in Requests, NEW a \in Attachments, BeginComplete(w, a) PROVE WorkInv'
  <2>1. CASE window[a] = "live"
    BY <1>3, <2>1, TakeKeepsWork DEF BeginComplete, Workers, RowOps, OpsAgree, WorkTypeOK
  <2>2. CASE window[a] # "live"
    BY <1>3, <2>2 DEF BeginComplete, WorkTypeOK, LocksHeld, OpsAgree
  <2> QED
    BY <2>1, <2>2
<1>4. ASSUME NEW w \in Requests, NEW a \in Attachments, BeginBackfill(w, a) PROVE WorkInv'
  BY <1>4, TakeKeepsWork DEF BeginBackfill, Workers, RowOps, OpsAgree, WorkTypeOK
<1>5. ASSUME NEW w \in Requests, StatSource(w) PROVE WorkInv'
  <2>1. job[w].file \in Attachments
    BY <1>5 DEF StatSource, WorkTypeOK, OpsAgree, RowOps, Files, Workers
  <2>2. CASE Conforms(bucket[job[w].file][source[job[w].file]])
    BY <1>5, <2>1, <2>2, GoKeepsWork DEF StatSource, Conforms, Workers, Ops, RowOps, Objects, NoJob
  <2>3. CASE ~Conforms(bucket[job[w].file][source[job[w].file]])
    BY <1>5, <2>3, FinishKeepsWork DEF StatSource, Workers
  <2> QED
    BY <2>2, <2>3
<1>6. ASSUME NEW w \in Requests, Promote(w) PROVE WorkInv'
  BY <1>6, GoKeepsWork DEF Promote, Goto, Workers, Ops, RowOps
<1>7. ASSUME NEW w \in Requests, LoseCopy(w) PROVE WorkInv'
  BY <1>7, FinishKeepsWork DEF LoseCopy, Workers
<1>8. ASSUME NEW w \in Requests, PublishUpload(w) PROVE WorkInv'
  BY <1>8, FinishKeepsWork DEF PublishUpload, Workers
<1>9. ASSUME NEW w \in Requests, PublishLegacyFinalKey(w) PROVE WorkInv'
  BY <1>9, FinishKeepsWork DEF PublishLegacyFinalKey, Workers
<1>10. ASSUME NEW w \in Workers, Abandon(w) PROVE WorkInv'
  BY <1>10, FinishKeepsWork DEF Abandon, Workers
<1>11. ASSUME NEW w \in Cleaners, BeginPass(w) PROVE WorkInv'
  <2>1. pass' \in [Cleaners -> [keys: SUBSET (Attachments \X Keys), lapsed: SUBSET Attachments,
                   graced: SUBSET Attachments, old: SUBSET (Attachments \X Statuses), queue: SUBSET Attachments]]
    BY <1>11 DEF BeginPass, WorkTypeOK
  <2>2. job' = [job EXCEPT ![w].op = "sources"] /\ UNCHANGED <<lock, ownerLock>>
    BY <1>11 DEF BeginPass, Goto
  <2>3. job' \in [Workers -> [op: Ops, file: Files, etag: Objects, used: Nat]]
    BY <2>2 DEF WorkTypeOK, Ops, Workers
  <2>4. LocksHeld' /\ OpsAgree'
    BY <1>11, <2>2 DEF BeginPass, WorkTypeOK, LocksHeld, OpsAgree, RowOps, Workers
  <2> QED
    BY <2>1, <2>2, <2>3, <2>4 DEF WorkTypeOK
<1>12. ASSUME NEW w \in Cleaners, ExpirePending(w) PROVE WorkInv'
  BY <1>12, GoKeepsWork DEF ExpirePending, Goto, Workers, Ops, RowOps
<1>13. ASSUME NEW w \in Cleaners, ExpireOrphans(w) PROVE WorkInv'
  BY <1>13, GoKeepsWork DEF ExpireOrphans, Goto, Workers, Ops, RowOps
<1>14. ASSUME NEW w \in Cleaners, ListCandidates(w) PROVE WorkInv'
  <2>1. pass' \in [Cleaners -> [keys: SUBSET (Attachments \X Keys), lapsed: SUBSET Attachments,
                   graced: SUBSET Attachments, old: SUBSET (Attachments \X Statuses), queue: SUBSET Attachments]]
    BY <1>14 DEF ListCandidates, WorkTypeOK
  <2>2. job' = [job EXCEPT ![w].op = "delete"] /\ UNCHANGED <<lock, ownerLock>>
    BY <1>14 DEF ListCandidates, Goto
  <2>3. job' \in [Workers -> [op: Ops, file: Files, etag: Objects, used: Nat]]
    BY <2>2 DEF WorkTypeOK, Ops, Workers
  <2>4. LocksHeld' /\ OpsAgree'
    BY <1>14, <2>2 DEF ListCandidates, WorkTypeOK, LocksHeld, OpsAgree, RowOps, Workers
  <2> QED
    BY <2>1, <2>2, <2>3, <2>4 DEF WorkTypeOK
<1>15. ASSUME NEW w \in Cleaners, NEW a \in Attachments, LockCandidate(w, a) PROVE WorkInv'
  <2>1. CASE EligibleUnderLock(w, a)
    BY <1>15, <2>1, TakeKeepsWork DEF LockCandidate, Workers, RowOps, OpsAgree, WorkTypeOK, Objects
  <2>2. CASE ~EligibleUnderLock(w, a)
    BY <1>15, <2>2, LeaveKeepsWork DEF LockCandidate
  <2> QED
    BY <2>1, <2>2
<1>16. ASSUME NEW w \in Cleaners, NEW a \in Attachments, NEW k \in Keys, CleanSource(w, a, k) PROVE WorkInv'
  <2>1. pass' \in [Cleaners -> [keys: SUBSET (Attachments \X Keys), lapsed: SUBSET Attachments,
                   graced: SUBSET Attachments, old: SUBSET (Attachments \X Statuses), queue: SUBSET Attachments]]
    BY <1>16 DEF CleanSource, WorkTypeOK
  <2> QED
    BY <1>16, <2>1 DEF CleanSource, WorkTypeOK, LocksHeld, OpsAgree
<1>17. ASSUME NEW w \in Cleaners, NEW a \in Attachments, NEW k \in Keys, CleanHalf(w, a, k) PROVE WorkInv'
  BY <1>17, FinishKeepsWork DEF CleanHalf, Workers
<1>18. ASSUME NEW w \in Cleaners, EraseObject(w) PROVE WorkInv'
  <2>1. CASE (IF job[w].op = "erase" THEN mapped[job[w].file] ELSE "final") = "legacy"
    BY <1>18, <2>1, GoKeepsWork DEF EraseObject, Goto, Workers, Ops, RowOps
  <2>2. CASE (IF job[w].op = "erase" THEN mapped[job[w].file] ELSE "final") # "legacy"
    BY <1>18, <2>2, GoKeepsWork DEF EraseObject, Goto, Workers, Ops, RowOps
  <2> QED
    BY <2>1, <2>2
<1>19. ASSUME NEW w \in Cleaners, MarkDeleted(w) PROVE WorkInv'
  <2> DEFINE a == job[w].file
  <2>1. a \in Attachments /\ lock[a] = w
    BY <1>19 DEF MarkDeleted, WorkTypeOK, LocksHeld, OpsAgree, RowOps, Files, Workers
  <2>2. /\ lock' = [lock EXCEPT ![a] = NoWorker] /\ UNCHANGED ownerLock
        /\ job' = [job EXCEPT ![w] = [NoJob EXCEPT !.op = "delete"]]
        /\ pass' = [pass EXCEPT ![w].queue = @ \ {a}]
    BY <1>19 DEF MarkDeleted
  <2>3. job' \in [Workers -> [op: Ops, file: Files, etag: Objects, used: Nat]]
    BY <2>2 DEF WorkTypeOK, Ops, Files, Objects, NoJob, Workers
  <2>4. job'[w].op = "delete" /\ job'[w].file = NoFile /\ \A v \in Workers \ {w} : job'[v] = job[v]
    BY <2>2 DEF WorkTypeOK, NoJob, Workers
  <2>5. LocksHeld' /\ OpsAgree'
    BY <2>1, <2>2, <2>3, <2>4, AttachmentAssumption DEF WorkTypeOK, LocksHeld, OpsAgree, RowOps,
         Workers
  <2>6. pass' \in [Cleaners -> [keys: SUBSET (Attachments \X Keys), lapsed: SUBSET Attachments,
                   graced: SUBSET Attachments, old: SUBSET (Attachments \X Statuses), queue: SUBSET Attachments]]
    BY <2>2 DEF WorkTypeOK
  <2>7. lock' \in [Attachments -> Workers \cup {NoWorker}] /\ ownerLock' \in Workers \cup {NoWorker}
    BY <2>1, <2>2 DEF WorkTypeOK
  <2> QED
    BY <2>3, <2>5, <2>6, <2>7 DEF WorkTypeOK
<1>20. ASSUME NEW w \in Cleaners, PassDone(w) PROVE WorkInv'
  BY <1>20, FinishKeepsWork DEF PassDone, Workers
<1>21. ASSUME NEW m \in Messages, NEW files \in SUBSET Attachments,
             CheckAttachments(m, files)
      PROVE  WorkInv'
  BY <1>21 DEF CheckAttachments, rowVars, clockVars, storageVars, workVars, WorkTypeOK, LocksHeld,
       OpsAgree
<1>22. ASSUME NEW m \in Messages,
             StoreMessage(m) \/ Tombstone(m)
      PROVE  WorkInv'
  BY <1>22 DEF StoreMessage, Tombstone, rowVars, clockVars, storageVars, workVars, WorkTypeOK,
       LocksHeld, OpsAgree
<1>23. ASSUME NEW a \in Attachments, NEW c \in Contents \cup {Bad},
             BeginPost(a, c)
      PROVE  WorkInv'
  BY <1>23 DEF BeginPost, rowVars, clockVars, storageVars, workVars, WorkTypeOK, LocksHeld, OpsAgree
<1>24. ASSUME NEW a \in Attachments,
             EndPost(a) \/ EndCopy(a) \/ WindowPasses(a) \/ Ripens(a)
      PROVE  WorkInv'
  BY <1>24 DEF EndPost, EndCopy, WindowPasses, Ripens, rowVars, clockVars, storageVars, workVars,
       WorkTypeOK, LocksHeld, OpsAgree
<1>25. ASSUME NEW a \in Attachments, NEW k \in Keys,
             ComesDue(a, k)
      PROVE  WorkInv'
  BY <1>25 DEF ComesDue, rowVars, clockVars, storageVars, workVars, WorkTypeOK, LocksHeld, OpsAgree
<1>26. ASSUME UNCHANGED fileVars PROVE WorkInv'
  BY <1>26 DEF fileVars, rowVars, clockVars, storageVars, workVars, WorkTypeOK, LocksHeld, OpsAgree
<1> QED
  BY <1>1, <1>2, <1>3, <1>4, <1>5, <1>6, <1>7, <1>8, <1>9, <1>10, <1>11, <1>12, <1>13, <1>14,
       <1>15, <1>16, <1>17, <1>18, <1>19, <1>20, <1>21, <1>22, <1>23, <1>24, <1>25, <1>26 DEF
       FileNext, RequestStep, PassStep, Workers

(* The initial states have their types, and every step keeps them.         *)
LEMMA TypeInit == FileInit => TypeInv
<1> SUFFICES ASSUME FileInit PROVE TypeInv
  OBVIOUS
<1> USE DEF FileInit
<1>1. RowTypeOK
  BY DEF RowTypeOK, Statuses, Sessions, Keys
<1>2. StorageTypeOK
  BY DEF StorageTypeOK, Objects
<1>3. WorkTypeOK /\ OpsAgree
  BY AttachmentAssumption DEF WorkTypeOK, OpsAgree, LocksHeld, NoJob, NoPass, Ops, Files, Objects, RowOps, Workers
<1>4. MessageTypeOK
  BY DEF MessageTypeOK
<1> QED
  BY <1>1, <1>2, <1>3, <1>4 DEF TypeInv, FileTypeOK

(* As one statement.                                                       *)
LEMMA TypeStep == TypeInv /\ [FileNext]_fileVars => TypeInv'
BY RowTypeStep, StorageTypeStep, MessageTypeStep, WorkStep DEF TypeInv, FileTypeOK, WorkInv

(* The types, and a lock for every transaction under way and no other.     *)
THEOREM FileTypes == FileSpec => []FileTypeOK
<1>1. TypeInv => FileTypeOK
  BY DEF TypeInv
<1> QED
  BY <1>1, TypeInit, TypeStep, PTL DEF FileSpec

-----------------------------------------------------------------------------
(* The inductive invariant.  RowInv: which rows of the cleanup a row has   *)
(* in each of its statuses.  ObjectInv: which objects there can be.        *)
(* JobInv: what a transaction read under its lock is still so.  PassInv:   *)
(* the final object is a source to clean only after its row is deleted.    *)
RowOK(a) ==
    /\ status[a] = "absent" <=> session[a] = "absent"
    /\ status[a] = "absent" => source[a] = "staging"
    /\ source[a] = "staging" => mapped[a] = "final"
    /\ source[a] = "staging" /\ status[a] # "absent" => cleanup[a]["staging"] # "none"
    /\ source[a] = "legacy" /\ (mapped[a] = "final" \/ status[a] = "deleted") =>
          cleanup[a]["legacy"] # "none"
    /\ cleanup[a]["final"] # "none" <=> status[a] = "deleted"
RowInv == \A a \in Attachments : RowOK(a)

ObjectInv == \A a \in Attachments :
    /\ source[a] = "staging" => bucket[a]["legacy"] = NoObject
    /\ source[a] = "legacy" => bucket[a]["staging"] = NoObject
    /\ status[a] = "absent" => /\ posting[a] = NoObject /\ copying[a] = NoObject
                               /\ \A k \in Keys : bucket[a][k] = NoObject
    /\ copying[a] \in Contents \cup {NoObject}

Completing(a) ==
    \/ mapped[a] = "final" /\ status[a] = "pending" /\ session[a] = "pending"
    \/ mapped[a] = "legacy" /\ status[a] \in {"uploaded", "attached", "detached"}
JobInv == \A w \in Workers :
    /\ job[w].op \in {"stat", "promote", "verify"} => Completing(job[w].file)
    /\ job[w].op \in {"erase", "eraseFinal", "mark"} =>
          status[job[w].file] \in {"expired", "failed", "detached"}
    /\ job[w].op = "promote" => job[w].etag \in Contents

PassInv == \A w \in Cleaners, a \in Attachments :
    <<a, "final">> \in pass[w].keys => status[a] = "deleted"

FileInv == TypeInv /\ RowInv /\ ObjectInv /\ JobInv /\ PassInv
           /\ PublishedIsStored /\ MessageKeepsFiles

(* A reserved usage is an upper bound for as long as the owner is locked.  *)
QuotaInv == \A w \in Workers :
    job[w].op = "reserve" => ownerLock = w /\ Usage <= job[w].used

-----------------------------------------------------------------------------
(* A worker at a row has locked it, and is the only one there.             *)
LEMMA AtRow ==
    ASSUME TypeInv, NEW w \in Workers, job[w].op \in RowOps
    PROVE  /\ job[w].file \in Attachments
           /\ lock[job[w].file] = w
           /\ \A v \in Workers : job[v].file = job[w].file => v = w
BY DEF TypeInv, FileTypeOK, WorkTypeOK, OpsAgree, LocksHeld, Files, Workers

(* The rows of the cleanup follow the rows of the attachments.             *)
LEMMA RowStep ==
    ASSUME FileInv, [FileNext]_fileVars
    PROVE  RowInv'
<1> USE DEF FileInv, TypeInv, FileTypeOK, RowTypeOK, Enter, Keys, RowInv, RowOK
<1>1. ASSUME NEW w \in Requests, NEW a \in Attachments, CreateIntent(w, a) PROVE RowInv'
  <2>1. CASE WithinQuota(w)
    BY <1>1, <2>1 DEF CreateIntent
  <2>2. CASE ~WithinQuota(w)
    BY <1>1, <2>2 DEF CreateIntent
  <2> QED
    BY <2>1, <2>2
<1>2. ASSUME NEW w \in Requests, NEW a \in Attachments, BeginComplete(w, a) PROVE RowInv'
  BY <1>2 DEF BeginComplete, StillPending
<1>3. ASSUME NEW w \in Requests, StatSource(w) PROVE RowInv'
  <2>1. job[w].file \in Attachments /\ lock[job[w].file] = w
    BY <1>3, AtRow DEF StatSource, RowOps, Workers
  <2> QED
    BY <1>3, <2>1 DEF StatSource, JobInv, Completing, Workers
<1>4. ASSUME NEW w \in Requests, PublishUpload(w) PROVE RowInv'
  <2>1. job[w].file \in Attachments /\ lock[job[w].file] = w
    BY <1>4, AtRow DEF PublishUpload, RowOps, Workers
  <2> QED
    BY <1>4, <2>1 DEF PublishUpload, JobInv, Completing, Workers
<1>5. ASSUME NEW w \in Requests, PublishLegacyFinalKey(w) PROVE RowInv'
  <2>1. job[w].file \in Attachments /\ lock[job[w].file] = w
    BY <1>5, AtRow DEF PublishLegacyFinalKey, RowOps, Workers
  <2> QED
    BY <1>5, <2>1 DEF PublishLegacyFinalKey, JobInv, Completing, Workers
<1>6. ASSUME NEW w \in Cleaners, NEW a \in Attachments, NEW k \in Keys, CleanSource(w, a, k) PROVE RowInv'
  BY <1>6 DEF CleanSource, Reschedule, PassInv, rowVars
<1>7. ASSUME NEW w \in Cleaners, ExpirePending(w) PROVE RowInv'
  BY <1>7 DEF ExpirePending, ExpireAll, ExpirablePending
<1>8. ASSUME NEW w \in Cleaners, ExpireOrphans(w) PROVE RowInv'
  BY <1>8 DEF ExpireOrphans, ExpireAll, ExpirableOrphans
<1>9. ASSUME NEW w \in Cleaners, MarkDeleted(w) PROVE RowInv'
  <2>1. job[w].file \in Attachments /\ lock[job[w].file] = w
    BY <1>9, AtRow DEF MarkDeleted, RowOps, Workers
  <2>8. PICK b \in Attachments : b = job[w].file
    BY <2>1
  <2>2. /\ UNCHANGED <<mapped, source>>
        /\ status[b] \in {"expired", "failed", "detached"}
        /\ session[b] # "absent"
    BY <1>9, <2>1, <2>8 DEF MarkDeleted, JobInv, Workers
  <2>3. ASSUME NEW a \in Attachments, a # b
        PROVE  /\ status'[a] = status[a] /\ session'[a] = session[a]
               /\ cleanup'[a] = cleanup[a]
    BY <1>9, <2>1, <2>8, <2>3 DEF MarkDeleted, Retire
  <2>4. status'[b] = "deleted" /\ session'[b] # "absent"
    BY <1>9, <2>1, <2>8, <2>2 DEF MarkDeleted, Retire
  <2>5. /\ cleanup'[b]["final"] # "none"
        /\ source[b] = "staging" => cleanup'[b]["staging"] # "none"
        /\ source[b] = "legacy" => cleanup'[b]["legacy"] # "none"
    BY <1>9, <2>1, <2>8, <2>2 DEF MarkDeleted, Retire
  <2>6. ASSUME NEW a \in Attachments, a # b PROVE RowOK(a)'
    BY <2>2, <2>3, <2>6
  <2>7. RowOK(b)'
    BY <2>2, <2>4, <2>5
  <2> QED
    BY <2>6, <2>7
<1>10. ASSUME NEW m \in Messages, StoreMessage(m) PROVE RowInv'
  <2>1. CASE \A a \in message[m].files : MarkAttached(a) /\ link[a] = NoMessage
    BY <1>10, <2>1 DEF StoreMessage, MarkAttached
  <2>2. CASE ~(\A a \in message[m].files : MarkAttached(a) /\ link[a] = NoMessage)
    BY <1>10, <2>2 DEF StoreMessage
  <2> QED
    BY <2>1, <2>2
<1>11. ASSUME NEW m \in Messages, Tombstone(m) PROVE RowInv'
  BY <1>11 DEF Tombstone, HeldBy
<1>12. ASSUME NEW a \in Attachments, NEW k \in Keys, ComesDue(a, k) PROVE RowInv'
  BY <1>12 DEF ComesDue, rowVars
<1>13. ASSUME NEW w \in Requests,
             BeginIntent(w) \/ Promote(w) \/ LoseCopy(w)
      PROVE  RowInv'
  BY <1>13 DEF BeginIntent, Promote, LoseCopy, rowVars, clockVars, storageVars, workVars
<1>14. ASSUME NEW w \in Requests, NEW a \in Attachments,
             BeginBackfill(w, a)
      PROVE  RowInv'
  BY <1>14 DEF BeginBackfill, rowVars, clockVars, storageVars, workVars
<1>15. ASSUME NEW w \in Workers,
             Abandon(w)
      PROVE  RowInv'
  BY <1>15 DEF Abandon, rowVars, clockVars, storageVars, workVars
<1>16. ASSUME NEW w \in Cleaners,
             BeginPass(w) \/ ListCandidates(w) \/ EraseObject(w) \/ PassDone(w)
      PROVE  RowInv'
  BY <1>16 DEF BeginPass, ListCandidates, EraseObject, PassDone, rowVars, clockVars, storageVars,
       workVars
<1>17. ASSUME NEW w \in Cleaners, NEW a \in Attachments,
             LockCandidate(w, a)
      PROVE  RowInv'
  BY <1>17 DEF LockCandidate, rowVars, clockVars, storageVars, workVars
<1>18. ASSUME NEW w \in Cleaners, NEW a \in Attachments, NEW k \in Keys,
             CleanHalf(w, a, k)
      PROVE  RowInv'
  BY <1>18 DEF CleanHalf, rowVars, clockVars, storageVars, workVars
<1>19. ASSUME NEW m \in Messages, NEW files \in SUBSET Attachments,
             CheckAttachments(m, files)
      PROVE  RowInv'
  BY <1>19 DEF CheckAttachments, rowVars, clockVars, storageVars, workVars
<1>20. ASSUME NEW a \in Attachments, NEW c \in Contents \cup {Bad},
             BeginPost(a, c)
      PROVE  RowInv'
  BY <1>20 DEF BeginPost, rowVars, clockVars, storageVars, workVars
<1>21. ASSUME NEW a \in Attachments,
             EndPost(a) \/ EndCopy(a) \/ WindowPasses(a) \/ Ripens(a)
      PROVE  RowInv'
  BY <1>21 DEF EndPost, EndCopy, WindowPasses, Ripens, rowVars, clockVars, storageVars, workVars
<1>22. ASSUME UNCHANGED fileVars PROVE RowInv'
  BY <1>22 DEF fileVars, rowVars, clockVars, storageVars, workVars
<1> QED
  BY <1>1, <1>2, <1>3, <1>4, <1>5, <1>6, <1>7, <1>8, <1>9, <1>10, <1>11, <1>12, <1>13, <1>14,
       <1>15, <1>16, <1>17, <1>18, <1>19, <1>20, <1>21, <1>22 DEF FileNext, RequestStep, PassStep,
       Workers

(* Every object belongs to a row, and to the kind of its row.              *)
LEMMA ObjectStep ==
    ASSUME FileInv, [FileNext]_fileVars
    PROVE  ObjectInv'
<1> USE DEF FileInv, TypeInv, FileTypeOK, RowTypeOK, Enter, Keys, ObjectInv, StorageTypeOK, Objects
<1>1. ASSUME NEW w \in Requests, NEW a \in Attachments, CreateIntent(w, a) PROVE ObjectInv'
  <2>1. CASE WithinQuota(w)
    BY <1>1, <2>1 DEF CreateIntent, storageVars
  <2>2. CASE ~WithinQuota(w)
    BY <1>1, <2>2 DEF CreateIntent, storageVars
  <2> QED
    BY <2>1, <2>2
<1>2. ASSUME NEW w \in Requests, NEW a \in Attachments, BeginComplete(w, a) PROVE ObjectInv'
  BY <1>2 DEF BeginComplete, StillPending, storageVars
<1>3. ASSUME NEW w \in Requests, StatSource(w) PROVE ObjectInv'
  <2>1. job[w].file \in Attachments /\ lock[job[w].file] = w
    BY <1>3, AtRow DEF StatSource, RowOps, Workers
  <2> QED
    BY <1>3, <2>1 DEF StatSource, JobInv, Completing, Workers, storageVars
<1>4. ASSUME NEW w \in Requests, PublishUpload(w) PROVE ObjectInv'
  <2>1. job[w].file \in Attachments /\ lock[job[w].file] = w
    BY <1>4, AtRow DEF PublishUpload, RowOps, Workers
  <2> QED
    BY <1>4, <2>1 DEF PublishUpload, storageVars
<1>5. ASSUME NEW w \in Cleaners, ExpirePending(w) PROVE ObjectInv'
  BY <1>5 DEF ExpirePending, ExpireAll, ExpirablePending, storageVars
<1>6. ASSUME NEW w \in Cleaners, ExpireOrphans(w) PROVE ObjectInv'
  BY <1>6 DEF ExpireOrphans, ExpireAll, ExpirableOrphans, storageVars
<1>7. ASSUME NEW w \in Cleaners, MarkDeleted(w) PROVE ObjectInv'
  <2>1. job[w].file \in Attachments /\ lock[job[w].file] = w
    BY <1>7, AtRow DEF MarkDeleted, RowOps, Workers
  <2> QED
    BY <1>7, <2>1 DEF MarkDeleted, storageVars
<1>8. ASSUME NEW m \in Messages, StoreMessage(m) PROVE ObjectInv'
  BY <1>8 DEF StoreMessage, storageVars
<1>9. ASSUME NEW m \in Messages, Tombstone(m) PROVE ObjectInv'
  BY <1>9 DEF Tombstone, storageVars
<1>10. ASSUME NEW w \in Requests, Promote(w) PROVE ObjectInv'
  <2>1. job[w].file \in Attachments /\ lock[job[w].file] = w
    BY <1>10, AtRow DEF Promote, RowOps, Workers
  <2> QED
    BY <1>10, <2>1 DEF Promote, JobInv, Completing, Workers, rowVars
<1>11. ASSUME NEW w \in Requests, LoseCopy(w) PROVE ObjectInv'
  <2>1. job[w].file \in Attachments /\ lock[job[w].file] = w
    BY <1>11, AtRow DEF LoseCopy, RowOps, Workers
  <2> QED
    BY <1>11, <2>1 DEF LoseCopy, JobInv, Completing, SourceMatches, Workers, rowVars
<1>12. ASSUME NEW w \in Cleaners, EraseObject(w) PROVE ObjectInv'
  <2>1. job[w].file \in Attachments /\ lock[job[w].file] = w
    BY <1>12, AtRow DEF EraseObject, RowOps, Workers
  <2> QED
    BY <1>12, <2>1 DEF EraseObject, rowVars
<1>13. ASSUME NEW w \in Cleaners, NEW a \in Attachments, NEW k \in Keys, CleanSource(w, a, k) PROVE ObjectInv'
  BY <1>13 DEF CleanSource, rowVars
<1>14. ASSUME NEW w \in Cleaners, NEW a \in Attachments, NEW k \in Keys, CleanHalf(w, a, k) PROVE ObjectInv'
  BY <1>14 DEF CleanHalf, rowVars
<1>15. ASSUME NEW a \in Attachments, NEW c \in Contents \cup {Bad}, BeginPost(a, c) PROVE ObjectInv'
  BY <1>15 DEF BeginPost, RowInv, RowOK, rowVars
<1>16. ASSUME NEW a \in Attachments, EndPost(a) PROVE ObjectInv'
  BY <1>16 DEF EndPost, rowVars
<1>17. ASSUME NEW a \in Attachments, EndCopy(a) PROVE ObjectInv'
  BY <1>17 DEF EndCopy, rowVars
<1>18. ASSUME NEW w \in Requests,
             BeginIntent(w) \/ PublishLegacyFinalKey(w)
      PROVE  ObjectInv'
  BY <1>18 DEF BeginIntent, PublishLegacyFinalKey, rowVars, clockVars, storageVars, workVars
<1>19. ASSUME NEW w \in Requests, NEW a \in Attachments,
             BeginBackfill(w, a)
      PROVE  ObjectInv'
  BY <1>19 DEF BeginBackfill, rowVars, clockVars, storageVars, workVars
<1>20. ASSUME NEW w \in Workers,
             Abandon(w)
      PROVE  ObjectInv'
  BY <1>20 DEF Abandon, rowVars, clockVars, storageVars, workVars
<1>21. ASSUME NEW w \in Cleaners,
             BeginPass(w) \/ ListCandidates(w) \/ PassDone(w)
      PROVE  ObjectInv'
  BY <1>21 DEF BeginPass, ListCandidates, PassDone, rowVars, clockVars, storageVars, workVars
<1>22. ASSUME NEW w \in Cleaners, NEW a \in Attachments,
             LockCandidate(w, a)
      PROVE  ObjectInv'
  BY <1>22 DEF LockCandidate, rowVars, clockVars, storageVars, workVars
<1>23. ASSUME NEW m \in Messages, NEW files \in SUBSET Attachments,
             CheckAttachments(m, files)
      PROVE  ObjectInv'
  BY <1>23 DEF CheckAttachments, rowVars, clockVars, storageVars, workVars
<1>24. ASSUME NEW a \in Attachments,
             WindowPasses(a) \/ Ripens(a)
      PROVE  ObjectInv'
  BY <1>24 DEF WindowPasses, Ripens, rowVars, clockVars, storageVars, workVars
<1>25. ASSUME NEW a \in Attachments, NEW k \in Keys,
             ComesDue(a, k)
      PROVE  ObjectInv'
  BY <1>25 DEF ComesDue, rowVars, clockVars, storageVars, workVars
<1>26. ASSUME UNCHANGED fileVars PROVE ObjectInv'
  BY <1>26 DEF fileVars, rowVars, clockVars, storageVars, workVars
<1> QED
  BY <1>1, <1>2, <1>3, <1>4, <1>5, <1>6, <1>7, <1>8, <1>9, <1>10, <1>11, <1>12, <1>13, <1>14,
       <1>15, <1>16, <1>17, <1>18, <1>19, <1>20, <1>21, <1>22, <1>23, <1>24, <1>25, <1>26 DEF
       FileNext, RequestStep, PassStep, Workers

(* A published row keeps its final object.                                 *)
LEMMA PublishedStep ==
    ASSUME FileInv, [FileNext]_fileVars
    PROVE  PublishedIsStored'
<1> USE DEF FileInv, TypeInv, FileTypeOK, RowTypeOK, Enter, Keys, PublishedIsStored, Published, StorageTypeOK, Objects, Conforms
<1>1. ASSUME NEW w \in Requests, NEW a \in Attachments, CreateIntent(w, a) PROVE PublishedIsStored'
  BY <1>1 DEF CreateIntent, storageVars
<1>2. ASSUME NEW w \in Requests, NEW a \in Attachments, BeginComplete(w, a) PROVE PublishedIsStored'
  BY <1>2 DEF BeginComplete, StillPending, storageVars
<1>3. ASSUME NEW w \in Requests, StatSource(w) PROVE PublishedIsStored'
  <2>1. job[w].file \in Attachments /\ lock[job[w].file] = w
    BY <1>3, AtRow DEF StatSource, RowOps, Workers
  <2> QED
    BY <1>3, <2>1 DEF StatSource, storageVars
<1>4. ASSUME NEW w \in Requests, PublishUpload(w) PROVE PublishedIsStored'
  <2>1. job[w].file \in Attachments /\ lock[job[w].file] = w
    BY <1>4, AtRow DEF PublishUpload, RowOps, Workers
  <2> QED
    BY <1>4, <2>1 DEF PublishUpload, storageVars
<1>5. ASSUME NEW w \in Requests, PublishLegacyFinalKey(w) PROVE PublishedIsStored'
  <2>1. job[w].file \in Attachments /\ lock[job[w].file] = w
    BY <1>5, AtRow DEF PublishLegacyFinalKey, RowOps, Workers
  <2> QED
    BY <1>5, <2>1 DEF PublishLegacyFinalKey, storageVars
<1>6. ASSUME NEW w \in Cleaners, ExpirePending(w) PROVE PublishedIsStored'
  BY <1>6 DEF ExpirePending, ExpireAll, ExpirablePending, storageVars
<1>7. ASSUME NEW w \in Cleaners, ExpireOrphans(w) PROVE PublishedIsStored'
  BY <1>7 DEF ExpireOrphans, ExpireAll, ExpirableOrphans, storageVars
<1>8. ASSUME NEW w \in Cleaners, MarkDeleted(w) PROVE PublishedIsStored'
  <2>1. job[w].file \in Attachments /\ lock[job[w].file] = w
    BY <1>8, AtRow DEF MarkDeleted, RowOps, Workers
  <2> QED
    BY <1>8, <2>1 DEF MarkDeleted, storageVars
<1>9. ASSUME NEW m \in Messages, StoreMessage(m) PROVE PublishedIsStored'
  BY <1>9 DEF StoreMessage, MarkAttached, storageVars
<1>10. ASSUME NEW m \in Messages, Tombstone(m) PROVE PublishedIsStored'
  BY <1>10 DEF Tombstone, HeldBy, storageVars
<1>11. ASSUME NEW w \in Requests, Promote(w) PROVE PublishedIsStored'
  <2> DEFINE f == job[w].file
  <2>1. f \in Attachments /\ Conforms(bucket[f][source[f]])
    BY <1>11, AtRow DEF Promote, RowOps, Workers, JobInv, SourceMatches
  <2>2. bucket' = [bucket EXCEPT ![f]["final"] = bucket[f][source[f]]] /\ UNCHANGED rowVars
    BY <1>11 DEF Promote
  <2> QED
    BY <2>1, <2>2 DEF rowVars
<1>12. ASSUME NEW w \in Cleaners, EraseObject(w) PROVE PublishedIsStored'
  <2> DEFINE f == job[w].file
  <2>1. f \in Attachments /\ status[f] \in {"expired", "failed", "detached"}
    BY <1>12, AtRow DEF EraseObject, RowOps, Workers, JobInv
  <2> QED
    BY <1>12, <2>1 DEF EraseObject, rowVars
<1>13. ASSUME NEW w \in Cleaners, NEW a \in Attachments, NEW k \in Keys, CleanSource(w, a, k) PROVE PublishedIsStored'
  BY <1>13 DEF CleanSource, PassInv, rowVars
<1>14. ASSUME NEW w \in Cleaners, NEW a \in Attachments, NEW k \in Keys, CleanHalf(w, a, k) PROVE PublishedIsStored'
  BY <1>14 DEF CleanHalf, PassInv, rowVars
<1>15. ASSUME NEW a \in Attachments, EndPost(a) PROVE PublishedIsStored'
  BY <1>15 DEF EndPost, rowVars
<1>16. ASSUME NEW a \in Attachments, EndCopy(a) PROVE PublishedIsStored'
  BY <1>16 DEF EndCopy, ObjectInv, rowVars
<1>17. ASSUME NEW w \in Requests,
             BeginIntent(w) \/ LoseCopy(w)
      PROVE  PublishedIsStored'
  BY <1>17 DEF BeginIntent, LoseCopy, rowVars, clockVars, storageVars, workVars
<1>18. ASSUME NEW w \in Requests, NEW a \in Attachments,
             BeginBackfill(w, a)
      PROVE  PublishedIsStored'
  BY <1>18 DEF BeginBackfill, rowVars, clockVars, storageVars, workVars
<1>19. ASSUME NEW w \in Workers,
             Abandon(w)
      PROVE  PublishedIsStored'
  BY <1>19 DEF Abandon, rowVars, clockVars, storageVars, workVars
<1>20. ASSUME NEW w \in Cleaners,
             BeginPass(w) \/ ListCandidates(w) \/ PassDone(w)
      PROVE  PublishedIsStored'
  BY <1>20 DEF BeginPass, ListCandidates, PassDone, rowVars, clockVars, storageVars, workVars
<1>21. ASSUME NEW w \in Cleaners, NEW a \in Attachments,
             LockCandidate(w, a)
      PROVE  PublishedIsStored'
  BY <1>21 DEF LockCandidate, rowVars, clockVars, storageVars, workVars
<1>22. ASSUME NEW m \in Messages, NEW files \in SUBSET Attachments,
             CheckAttachments(m, files)
      PROVE  PublishedIsStored'
  BY <1>22 DEF CheckAttachments, rowVars, clockVars, storageVars, workVars
<1>23. ASSUME NEW a \in Attachments, NEW c \in Contents \cup {Bad},
             BeginPost(a, c)
      PROVE  PublishedIsStored'
  BY <1>23 DEF BeginPost, rowVars, clockVars, storageVars, workVars
<1>24. ASSUME NEW a \in Attachments,
             WindowPasses(a) \/ Ripens(a)
      PROVE  PublishedIsStored'
  BY <1>24 DEF WindowPasses, Ripens, rowVars, clockVars, storageVars, workVars
<1>25. ASSUME NEW a \in Attachments, NEW k \in Keys,
             ComesDue(a, k)
      PROVE  PublishedIsStored'
  BY <1>25 DEF ComesDue, rowVars, clockVars, storageVars, workVars
<1>26. ASSUME UNCHANGED fileVars PROVE PublishedIsStored'
  BY <1>26 DEF fileVars, rowVars, clockVars, storageVars, workVars
<1> QED
  BY <1>1, <1>2, <1>3, <1>4, <1>5, <1>6, <1>7, <1>8, <1>9, <1>10, <1>11, <1>12, <1>13, <1>14,
       <1>15, <1>16, <1>17, <1>18, <1>19, <1>20, <1>21, <1>22, <1>23, <1>24, <1>25, <1>26 DEF
       FileNext, RequestStep, PassStep, Workers

(* A stored message keeps its files.                                       *)
LEMMA MessageStep ==
    ASSUME FileInv, [FileNext]_fileVars
    PROVE  MessageKeepsFiles'
<1> USE DEF FileInv, TypeInv, FileTypeOK, RowTypeOK, Enter, Keys, MessageTypeOK, MessageKeepsFiles
<1>1. ASSUME NEW w \in Requests, NEW a \in Attachments, CreateIntent(w, a) PROVE MessageKeepsFiles'
  BY <1>1 DEF CreateIntent
<1>2. ASSUME NEW w \in Requests, NEW a \in Attachments, BeginComplete(w, a) PROVE MessageKeepsFiles'
  BY <1>2 DEF BeginComplete, StillPending
<1>3. ASSUME NEW w \in Requests, StatSource(w) PROVE MessageKeepsFiles'
  <2>1. job[w].file \in Attachments /\ lock[job[w].file] = w
    BY <1>3, AtRow DEF StatSource, RowOps, Workers
  <2> QED
    BY <1>3, <2>1 DEF StatSource, JobInv, Completing, Workers
<1>4. ASSUME NEW w \in Requests, PublishUpload(w) PROVE MessageKeepsFiles'
  <2>1. job[w].file \in Attachments /\ lock[job[w].file] = w
    BY <1>4, AtRow DEF PublishUpload, RowOps, Workers
  <2> QED
    BY <1>4, <2>1 DEF PublishUpload, JobInv, Completing, Workers
<1>5. ASSUME NEW w \in Requests, PublishLegacyFinalKey(w) PROVE MessageKeepsFiles'
  BY <1>5 DEF PublishLegacyFinalKey
<1>6. ASSUME NEW w \in Cleaners, ExpirePending(w) PROVE MessageKeepsFiles'
  BY <1>6 DEF ExpirePending, ExpireAll, ExpirablePending
<1>7. ASSUME NEW w \in Cleaners, ExpireOrphans(w) PROVE MessageKeepsFiles'
  BY <1>7 DEF ExpireOrphans, ExpireAll, ExpirableOrphans
<1>8. ASSUME NEW w \in Cleaners, MarkDeleted(w) PROVE MessageKeepsFiles'
  <2>1. job[w].file \in Attachments /\ status[job[w].file] \in {"expired", "failed", "detached"}
    BY <1>8, AtRow DEF MarkDeleted, RowOps, Workers, JobInv
  <2> QED
    BY <1>8, <2>1 DEF MarkDeleted
<1>9. ASSUME NEW m \in Messages, NEW files \in SUBSET Attachments, CheckAttachments(m, files) PROVE MessageKeepsFiles'
  BY <1>9 DEF CheckAttachments, rowVars
<1>10. ASSUME NEW m \in Messages, StoreMessage(m) PROVE MessageKeepsFiles'
  <2>1. CASE \A a \in message[m].files : MarkAttached(a) /\ link[a] = NoMessage
    BY <1>10, <2>1 DEF StoreMessage, MarkAttached
  <2>2. CASE ~(\A a \in message[m].files : MarkAttached(a) /\ link[a] = NoMessage)
    BY <1>10, <2>2 DEF StoreMessage
  <2> QED
    BY <2>1, <2>2
<1>11. ASSUME NEW m \in Messages, Tombstone(m) PROVE MessageKeepsFiles'
  BY <1>11 DEF Tombstone, HeldBy
<1>12. ASSUME NEW w \in Requests,
             BeginIntent(w) \/ Promote(w) \/ LoseCopy(w)
      PROVE  MessageKeepsFiles'
  BY <1>12 DEF BeginIntent, Promote, LoseCopy, rowVars, clockVars, storageVars, workVars
<1>13. ASSUME NEW w \in Requests, NEW a \in Attachments,
             BeginBackfill(w, a)
      PROVE  MessageKeepsFiles'
  BY <1>13 DEF BeginBackfill, rowVars, clockVars, storageVars, workVars
<1>14. ASSUME NEW w \in Workers,
             Abandon(w)
      PROVE  MessageKeepsFiles'
  BY <1>14 DEF Abandon, rowVars, clockVars, storageVars, workVars
<1>15. ASSUME NEW w \in Cleaners,
             BeginPass(w) \/ ListCandidates(w) \/ EraseObject(w) \/ PassDone(w)
      PROVE  MessageKeepsFiles'
  BY <1>15 DEF BeginPass, ListCandidates, EraseObject, PassDone, rowVars, clockVars, storageVars,
       workVars
<1>16. ASSUME NEW w \in Cleaners, NEW a \in Attachments,
             LockCandidate(w, a)
      PROVE  MessageKeepsFiles'
  BY <1>16 DEF LockCandidate, rowVars, clockVars, storageVars, workVars
<1>17. ASSUME NEW w \in Cleaners, NEW a \in Attachments, NEW k \in Keys,
             CleanSource(w, a, k) \/ CleanHalf(w, a, k)
      PROVE  MessageKeepsFiles'
  BY <1>17 DEF CleanSource, CleanHalf, rowVars, clockVars, storageVars, workVars
<1>18. ASSUME NEW a \in Attachments, NEW c \in Contents \cup {Bad},
             BeginPost(a, c)
      PROVE  MessageKeepsFiles'
  BY <1>18 DEF BeginPost, rowVars, clockVars, storageVars, workVars
<1>19. ASSUME NEW a \in Attachments,
             EndPost(a) \/ EndCopy(a) \/ WindowPasses(a) \/ Ripens(a)
      PROVE  MessageKeepsFiles'
  BY <1>19 DEF EndPost, EndCopy, WindowPasses, Ripens, rowVars, clockVars, storageVars, workVars
<1>20. ASSUME NEW a \in Attachments, NEW k \in Keys,
             ComesDue(a, k)
      PROVE  MessageKeepsFiles'
  BY <1>20 DEF ComesDue, rowVars, clockVars, storageVars, workVars
<1>21. ASSUME UNCHANGED fileVars PROVE MessageKeepsFiles'
  BY <1>21 DEF fileVars, rowVars, clockVars, storageVars, workVars
<1> QED
  BY <1>1, <1>2, <1>3, <1>4, <1>5, <1>6, <1>7, <1>8, <1>9, <1>10, <1>11, <1>12, <1>13, <1>14,
       <1>15, <1>16, <1>17, <1>18, <1>19, <1>20, <1>21 DEF FileNext, RequestStep, PassStep,
       Workers

(* What a pass listed of a deleted row stays so.                           *)
LEMMA PassInvStep ==
    ASSUME FileInv, [FileNext]_fileVars
    PROVE  PassInv'
<1> USE DEF FileInv, TypeInv, FileTypeOK, RowTypeOK, Enter, Keys, WorkTypeOK, PassInv, NoPass
<1>1. ASSUME NEW w \in Requests, NEW a \in Attachments, CreateIntent(w, a) PROVE PassInv'
  BY <1>1 DEF CreateIntent, Finish
<1>2. ASSUME NEW w \in Requests, NEW a \in Attachments, BeginComplete(w, a) PROVE PassInv'
  BY <1>2 DEF BeginComplete, StillPending
<1>3. ASSUME NEW w \in Requests, StatSource(w) PROVE PassInv'
  <2>1. job[w].file \in Attachments /\ status[job[w].file] # "deleted"
    BY <1>3, AtRow DEF StatSource, RowOps, Workers, JobInv, Completing
  <2> QED
    BY <1>3, <2>1 DEF StatSource, Finish
<1>4. ASSUME NEW w \in Requests, PublishUpload(w) PROVE PassInv'
  <2>1. job[w].file \in Attachments /\ status[job[w].file] # "deleted"
    BY <1>4, AtRow DEF PublishUpload, RowOps, Workers, JobInv, Completing
  <2> QED
    BY <1>4, <2>1 DEF PublishUpload, Finish
<1>5. ASSUME NEW w \in Requests, LoseCopy(w) PROVE PassInv'
  BY <1>5 DEF LoseCopy, Finish, rowVars
<1>6. ASSUME NEW w \in Requests, PublishLegacyFinalKey(w) PROVE PassInv'
  BY <1>6 DEF PublishLegacyFinalKey, Finish
<1>7. ASSUME NEW w \in Workers, Abandon(w) PROVE PassInv'
  BY <1>7 DEF Abandon, Finish, rowVars
<1>8. ASSUME NEW w \in Cleaners, NEW a \in Attachments, NEW k \in Keys, CleanHalf(w, a, k) PROVE PassInv'
  BY <1>8 DEF CleanHalf, Finish, rowVars
<1>9. ASSUME NEW w \in Cleaners, PassDone(w) PROVE PassInv'
  BY <1>9 DEF PassDone, Finish, rowVars
<1>10. ASSUME NEW w \in Cleaners, BeginPass(w) PROVE PassInv'
  BY <1>10 DEF BeginPass, RowInv, RowOK, rowVars
<1>11. ASSUME NEW w \in Cleaners, NEW a \in Attachments, NEW k \in Keys, CleanSource(w, a, k) PROVE PassInv'
  BY <1>11 DEF CleanSource, rowVars
<1>12. ASSUME NEW w \in Cleaners, ExpirePending(w) PROVE PassInv'
  BY <1>12 DEF ExpirePending, ExpireAll, ExpirablePending
<1>13. ASSUME NEW w \in Cleaners, ExpireOrphans(w) PROVE PassInv'
  BY <1>13 DEF ExpireOrphans, ExpireAll, ExpirableOrphans
<1>14. ASSUME NEW w \in Cleaners, ListCandidates(w) PROVE PassInv'
  BY <1>14 DEF ListCandidates, rowVars
<1>15. ASSUME NEW w \in Cleaners, NEW a \in Attachments, LockCandidate(w, a) PROVE PassInv'
  <2>1. \A v \in Cleaners : pass'[v].keys = pass[v].keys
    BY <1>15 DEF LockCandidate
  <2> QED
    BY <1>15, <2>1 DEF LockCandidate, rowVars
<1>16. ASSUME NEW w \in Cleaners, MarkDeleted(w) PROVE PassInv'
  <2>1. job[w].file \in Attachments /\ lock[job[w].file] = w
    BY <1>16, AtRow DEF MarkDeleted, RowOps, Workers
  <2> QED
    BY <1>16, <2>1 DEF MarkDeleted
<1>17. ASSUME NEW m \in Messages, StoreMessage(m) PROVE PassInv'
  BY <1>17 DEF StoreMessage, MarkAttached, workVars
<1>18. ASSUME NEW m \in Messages, Tombstone(m) PROVE PassInv'
  BY <1>18 DEF Tombstone, HeldBy, workVars
<1>19. ASSUME NEW w \in Requests,
             BeginIntent(w) \/ Promote(w)
      PROVE  PassInv'
  BY <1>19 DEF BeginIntent, Promote, rowVars, clockVars, storageVars, workVars
<1>20. ASSUME NEW w \in Requests, NEW a \in Attachments,
             BeginBackfill(w, a)
      PROVE  PassInv'
  BY <1>20 DEF BeginBackfill, rowVars, clockVars, storageVars, workVars
<1>21. ASSUME NEW w \in Cleaners,
             EraseObject(w)
      PROVE  PassInv'
  BY <1>21 DEF EraseObject, rowVars, clockVars, storageVars, workVars
<1>22. ASSUME NEW m \in Messages, NEW files \in SUBSET Attachments,
             CheckAttachments(m, files)
      PROVE  PassInv'
  BY <1>22 DEF CheckAttachments, rowVars, clockVars, storageVars, workVars
<1>23. ASSUME NEW a \in Attachments, NEW c \in Contents \cup {Bad},
             BeginPost(a, c)
      PROVE  PassInv'
  BY <1>23 DEF BeginPost, rowVars, clockVars, storageVars, workVars
<1>24. ASSUME NEW a \in Attachments,
             EndPost(a) \/ EndCopy(a) \/ WindowPasses(a) \/ Ripens(a)
      PROVE  PassInv'
  BY <1>24 DEF EndPost, EndCopy, WindowPasses, Ripens, rowVars, clockVars, storageVars, workVars
<1>25. ASSUME NEW a \in Attachments, NEW k \in Keys,
             ComesDue(a, k)
      PROVE  PassInv'
  BY <1>25 DEF ComesDue, rowVars, clockVars, storageVars, workVars
<1>26. ASSUME UNCHANGED fileVars PROVE PassInv'
  BY <1>26 DEF fileVars, rowVars, clockVars, storageVars, workVars
<1> QED
  BY <1>1, <1>2, <1>3, <1>4, <1>5, <1>6, <1>7, <1>8, <1>9, <1>10, <1>11, <1>12, <1>13, <1>14,
       <1>15, <1>16, <1>17, <1>18, <1>19, <1>20, <1>21, <1>22, <1>23, <1>24, <1>25, <1>26 DEF
       FileNext, RequestStep, PassStep, Workers

(* What a transaction read under its lock is so until it ends.             *)
LEMMA JobStep ==
    ASSUME FileInv, [FileNext]_fileVars
    PROVE  JobInv'
<1> USE DEF FileInv, TypeInv, FileTypeOK, RowTypeOK, Enter, Keys, WorkTypeOK, OpsAgree, RowOps, Files, Workers, JobInv, Completing
<1>1. ASSUME NEW w \in Requests, BeginIntent(w) PROVE JobInv'
  BY <1>1 DEF BeginIntent, NoJob, rowVars
<1>2. ASSUME NEW w \in Requests, NEW a \in Attachments, CreateIntent(w, a) PROVE JobInv'
  <2>1. CASE WithinQuota(w)
    BY <1>2, <2>1 DEF CreateIntent, Finish, NoJob
  <2>2. CASE ~WithinQuota(w)
    BY <1>2, <2>2 DEF CreateIntent, Finish, NoJob
  <2> QED
    BY <2>1, <2>2
<1>3. ASSUME NEW w \in Requests, NEW a \in Attachments, BeginComplete(w, a) PROVE JobInv'
  <2>1. CASE window[a] = "live"
    <3>1. job' = [job EXCEPT ![w] = [NoJob EXCEPT !.op = "stat", !.file = a]] /\ UNCHANGED <<status, session, mapped>>
      BY <1>3, <2>1 DEF BeginComplete
    <3>2. Completing(a)
      BY <1>3 DEF BeginComplete, StillPending
    <3>3. job'[w].op = "stat" /\ job'[w].file = a /\ \A v \in Workers \ {w} : job'[v] = job[v]
      BY <3>1 DEF NoJob
    <3> QED
      BY <3>1, <3>2, <3>3
  <2>2. CASE window[a] # "live"
    <3>1. \A v \in Workers : job[v].file # a
      BY <1>3, AttachmentAssumption DEF BeginComplete, Free, LocksHeld
    <3> QED
      BY <1>3, <2>2, <3>1 DEF BeginComplete
  <2> QED
    BY <2>1, <2>2
<1>4. ASSUME NEW w \in Requests, NEW a \in Attachments, BeginBackfill(w, a) PROVE JobInv'
  BY <1>4 DEF BeginBackfill, NoJob, rowVars
<1>5. ASSUME NEW w \in Requests, StatSource(w) PROVE JobInv'
  <2>1. job[w].file \in Attachments /\ \A v \in Workers : job[v].file = job[w].file => v = w
    BY <1>5, AtRow DEF StatSource, RowOps, Workers
  <2>2. CASE Conforms(bucket[job[w].file][source[job[w].file]])
    <3>1. job' = [job EXCEPT ![w].op = "promote", ![w].etag = bucket[job[w].file][source[job[w].file]]]
      BY <1>5, <2>2 DEF StatSource
    <3>2. UNCHANGED <<status, session, mapped>>
      BY <1>5, <2>2 DEF StatSource
    <3> QED
      BY <1>5, <2>1, <2>2, <3>1, <3>2 DEF StatSource, Conforms
  <2>3. CASE ~Conforms(bucket[job[w].file][source[job[w].file]])
    BY <1>5, <2>1, <2>3 DEF StatSource, Finish, NoJob
  <2> QED
    BY <2>2, <2>3
<1>6. ASSUME NEW w \in Requests, Promote(w) PROVE JobInv'
  BY <1>6 DEF Promote, Goto, rowVars
<1>7. ASSUME NEW w \in Requests, LoseCopy(w) PROVE JobInv'
  BY <1>7 DEF LoseCopy, Finish, NoJob, rowVars
<1>8. ASSUME NEW w \in Requests, PublishUpload(w) PROVE JobInv'
  <2>1. job[w].file \in Attachments /\ \A v \in Workers : job[v].file = job[w].file => v = w
    BY <1>8, AtRow DEF PublishUpload, RowOps, Workers
  <2> QED
    BY <1>8, <2>1 DEF PublishUpload, Finish, NoJob
<1>9. ASSUME NEW w \in Requests, PublishLegacyFinalKey(w) PROVE JobInv'
  <2>1. job[w].file \in Attachments /\ \A v \in Workers : job[v].file = job[w].file => v = w
    BY <1>9, AtRow DEF PublishLegacyFinalKey, RowOps, Workers
  <2> QED
    BY <1>9, <2>1 DEF PublishLegacyFinalKey, Finish, NoJob
<1>10. ASSUME NEW w \in Workers, Abandon(w) PROVE JobInv'
  BY <1>10 DEF Abandon, Finish, NoJob, rowVars
<1>11. ASSUME NEW w \in Cleaners, NEW a \in Attachments, NEW k \in Keys, CleanHalf(w, a, k) PROVE JobInv'
  BY <1>11 DEF CleanHalf, Finish, NoJob, rowVars
<1>12. ASSUME NEW w \in Cleaners, PassDone(w) PROVE JobInv'
  BY <1>12 DEF PassDone, Finish, NoJob, rowVars
<1>13. ASSUME NEW w \in Cleaners, BeginPass(w) PROVE JobInv'
  BY <1>13 DEF BeginPass, Goto, rowVars
<1>14. ASSUME NEW w \in Cleaners, ExpirePending(w) PROVE JobInv'
  <2>1. \A v \in Workers : job[v].file \in Attachments => job[v].file \notin ExpirablePending(w)
    BY AttachmentAssumption DEF ExpirablePending, Free, LocksHeld
  <2>2. \A v \in Workers : job[v].op \in RowOps => job[v].file \in Attachments /\ status'[job[v].file] = status[job[v].file]
       /\ session'[job[v].file] = session[job[v].file] /\ mapped'[job[v].file] = mapped[job[v].file]
    BY <1>14, <2>1 DEF ExpirePending, ExpireAll
  <2>3. \A v \in Workers : job'[v].op \in RowOps => job'[v] = job[v]
    BY <1>14 DEF ExpirePending, Goto
  <2> QED
    BY <2>2, <2>3
<1>15. ASSUME NEW w \in Cleaners, ExpireOrphans(w) PROVE JobInv'
  <2>1. \A v \in Workers : job[v].file \in Attachments => job[v].file \notin ExpirableOrphans(w)
    BY AttachmentAssumption DEF ExpirableOrphans, Free, LocksHeld
  <2>2. \A v \in Workers : job[v].op \in RowOps => job[v].file \in Attachments /\ status'[job[v].file] = status[job[v].file]
       /\ session'[job[v].file] = session[job[v].file] /\ mapped'[job[v].file] = mapped[job[v].file]
    BY <1>15, <2>1 DEF ExpireOrphans, ExpireAll
  <2>3. \A v \in Workers : job'[v].op \in RowOps => job'[v] = job[v]
    BY <1>15 DEF ExpireOrphans, Goto
  <2> QED
    BY <2>2, <2>3
<1>16. ASSUME NEW w \in Cleaners, ListCandidates(w) PROVE JobInv'
  BY <1>16 DEF ListCandidates, Goto, rowVars
<1>17. ASSUME NEW w \in Cleaners, NEW a \in Attachments, LockCandidate(w, a) PROVE JobInv'
  <2>1. CASE EligibleUnderLock(w, a)
    <3>1. status[a] \in {"expired", "failed", "detached"}
      BY <2>1 DEF EligibleUnderLock, Deletable
    <3>2. job' = [job EXCEPT ![w].op = "erase", ![w].file = a] /\ UNCHANGED rowVars
      BY <1>17, <2>1 DEF LockCandidate
    <3> QED
      BY <1>17, <3>1, <3>2 DEF rowVars
  <2>2. CASE ~EligibleUnderLock(w, a)
    BY <1>17, <2>2 DEF LockCandidate, rowVars
  <2> QED
    BY <2>1, <2>2
<1>18. ASSUME NEW w \in Cleaners, EraseObject(w) PROVE JobInv'
  BY <1>18 DEF EraseObject, Goto, rowVars
<1>19. ASSUME NEW w \in Cleaners, MarkDeleted(w) PROVE JobInv'
  <2>1. job[w].file \in Attachments /\ \A v \in Workers : job[v].file = job[w].file => v = w
    BY <1>19, AtRow DEF MarkDeleted, RowOps, Workers
  <2> QED
    BY <1>19, <2>1 DEF MarkDeleted, NoJob
<1>20. ASSUME NEW m \in Messages, StoreMessage(m) PROVE JobInv'
  BY <1>20 DEF StoreMessage, MarkAttached, Free, LocksHeld, workVars
<1>21. ASSUME NEW m \in Messages, Tombstone(m) PROVE JobInv'
  BY <1>21 DEF Tombstone, HeldBy, Free, LocksHeld, workVars
<1>22. ASSUME NEW w \in Cleaners, NEW a \in Attachments, NEW k \in Keys,
             CleanSource(w, a, k)
      PROVE  JobInv'
  BY <1>22 DEF CleanSource, rowVars, clockVars, storageVars, workVars
<1>23. ASSUME NEW m \in Messages, NEW files \in SUBSET Attachments,
             CheckAttachments(m, files)
      PROVE  JobInv'
  BY <1>23 DEF CheckAttachments, rowVars, clockVars, storageVars, workVars
<1>24. ASSUME NEW a \in Attachments, NEW c \in Contents \cup {Bad},
             BeginPost(a, c)
      PROVE  JobInv'
  BY <1>24 DEF BeginPost, rowVars, clockVars, storageVars, workVars
<1>25. ASSUME NEW a \in Attachments,
             EndPost(a) \/ EndCopy(a) \/ WindowPasses(a) \/ Ripens(a)
      PROVE  JobInv'
  BY <1>25 DEF EndPost, EndCopy, WindowPasses, Ripens, rowVars, clockVars, storageVars, workVars
<1>26. ASSUME NEW a \in Attachments, NEW k \in Keys,
             ComesDue(a, k)
      PROVE  JobInv'
  BY <1>26 DEF ComesDue, rowVars, clockVars, storageVars, workVars
<1>27. ASSUME UNCHANGED fileVars PROVE JobInv'
  BY <1>27 DEF fileVars, rowVars, clockVars, storageVars, workVars
<1> QED
  BY <1>1, <1>2, <1>3, <1>4, <1>5, <1>6, <1>7, <1>8, <1>9, <1>10, <1>11, <1>12, <1>13, <1>14,
       <1>15, <1>16, <1>17, <1>18, <1>19, <1>20, <1>21, <1>22, <1>23, <1>24, <1>25, <1>26, <1>27
       DEF FileNext, RequestStep, PassStep, Workers

(* Init, and what the steps above amount to.                               *)
LEMMA FileInvInit == FileInit => FileInv
<1> SUFFICES ASSUME FileInit PROVE FileInv
  OBVIOUS
<1>1. TypeInv
  BY TypeInit
<1>2. RowInv /\ ObjectInv
  BY <1>1 DEF FileInit, RowInv, RowOK, ObjectInv, TypeInv, FileTypeOK, RowTypeOK, Keys
<1>3. JobInv /\ PassInv
  BY DEF FileInit, JobInv, PassInv, NoJob, NoPass
<1>4. PublishedIsStored /\ MessageKeepsFiles
  BY DEF FileInit, PublishedIsStored, Published, MessageKeepsFiles
<1> QED
  BY <1>1, <1>2, <1>3, <1>4 DEF FileInv

(* And what every step keeps.                                              *)
LEMMA FileInvStep == FileInv /\ [FileNext]_fileVars => FileInv'
<1>1. FileInv /\ [FileNext]_fileVars => TypeInv'
  BY TypeStep DEF FileInv
<1> QED
  BY <1>1, RowStep, ObjectStep, PublishedStep, MessageStep, PassInvStep, JobStep DEF FileInv

(* A downloadable attachment has the object of its row, whatever requests, *)
(* backfill, cleanup passes and late copies do to the bucket at once.      *)
THEOREM PublishedStaysStored == FileSpec => []PublishedIsStored
<1>1. FileInv => PublishedIsStored
  BY DEF FileInv
<1> QED
  BY <1>1, FileInvInit, FileInvStep, PTL DEF FileSpec

(* A stored message keeps all of its attachments until its tombstone.      *)
THEOREM MessagesKeepFiles == FileSpec => []MessageKeepsFiles
<1>1. FileInv => MessageKeepsFiles
  BY DEF FileInv
<1> QED
  BY <1>1, FileInvInit, FileInvStep, PTL DEF FileSpec

(* Every object in the bucket has a row that leads to its deletion.        *)
THEOREM NothingForgotten == FileSpec => []NoForgottenObject
<1>1. FileInv => NoForgottenObject
  BY DEF FileInv, TypeInv, FileTypeOK, RowTypeOK, RowInv, RowOK, ObjectInv, NoForgottenObject, Keys
<1> QED
  BY <1>1, FileInvInit, FileInvStep, PTL DEF FileSpec

-----------------------------------------------------------------------------
(* The quota.  A step lowers the usage or keeps it, but for an intent that *)
(* fits; and what an intent read of the usage is an upper bound.           *)
Shrinks == \A b \in Attachments : status'[b] \in Counted => status[b] \in Counted
Grows == \E w \in Requests, a \in Attachments : CreateIntent(w, a) /\ WithinQuota(w)
ReservesKept == \A v \in Workers : job'[v].op = "reserve" =>
    /\ ownerLock' = v
    /\ \/ job[v] = job'[v] /\ ownerLock = v
       \/ job'[v].used = Usage /\ UNCHANGED status
QuotaFacts == FileInv /\ QuotaInv

(* Only an intent that fits raises the usage.                              *)
LEMMA UsageMoves ==
    ASSUME FileInv, [FileNext]_fileVars
    PROVE  Shrinks \/ Grows
<1> USE DEF FileInv, TypeInv, FileTypeOK, RowTypeOK, Enter, Keys, Shrinks, Counted
<1>1. ASSUME NEW w \in Requests, NEW a \in Attachments, CreateIntent(w, a) PROVE Shrinks \/ Grows
  <2>1. CASE WithinQuota(w)
    BY <1>1, <2>1 DEF Grows
  <2>2. CASE ~WithinQuota(w)
    BY <1>1, <2>2 DEF CreateIntent
  <2> QED
    BY <2>1, <2>2
<1>2. ASSUME NEW w \in Requests, NEW a \in Attachments, BeginComplete(w, a) PROVE Shrinks \/ Grows
  BY <1>2 DEF BeginComplete, StillPending
<1>3. ASSUME NEW w \in Requests, StatSource(w) PROVE Shrinks \/ Grows
  <2>1. job[w].file \in Attachments /\ lock[job[w].file] = w
    BY <1>3, AtRow DEF StatSource, RowOps, Workers
  <2> QED
    BY <1>3, <2>1 DEF StatSource, JobInv, Completing, Workers
<1>4. ASSUME NEW w \in Requests, PublishUpload(w) PROVE Shrinks \/ Grows
  <2>1. job[w].file \in Attachments /\ lock[job[w].file] = w
    BY <1>4, AtRow DEF PublishUpload, RowOps, Workers
  <2> QED
    BY <1>4, <2>1 DEF PublishUpload, JobInv, Completing, Workers
<1>5. ASSUME NEW w \in Requests, PublishLegacyFinalKey(w) PROVE Shrinks \/ Grows
  BY <1>5 DEF PublishLegacyFinalKey
<1>6. ASSUME NEW w \in Cleaners, ExpirePending(w) PROVE Shrinks \/ Grows
  BY <1>6 DEF ExpirePending, ExpireAll, ExpirablePending
<1>7. ASSUME NEW w \in Cleaners, ExpireOrphans(w) PROVE Shrinks \/ Grows
  BY <1>7 DEF ExpireOrphans, ExpireAll, ExpirableOrphans
<1>8. ASSUME NEW w \in Cleaners, MarkDeleted(w) PROVE Shrinks \/ Grows
  <2>1. job[w].file \in Attachments /\ lock[job[w].file] = w
    BY <1>8, AtRow DEF MarkDeleted, RowOps, Workers
  <2> QED
    BY <1>8, <2>1 DEF MarkDeleted, JobInv, Workers
<1>9. ASSUME NEW m \in Messages, StoreMessage(m) PROVE Shrinks \/ Grows
  <2>1. CASE \A a \in message[m].files : MarkAttached(a) /\ link[a] = NoMessage
    BY <1>9, <2>1 DEF StoreMessage, MarkAttached
  <2>2. CASE ~(\A a \in message[m].files : MarkAttached(a) /\ link[a] = NoMessage)
    BY <1>9, <2>2 DEF StoreMessage
  <2> QED
    BY <2>1, <2>2
<1>10. ASSUME NEW m \in Messages, Tombstone(m) PROVE Shrinks \/ Grows
  BY <1>10 DEF Tombstone, HeldBy
<1>11. ASSUME NEW w \in Requests,
             BeginIntent(w) \/ Promote(w) \/ LoseCopy(w)
      PROVE  Shrinks \/ Grows
  BY <1>11 DEF BeginIntent, Promote, LoseCopy, rowVars, clockVars, storageVars, workVars
<1>12. ASSUME NEW w \in Requests, NEW a \in Attachments,
             BeginBackfill(w, a)
      PROVE  Shrinks \/ Grows
  BY <1>12 DEF BeginBackfill, rowVars, clockVars, storageVars, workVars
<1>13. ASSUME NEW w \in Workers,
             Abandon(w)
      PROVE  Shrinks \/ Grows
  BY <1>13 DEF Abandon, rowVars, clockVars, storageVars, workVars
<1>14. ASSUME NEW w \in Cleaners,
             BeginPass(w) \/ ListCandidates(w) \/ EraseObject(w) \/ PassDone(w)
      PROVE  Shrinks \/ Grows
  BY <1>14 DEF BeginPass, ListCandidates, EraseObject, PassDone, rowVars, clockVars, storageVars,
       workVars
<1>15. ASSUME NEW w \in Cleaners, NEW a \in Attachments,
             LockCandidate(w, a)
      PROVE  Shrinks \/ Grows
  BY <1>15 DEF LockCandidate, rowVars, clockVars, storageVars, workVars
<1>16. ASSUME NEW w \in Cleaners, NEW a \in Attachments, NEW k \in Keys,
             CleanSource(w, a, k) \/ CleanHalf(w, a, k)
      PROVE  Shrinks \/ Grows
  BY <1>16 DEF CleanSource, CleanHalf, rowVars, clockVars, storageVars, workVars
<1>17. ASSUME NEW m \in Messages, NEW files \in SUBSET Attachments,
             CheckAttachments(m, files)
      PROVE  Shrinks \/ Grows
  BY <1>17 DEF CheckAttachments, rowVars, clockVars, storageVars, workVars
<1>18. ASSUME NEW a \in Attachments, NEW c \in Contents \cup {Bad},
             BeginPost(a, c)
      PROVE  Shrinks \/ Grows
  BY <1>18 DEF BeginPost, rowVars, clockVars, storageVars, workVars
<1>19. ASSUME NEW a \in Attachments,
             EndPost(a) \/ EndCopy(a) \/ WindowPasses(a) \/ Ripens(a)
      PROVE  Shrinks \/ Grows
  BY <1>19 DEF EndPost, EndCopy, WindowPasses, Ripens, rowVars, clockVars, storageVars, workVars
<1>20. ASSUME NEW a \in Attachments, NEW k \in Keys,
             ComesDue(a, k)
      PROVE  Shrinks \/ Grows
  BY <1>20 DEF ComesDue, rowVars, clockVars, storageVars, workVars
<1>21. ASSUME UNCHANGED fileVars PROVE Shrinks \/ Grows
  BY <1>21 DEF fileVars, rowVars, clockVars, storageVars, workVars
<1> QED
  BY <1>1, <1>2, <1>3, <1>4, <1>5, <1>6, <1>7, <1>8, <1>9, <1>10, <1>11, <1>12, <1>13, <1>14,
       <1>15, <1>16, <1>17, <1>18, <1>19, <1>20, <1>21 DEF FileNext, RequestStep, PassStep,
       Workers

(* A transaction that reserves keeps the owner locked.                     *)
LEMMA ReserveMoves ==
    ASSUME QuotaFacts, [FileNext]_fileVars
    PROVE  ReservesKept
<1> USE DEF QuotaFacts, FileInv, TypeInv, FileTypeOK, WorkTypeOK, Workers, QuotaInv, ReservesKept
<1>1. ASSUME NEW w \in Requests, BeginIntent(w) PROVE ReservesKept
  <2>1. job' = [job EXCEPT ![w] = [NoJob EXCEPT !.op = "reserve", !.used = Usage]] /\ UNCHANGED status /\ ownerLock = NoWorker /\ ownerLock' = w
    BY <1>1 DEF BeginIntent, LockQuotaOwner, rowVars
  <2>2. \A v \in Workers \ {w} : job'[v] = job[v] /\ job[v].op # "reserve"
    BY <2>1, AttachmentAssumption
  <2>3. job'[w].used = Usage
    BY <2>1 DEF NoJob
  <2> QED
    BY <2>1, <2>2, <2>3
<1>2. ASSUME NEW w \in Requests, NEW a \in Attachments, CreateIntent(w, a) PROVE ReservesKept
  BY <1>2 DEF CreateIntent, Finish, Release, NoJob
<1>3. ASSUME NEW w \in Requests, NEW a \in Attachments, BeginComplete(w, a) PROVE ReservesKept
  BY <1>3 DEF BeginComplete, NoJob
<1>4. ASSUME NEW w \in Requests, NEW a \in Attachments, BeginBackfill(w, a) PROVE ReservesKept
  BY <1>4 DEF BeginBackfill, NoJob
<1>5. ASSUME NEW w \in Requests, StatSource(w) PROVE ReservesKept
  <2>1. CASE Conforms(bucket[job[w].file][source[job[w].file]])
    BY <1>5, <2>1 DEF StatSource
  <2>2. CASE ~Conforms(bucket[job[w].file][source[job[w].file]])
    BY <1>5, <2>2 DEF StatSource, Finish, Release, NoJob
  <2> QED
    BY <2>1, <2>2
<1>6. ASSUME NEW w \in Requests, Promote(w) PROVE ReservesKept
  BY <1>6 DEF Promote, Goto
<1>7. ASSUME NEW w \in Requests, LoseCopy(w) PROVE ReservesKept
  BY <1>7 DEF LoseCopy, Finish, Release, NoJob
<1>8. ASSUME NEW w \in Requests, PublishUpload(w) PROVE ReservesKept
  BY <1>8 DEF PublishUpload, Finish, Release, NoJob
<1>9. ASSUME NEW w \in Requests, PublishLegacyFinalKey(w) PROVE ReservesKept
  BY <1>9 DEF PublishLegacyFinalKey, Finish, Release, NoJob
<1>10. ASSUME NEW w \in Workers, Abandon(w) PROVE ReservesKept
  BY <1>10 DEF Abandon, Finish, Release, NoJob
<1>11. ASSUME NEW w \in Cleaners, NEW a \in Attachments, NEW k \in Keys, CleanHalf(w, a, k) PROVE ReservesKept
  BY <1>11 DEF CleanHalf, Finish, Release, NoJob
<1>12. ASSUME NEW w \in Cleaners, PassDone(w) PROVE ReservesKept
  BY <1>12 DEF PassDone, Finish, Release, NoJob
<1>13. ASSUME NEW w \in Cleaners, BeginPass(w) PROVE ReservesKept
  BY <1>13 DEF BeginPass, Goto
<1>14. ASSUME NEW w \in Cleaners, ExpirePending(w) PROVE ReservesKept
  BY <1>14 DEF ExpirePending, Goto
<1>15. ASSUME NEW w \in Cleaners, ExpireOrphans(w) PROVE ReservesKept
  BY <1>15 DEF ExpireOrphans, Goto
<1>16. ASSUME NEW w \in Cleaners, ListCandidates(w) PROVE ReservesKept
  BY <1>16 DEF ListCandidates, Goto
<1>17. ASSUME NEW w \in Cleaners, EraseObject(w) PROVE ReservesKept
  BY <1>17 DEF EraseObject, Goto
<1>18. ASSUME NEW w \in Cleaners, NEW a \in Attachments, LockCandidate(w, a) PROVE ReservesKept
  <2>1. CASE EligibleUnderLock(w, a)
    BY <1>18, <2>1 DEF LockCandidate
  <2>2. CASE ~EligibleUnderLock(w, a)
    BY <1>18, <2>2 DEF LockCandidate
  <2> QED
    BY <2>1, <2>2
<1>19. ASSUME NEW w \in Cleaners, MarkDeleted(w) PROVE ReservesKept
  BY <1>19 DEF MarkDeleted, NoJob
<1>20. ASSUME NEW w \in Cleaners, NEW a \in Attachments, NEW k \in Keys,
             CleanSource(w, a, k)
      PROVE  ReservesKept
  BY <1>20 DEF CleanSource, rowVars, clockVars, storageVars, workVars
<1>21. ASSUME NEW m \in Messages, NEW files \in SUBSET Attachments,
             CheckAttachments(m, files)
      PROVE  ReservesKept
  BY <1>21 DEF CheckAttachments, rowVars, clockVars, storageVars, workVars
<1>22. ASSUME NEW m \in Messages,
             StoreMessage(m) \/ Tombstone(m)
      PROVE  ReservesKept
  BY <1>22 DEF StoreMessage, Tombstone, rowVars, clockVars, storageVars, workVars
<1>23. ASSUME NEW a \in Attachments, NEW c \in Contents \cup {Bad},
             BeginPost(a, c)
      PROVE  ReservesKept
  BY <1>23 DEF BeginPost, rowVars, clockVars, storageVars, workVars
<1>24. ASSUME NEW a \in Attachments,
             EndPost(a) \/ EndCopy(a) \/ WindowPasses(a) \/ Ripens(a)
      PROVE  ReservesKept
  BY <1>24 DEF EndPost, EndCopy, WindowPasses, Ripens, rowVars, clockVars, storageVars, workVars
<1>25. ASSUME NEW a \in Attachments, NEW k \in Keys,
             ComesDue(a, k)
      PROVE  ReservesKept
  BY <1>25 DEF ComesDue, rowVars, clockVars, storageVars, workVars
<1>26. ASSUME UNCHANGED fileVars PROVE ReservesKept
  BY <1>26 DEF fileVars, rowVars, clockVars, storageVars, workVars
<1> QED
  BY <1>1, <1>2, <1>3, <1>4, <1>5, <1>6, <1>7, <1>8, <1>9, <1>10, <1>11, <1>12, <1>13, <1>14,
       <1>15, <1>16, <1>17, <1>18, <1>19, <1>20, <1>21, <1>22, <1>23, <1>24, <1>25, <1>26 DEF
       FileNext, RequestStep, PassStep, Workers

(* No step that keeps within the counted rows raises the usage.            *)
LEMMA ShrinksUsage == ASSUME FileInv, Shrinks PROVE Usage' <= Usage
<1> DEFINE C == {a \in Attachments : status[a] \in Counted}
           D == {a \in Attachments : status'[a] \in Counted}
<1>1. D \subseteq C /\ C \subseteq Attachments
  BY DEF Shrinks
<1>2. IsFiniteSet(C) /\ IsFiniteSet(D)
  BY <1>1, AttachmentAssumption, FS_Subset
<1>3. Cardinality(D) <= Cardinality(C)
  BY <1>1, <1>2, FS_Subset
<1> QED
  BY <1>3 DEF Usage, Counted

(* An intent adds its row to the counted ones.                             *)
LEMMA GrowsUsage ==
    ASSUME FileInv, NEW w \in Requests, NEW a \in Attachments, CreateIntent(w, a), WithinQuota(w)
    PROVE  Usage' = Usage + 1
<1> DEFINE C == {b \in Attachments : status[b] \in Counted}
           D == {b \in Attachments : status'[b] \in Counted}
<1>1. status' = [status EXCEPT ![a] = "pending"] /\ status[a] = "absent"
  BY DEF CreateIntent, Enter
<1>2. D = C \cup {a} /\ a \notin C
  BY <1>1 DEF FileInv, TypeInv, FileTypeOK, RowTypeOK, Counted
<1>3. IsFiniteSet(C)
  BY AttachmentAssumption, FS_Subset
<1>4. Cardinality(D) = Cardinality(C) + 1
  BY <1>2, <1>3, FS_AddElement
<1> QED
  BY <1>4 DEF Usage, Counted

(* The bound an intent read is still one after every step.                 *)
LEMMA QuotaStep == QuotaFacts /\ [FileNext]_fileVars => QuotaInv'
<1> SUFFICES ASSUME QuotaFacts, [FileNext]_fileVars, NEW v \in Workers, job'[v].op = "reserve"
             PROVE  ownerLock' = v /\ Usage' <= job'[v].used
  BY DEF QuotaInv
<1>1. ReservesKept
  BY ReserveMoves
<1>2. Usage \in Nat /\ job[v].used \in Nat
  BY UsageIsNat DEF QuotaFacts, FileInv, TypeInv, FileTypeOK, WorkTypeOK
<1>3. CASE job[v] = job'[v] /\ ownerLock = v
  <2>1. Shrinks
    <3>1. ASSUME Grows PROVE FALSE
      <4>1. PICK w \in Requests, a \in Attachments : CreateIntent(w, a)
        BY <3>1 DEF Grows
      <4>2. w = v
        BY <1>3, <4>1 DEF CreateIntent, QuotaFacts, QuotaInv, Workers
      <4>3. job'[w].op = "idle"
        BY <4>1 DEF CreateIntent, Finish, NoJob, QuotaFacts, FileInv, TypeInv, FileTypeOK, WorkTypeOK, Workers
      <4> QED
        BY <4>2, <4>3
    <3> QED
      BY <3>1, UsageMoves DEF QuotaFacts
  <2>2. Usage' \in Nat /\ Usage' <= Usage
    <3>1. TypeInv'
      BY TypeStep DEF QuotaFacts, FileInv
    <3> QED
      BY <2>1, ShrinksUsage, UsageIsNat DEF QuotaFacts
  <2>3. Usage <= job[v].used
    BY <1>3 DEF QuotaFacts, QuotaInv
  <2> QED
    BY <1>1, <1>2, <1>3, <2>2, <2>3 DEF ReservesKept
<1>4. CASE job'[v].used = Usage /\ UNCHANGED status
  <2>1. Usage' = Usage
    BY <1>4 DEF Usage
  <2> QED
    BY <1>1, <1>2, <1>4, <2>1 DEF ReservesKept
<1> QED
  BY <1>1, <1>3, <1>4 DEF ReservesKept

(* Concurrent intents keep within the quota together, however many there   *)
(* are.                                                                    *)
THEOREM QuotaStaysKept == FileSpec => QuotaKept
<1>1. FileInit => QuotaFacts
  BY FileInvInit DEF QuotaFacts, QuotaInv, FileInit, NoJob
<1>2. QuotaFacts /\ [FileNext]_fileVars => QuotaFacts'
  BY FileInvStep, QuotaStep DEF QuotaFacts
<1>3. QuotaFacts /\ [FileNext]_fileVars => [Usage' > Usage => Usage' <= Quota]_fileVars
  <2> SUFFICES ASSUME QuotaFacts, FileNext, Usage' > Usage PROVE Usage' <= Quota
    OBVIOUS
  <2>1. CASE Shrinks
    <3>1. Usage' <= Usage
      BY <2>1, ShrinksUsage DEF QuotaFacts
    <3>2. Usage \in Nat /\ Usage' \in Nat
      BY UsageIsNat
    <3> QED
      BY <3>1, <3>2
  <2>2. CASE Grows
    <3>1. PICK w \in Requests, a \in Attachments : CreateIntent(w, a) /\ WithinQuota(w)
      BY <2>2 DEF Grows
    <3>2. Usage' = Usage + 1
      BY <3>1, GrowsUsage DEF QuotaFacts
    <3>3. Usage <= job[w].used /\ job[w].used \in Nat
      BY <3>1 DEF CreateIntent, QuotaFacts, QuotaInv, FileInv, TypeInv, FileTypeOK, WorkTypeOK, Workers
    <3> QED
      BY <3>1, <3>2, <3>3, UsageIsNat, AttachmentAssumption DEF WithinQuota
  <2> QED
    BY <2>1, <2>2, UsageMoves DEF QuotaFacts
<1> QED
  BY <1>1, <1>2, <1>3, PTL DEF FileSpec, QuotaKept

=============================================================================

-------------------------- MODULE RevocationProofs --------------------------
(***************************************************************************)
(* Proofs about the way of a revocation: SourceDelivery, for any number of *)
(* events and workers, and RealtimeHub, for any number of connections,     *)
(* devices and handlers and any size of the queues.                        *)
(***************************************************************************)
EXTENDS SourceDelivery, RealtimeHub, TLAPS

-----------------------------------------------------------------------------
(* The delivery of revocations to other services.                          *)

(* What has been settled was settled rightly.                              *)
SettledRightly == DeliveredMeansApplied /\ QuarantinedMeansBad

(* The inductive invariant: rows are settled from what their workers know. *)
DeliveryInv == DeliveryTypeOK /\ WorkerKnows /\ SettledRightly

-----------------------------------------------------------------------------
(* A worker between two steps.                                             *)
LEMMA IdleFields == Idle.pc = "idle" /\ Idle.got = NoOp
  BY DEF Idle

(* Every action keeps the state within its types.                          *)
LEMMA DeliveryTypeStep ==
    ASSUME DeliveryTypeOK, [DeliveryNext]_deliveryVars
    PROVE  DeliveryTypeOK'
<1> USE DeliveryAssumption
<1>1. CASE UNCHANGED deliveryVars
  BY <1>1 DEF DeliveryTypeOK, deliveryVars, rowVars
<1>2. ASSUME NEW e \in Events, Emit(e) \/ ClaimLapses(e) \/ DelayPasses(e)
      PROVE  DeliveryTypeOK'
  BY <1>2 DEF Emit, ClaimLapses, DelayPasses, DeliveryTypeOK
<1>3. ASSUME NEW w \in Workers, NEW e \in Events, Claim(w, e)
      PROVE  DeliveryTypeOK'
  BY <1>3 DEF Claim, Step, Answers, DeliveryTypeOK
<1>4. ASSUME NEW w \in Workers, Lookup(w)
      PROVE  DeliveryTypeOK'
  <2>1. wk[w] \in Step
    BY <1>4, IdleFields DEF Lookup, DeliveryTypeOK
  <2>2. QED
    BY <1>4, <2>1 DEF Lookup, rowVars, Step, DeliveryTypeOK
<1>5. ASSUME NEW w \in Workers, Send(w)
      PROVE  DeliveryTypeOK'
  <2>1. wk[w] \in Step
    BY <1>5, IdleFields DEF Send, DeliveryTypeOK
  <2>2. QED
    BY <1>5, <2>1 DEF Send, rowVars, Step, Request, DeliveryTypeOK
<1>6. ASSUME NEW w \in Workers, Complete(w)
      PROVE  DeliveryTypeOK'
  <2>1. wk[w].got \in Ops
    BY <1>6 DEF Complete, Confirmed
  <2>2. QED
    BY <1>6, <2>1, IdleFields DEF Complete, DeliveryTypeOK
<1>7. ASSUME NEW w \in Workers, Quarantine(w)
      PROVE  DeliveryTypeOK'
  BY <1>7, IdleFields DEF Quarantine, DeliveryTypeOK
<1>8. ASSUME NEW w \in Workers, Retry(w)
      PROVE  DeliveryTypeOK'
  BY <1>8, IdleFields DEF Retry, DeliveryTypeOK
<1>9. ASSUME NEW w \in Workers, CallFails(w) \/ Stops(w)
      PROVE  DeliveryTypeOK'
  BY <1>9 DEF CallFails, Stops, rowVars, Idle, Step, Answers, DeliveryTypeOK
<1>10. ASSUME NEW r \in reqs, Receive(r)
       PROVE  DeliveryTypeOK'
  <2>1. r \in Request /\ wk[r.worker] \in Step \cup {Idle}
    BY DEF DeliveryTypeOK, Request
  <2>2. applied' \in [Events -> Ops \cup {NoOp}] /\ reqs' \subseteq Request
    BY <1>10, <2>1 DEF Receive, Request, DeliveryTypeOK
  <2>3. wk' \in [Workers -> Step \cup {Idle}]
    <3>1. wk[r.worker].pc = "wait" => wk[r.worker] \in Step
      BY <2>1, IdleFields
    <3>2. PICK ans \in Answers :
            \/ wk' = wk
            \/ /\ wk[r.worker].pc = "wait"
               /\ wk' = [wk EXCEPT ![r.worker].pc = "settle", ![r.worker].got = ans]
      BY <1>10 DEF Receive, Answers
    <3>3. QED
      BY <2>1, <3>1, <3>2 DEF Request, Step, DeliveryTypeOK
  <2>4. QED
    BY <1>10, <2>2, <2>3 DEF Receive, rowVars, DeliveryTypeOK
<1>11. QED
  BY <1>1, <1>2, <1>3, <1>4, <1>5, <1>6, <1>7, <1>8, <1>9, <1>10
     DEF DeliveryNext, WorkerStep

-----------------------------------------------------------------------------
(* What workers know stays true: the operation of an event never changes   *)
(* once the receiver has committed one.                                    *)
LEMMA WorkerKnowsStep ==
    ASSUME DeliveryTypeOK, WorkerKnows, [DeliveryNext]_deliveryVars
    PROVE  WorkerKnows'
<1> USE DeliveryAssumption
<1>1. CASE UNCHANGED deliveryVars
  BY <1>1 DEF WorkerKnows, deliveryVars, rowVars
<1>2. ASSUME NEW e \in Events, Emit(e) \/ ClaimLapses(e) \/ DelayPasses(e)
      PROVE  WorkerKnows'
  BY <1>2 DEF Emit, ClaimLapses, DelayPasses, WorkerKnows
<1>3. ASSUME NEW w \in Workers, NEW e \in Events, Claim(w, e)
      PROVE  WorkerKnows'
  BY <1>3 DEF Claim, Bad, DeliveryTypeOK, WorkerKnows
<1>4. ASSUME NEW w \in Workers, Lookup(w) \/ Send(w)
      PROVE  WorkerKnows'
  <2>1. wk[w] \in Step
    BY <1>4, IdleFields DEF Lookup, Send, DeliveryTypeOK
  <2>2. ASSUME NEW v \in Workers
        PROVE  \/ wk'[v] = wk[v]
               \/ /\ wk[v].pc \in {"lookup", "apply"}
                  /\ wk'[v].event = wk[v].event
                  /\ wk'[v].got = wk[v].got
    BY <1>4, <2>1 DEF Lookup, Send, Step, DeliveryTypeOK
  <2>3. applied' = applied
    BY <1>4 DEF Lookup, Send
  <2>4. QED
    BY <2>2, <2>3 DEF WorkerKnows
<1>5. ASSUME NEW w \in Workers, Complete(w) \/ Quarantine(w) \/ Retry(w) \/ Stops(w)
      PROVE  WorkerKnows'
  <2>1. wk' = [wk EXCEPT ![w] = Idle] /\ applied' = applied
    BY <1>5 DEF Complete, Quarantine, Retry, Stops
  <2>2. ASSUME NEW v \in Workers
        PROVE  wk'[v] = wk[v] \/ (wk'[v].pc = "idle" /\ wk'[v].got = NoOp)
    BY <2>1, IdleFields DEF DeliveryTypeOK
  <2>3. QED
    BY <2>1, <2>2 DEF WorkerKnows
<1>6. ASSUME NEW w \in Workers, CallFails(w)
      PROVE  WorkerKnows'
  BY <1>6 DEF CallFails, rowVars, Step, DeliveryTypeOK, WorkerKnows
<1>7. ASSUME NEW r \in reqs, Receive(r)
      PROVE  WorkerKnows'
  <2>1. r \in Request
    BY DEF DeliveryTypeOK
  <2>2. ASSUME NEW e \in Events, applied[e] # NoOp
        PROVE  applied'[e] = applied[e]
    BY <1>7, <2>1, <2>2 DEF Receive, Request, DeliveryTypeOK
  <2>3. ASSUME NEW v \in Workers
        PROVE  \/ wk'[v] = wk[v]
               \/ /\ wk[v].pc = "wait"
                  /\ wk[v].event \in Events
                  /\ wk'[v].pc = "settle"
                  /\ wk'[v].event = wk[v].event
                  /\ \/ wk'[v].got = "conflict" /\ wk[v].event \in Conflicting
                     \/ /\ wk'[v].got = applied'[wk[v].event]
                        /\ wk[v].event \notin Conflicting
    BY <1>7, <2>1, IdleFields DEF Receive, Request, Step, DeliveryTypeOK
  <2>4. ASSUME NEW v \in Workers, wk'[v] = wk[v], wk[v].got \in Ops
        PROVE  applied'[wk[v].event] = wk[v].got
    BY <2>2, <2>4 DEF WorkerKnows
  <2>5. SUFFICES ASSUME NEW v \in Workers
                 PROVE  /\ wk'[v].pc \in {"lookup", "apply", "wait"} => wk'[v].event \notin Invalid
                        /\ wk'[v].got \in Ops => /\ wk'[v].event \in Events \ Bad
                                                 /\ applied'[wk'[v].event] = wk'[v].got
                        /\ wk'[v].got \in {"conflict", "invalid"} => wk'[v].event \in Bad
    BY DEF WorkerKnows
  <2>6. CASE wk'[v] = wk[v]
    BY <2>4, <2>6 DEF WorkerKnows
  <2>7. CASE wk'[v] # wk[v]
    <3>1. applied'[wk[v].event] \in Ops
      BY <1>7, <2>1, <2>3, <2>7 DEF Receive, Request, DeliveryTypeOK
    <3>2. QED
      BY <2>3, <2>7, <3>1 DEF WorkerKnows, Bad
  <2>8. QED
    BY <2>6, <2>7
<1>8. QED
  BY <1>1, <1>2, <1>3, <1>4, <1>5, <1>6, <1>7 DEF DeliveryNext, WorkerStep

-----------------------------------------------------------------------------
(* A row is settled only by Complete and Quarantine, from what the worker  *)
(* knows; a late request cannot change the operation that was recorded.    *)
LEMMA SettledRightlyStep ==
    ASSUME DeliveryTypeOK, WorkerKnows, SettledRightly, [DeliveryNext]_deliveryVars
    PROVE  SettledRightly'
<1> USE DeliveryAssumption DEF SettledRightly, DeliveredMeansApplied, QuarantinedMeansBad
<1>1. CASE UNCHANGED deliveryVars
  BY <1>1 DEF deliveryVars, rowVars
<1>2. ASSUME NEW e \in Events, Emit(e) \/ ClaimLapses(e) \/ DelayPasses(e)
      PROVE  SettledRightly'
  BY <1>2 DEF Emit, ClaimLapses, DelayPasses, DeliveryTypeOK
<1>3. ASSUME NEW w \in Workers, NEW e \in Events, Claim(w, e)
      PROVE  SettledRightly'
  BY <1>3 DEF Claim
<1>4. ASSUME NEW w \in Workers, Lookup(w) \/ Send(w) \/ CallFails(w) \/ Stops(w)
      PROVE  SettledRightly'
  BY <1>4 DEF Lookup, Send, CallFails, Stops, rowVars
<1>5. ASSUME NEW w \in Workers, Complete(w)
      PROVE  SettledRightly'
  BY <1>5 DEF Complete, Confirmed, WorkerKnows, Bad, DeliveryTypeOK
<1>6. ASSUME NEW w \in Workers, Quarantine(w)
      PROVE  SettledRightly'
  BY <1>6 DEF Quarantine, WorkerKnows, Bad, DeliveryTypeOK
<1>7. ASSUME NEW w \in Workers, Retry(w)
      PROVE  SettledRightly'
  BY <1>7 DEF Retry
<1>8. ASSUME NEW r \in reqs, Receive(r)
      PROVE  SettledRightly'
  BY <1>8 DEF Receive, rowVars, Request, DeliveryTypeOK
<1>9. QED
  BY <1>1, <1>2, <1>3, <1>4, <1>5, <1>6, <1>7, <1>8 DEF DeliveryNext, WorkerStep

-----------------------------------------------------------------------------
(* Initially nothing is claimed and nothing is settled.                    *)
LEMMA DeliveryInitOK == DeliveryInit => DeliveryInv
<1> SUFFICES ASSUME DeliveryInit PROVE DeliveryInv
  OBVIOUS
<1>1. DeliveryTypeOK
  BY IdleFields DEF DeliveryInit, DeliveryTypeOK
<1>2. WorkerKnows
  BY IdleFields, DeliveryAssumption DEF DeliveryInit, WorkerKnows
<1>3. SettledRightly
  BY DEF DeliveryInit, SettledRightly, DeliveredMeansApplied, QuarantinedMeansBad
<1>4. QED
  BY <1>1, <1>2, <1>3 DEF DeliveryInv

(* The delivery tables, requests and workers keep their types.             *)
THEOREM DeliveryTypes == DeliverySpec => []DeliveryTypeOK
<1>1. DeliveryInit => DeliveryTypeOK
  BY DeliveryInitOK DEF DeliveryInv
<1>2. DeliveryTypeOK /\ [DeliveryNext]_deliveryVars => DeliveryTypeOK'
  BY DeliveryTypeStep
<1>3. QED
  BY <1>1, <1>2, PTL DEF DeliverySpec

(* The whole inductive invariant.                                          *)
LEMMA DeliveryInvariant == DeliverySpec => []DeliveryInv
<1>1. DeliveryInv /\ [DeliveryNext]_deliveryVars => DeliveryInv'
  BY DeliveryTypeStep, WorkerKnowsStep, SettledRightlyStep DEF DeliveryInv
<1>2. QED
  BY DeliveryInitOK, <1>1, PTL DEF DeliverySpec

(* However many workers claim, fail, stop and take over: a row is marked   *)
(* delivered only with the operation under which the receiver committed    *)
(* this very event.                                                        *)
THEOREM DeliveredIsApplied == DeliverySpec => []DeliveredMeansApplied
<1>1. DeliveryInv => DeliveredMeansApplied
  BY DEF DeliveryInv, SettledRightly
<1>2. QED
  BY DeliveryInvariant, <1>1, PTL

(* No deliverable revocation is ever given up.                             *)
THEOREM QuarantineIsDeserved == DeliverySpec => []QuarantinedMeansBad
<1>1. DeliveryInv => QuarantinedMeansBad
  BY DEF DeliveryInv, SettledRightly
<1>2. QED
  BY DeliveryInvariant, <1>1, PTL

-----------------------------------------------------------------------------
(* A worker whose claim lapsed and was taken over leaves row and claim     *)
(* alone when it settles.                                                  *)
THEOREM LostClaimsAreHarmless == DeliverySpec => LostClaimHarmless
<1> DEFINE Harmless(w) ==
      LET e == wk[w].event IN
      wk[w].pc = "settle" /\ wk'[w].pc = "idle" /\ (dOwner[e] # w \/ dFence[e] # wk[w].fence)
        => UNCHANGED rowVars
<1>1. ASSUME DeliveryTypeOK, [DeliveryNext]_deliveryVars, NEW w \in Workers
      PROVE  Harmless(w)
  <2> USE <1>1
  <2>1. CASE UNCHANGED deliveryVars
    BY <2>1 DEF deliveryVars
  <2>2. ASSUME NEW e \in Events, Emit(e) \/ ClaimLapses(e) \/ DelayPasses(e)
        PROVE  Harmless(w)
    BY <2>2 DEF Emit, ClaimLapses, DelayPasses
  <2>3. ASSUME NEW v \in Workers, NEW e \in Events, Claim(v, e)
        PROVE  Harmless(w)
    BY <2>3 DEF Claim, DeliveryTypeOK
  <2>4. ASSUME NEW v \in Workers, Lookup(v) \/ Send(v) \/ CallFails(v) \/ Stops(v)
        PROVE  Harmless(w)
    BY <2>4 DEF Lookup, Send, CallFails, Stops
  <2>5. ASSUME NEW v \in Workers, Complete(v) \/ Quarantine(v) \/ Retry(v)
        PROVE  Harmless(w)
    BY <2>5 DEF Complete, Quarantine, Retry, HoldsClaim, rowVars, DeliveryTypeOK
  <2>6. ASSUME NEW r \in reqs, Receive(r)
        PROVE  Harmless(w)
    BY <2>6 DEF Receive
  <2>7. QED
    BY <2>1, <2>2, <2>3, <2>4, <2>5, <2>6 DEF DeliveryNext, WorkerStep
<1>2. DeliveryTypeOK /\ [DeliveryNext]_deliveryVars => [\A w \in Workers : Harmless(w)]_deliveryVars
  BY <1>1
<1>3. QED
  BY <1>2, DeliveryTypes, PTL DEF DeliverySpec, LostClaimHarmless

-----------------------------------------------------------------------------
(* The realtime hub.                                                       *)

(* The inductive invariants: the first for the types and the indexes, the  *)
(* second, on top of the types, for what a client receives.                *)
IndexInv == HubTypeOK /\ Together /\ IndexExact
LateInv == LateIsHeld /\ NoLateDelivery

-----------------------------------------------------------------------------
(* What enqueue does to the queue of a connection: at most one envelope is *)
(* added at its end, and it is late only if the token was revoked.         *)
QueueGrows(c) ==
    \/ outbound' = outbound
    \/ /\ Len(outbound[c]) < Buffer
       /\ \E m \in Envelopes : /\ m = "late" => TokenOf[c] \in revoked
                               /\ outbound' = [outbound EXCEPT ![c] = Append(@, m)]

LEMMA EnqueueGrows ==
    ASSUME NEW c \in Conns, (HasRoom(c) /\ Enqueue(c)) \/ UNCHANGED outbound
    PROVE  QueueGrows(c)
  BY DEF HasRoom, Enqueue, QueueGrows, Envelopes

LEMMA EnqueueOrStopGrows ==
    ASSUME NEW c \in Conns, EnqueueOrStop(c)
    PROVE  QueueGrows(c)
  BY EnqueueGrows DEF EnqueueOrStop

(* A queue that grows keeps its type and its limit.                        *)
LEMMA QueueTypes ==
    ASSUME HubTypeOK, NEW c \in Conns, QueueGrows(c)
    PROVE  QueuesOK'
<1>1. CASE outbound' = outbound
  BY <1>1 DEF HubTypeOK, QueuesOK
<1>2. ASSUME NEW m \in Envelopes, outbound' = [outbound EXCEPT ![c] = Append(@, m)],
             Len(outbound[c]) < Buffer
      PROVE  QueuesOK'
  <2>1. Append(outbound[c], m) \in Seq(Envelopes) /\ Len(Append(outbound[c], m)) = Len(outbound[c]) + 1
    BY DEF HubTypeOK, QueuesOK
  <2>2. Len(outbound[c]) \in Nat /\ Buffer \in Nat
    BY HubAssumption DEF HubTypeOK, QueuesOK
  <2>3. QED
    BY <1>2, <2>1, <2>2 DEF HubTypeOK, QueuesOK
<1>3. QED
  BY <1>1, <1>2 DEF QueueGrows

(* A queue that grows holds late envelopes of revoked tokens only.         *)
LEMMA QueueHolds ==
    ASSUME HubTypeOK, LateIsHeld, NEW c \in Conns, QueueGrows(c),
           NEW b \in Conns, NEW i \in 1..Len(outbound'[b]), outbound'[b][i] = "late"
    PROVE  TokenOf[b] \in revoked
<1>1. CASE outbound' = outbound
  BY <1>1 DEF LateIsHeld
<1>2. ASSUME NEW m \in Envelopes, m = "late" => TokenOf[c] \in revoked,
             outbound' = [outbound EXCEPT ![c] = Append(@, m)]
      PROVE  TokenOf[b] \in revoked
  <2>1. CASE b # c
    BY <1>2, <2>1 DEF HubTypeOK, QueuesOK, LateIsHeld
  <2>2. CASE b = c
    <3>1. outbound'[c] = Append(outbound[c], m) /\ outbound[c] \in Seq(Envelopes)
      BY <1>2 DEF HubTypeOK, QueuesOK
    <3>2. (i \in 1..Len(outbound[c]) /\ outbound[c][i] = "late") \/ m = "late"
      BY <2>2, <3>1
    <3>3. QED
      BY <1>2, <2>2, <3>2 DEF LateIsHeld
  <2>3. QED
    BY <2>1, <2>2
<1>3. QED
  BY <1>1, <1>2 DEF QueueGrows

-----------------------------------------------------------------------------
(* Every action keeps the state within its types.                          *)
LEMMA ServeTypes ==
    ASSUME HubTypeOK, NEW c \in Conns, Connect(c) \/ ServeConnection(c) \/ CloseConn(c)
    PROVE  HubTypeOK'
<1> USE DEF indexVars, readVars, Stop
<1>0. UNCHANGED outbound => QueuesOK'
  BY DEF HubTypeOK, QueuesOK
<1>1. CASE Connect(c) \/ Register(c) \/ CloseConn(c)
  <2>1. pc' \in [Conns -> Phases]
    BY <1>1 DEF Connect, Register, CloseConn, HubTypeOK, Phases
  <2>2. QED
    BY <1>0, <1>1, <2>1 DEF Connect, Register, CloseConn, HubTypeOK
<1>2. CASE Greet(c)
  <2>1. QueuesOK'
    BY <1>2, EnqueueOrStopGrows, QueueTypes DEF Greet
  <2>2. stopping' \in [Conns -> BOOLEAN]
    BY <1>2 DEF Greet, EnqueueOrStop, HubTypeOK
  <2>3. QED
    BY <1>2, <2>1, <2>2 DEF Greet, HubTypeOK, Phases
<1>3. CASE Finish(c) \/ Signalled(c) \/ Tick(c)
  <2>1. pc' \in [Conns -> Phases]
    BY <1>3 DEF Finish, Signalled, Tick, AfterTick, HubTypeOK, Phases
  <2>2. QED
    BY <1>0, <1>3, <2>1 DEF Finish, Signalled, Tick, HubTypeOK
<1>4. CASE Take(c)
  <2>1. /\ Head(outbound[c]) \in Envelopes
        /\ Tail(outbound[c]) \in Seq(Envelopes)
        /\ Len(Tail(outbound[c])) <= Buffer
    BY <1>4, HubAssumption DEF Take, HubTypeOK, QueuesOK
  <2>2. QueuesOK'
    BY <1>4, <2>1 DEF Take, HubTypeOK, QueuesOK
  <2>3. QED
    BY <1>4, <2>1, <2>2 DEF Take, AfterTake, HubTypeOK, Phases
<1>5. CASE Revalidate(c) \/ Unwind(c)
  <2>1. pc' \in [Conns -> Phases]
    BY <1>5 DEF Revalidate, Unwind, HubTypeOK, Phases
  <2>2. job' = job \/ job' = [job EXCEPT ![c] = "none"]
    BY <1>5 DEF Revalidate, Unwind
  <2>3. stopping' = stopping \/ stopping' = [stopping EXCEPT ![c] = TRUE]
    BY <1>5 DEF Revalidate, Unwind
  <2>4. UNCHANGED <<revoked, hubClosed, sessions, byDevice, bound, outbound, revalidation,
                    cancelled, reader, wanted, caller, received>>
    BY <1>5 DEF Revalidate, Unwind
  <2>5. job' \in [Conns -> Envelopes \cup {"none", "ping"}]
    BY <2>2 DEF HubTypeOK
  <2>6. stopping' \in [Conns -> BOOLEAN]
    BY <2>3 DEF HubTypeOK
  <2>7. QED
    BY <1>0, <2>1, <2>4, <2>5, <2>6 DEF HubTypeOK
<1>6. CASE Write(c)
  <2>1. received' \in [Conns -> Envelopes \cup {"none"}]
    BY <1>6 DEF Write, HubTypeOK, Envelopes
  <2>2. pc' \in [Conns -> Phases]
    BY <1>6 DEF Write, HubTypeOK, Phases
  <2>3. QED
    BY <1>0, <1>6, <2>1, <2>2 DEF Write, HubTypeOK
<1>7. CASE Unregister(c)
  <2>1. QueuesOK'
    BY <1>7, HubAssumption DEF Unregister, HubTypeOK, QueuesOK
  <2>2. QED
    BY <1>7, <2>1 DEF Unregister, WithoutBinding, HubTypeOK, Phases
<1>8. QED
  BY <1>1, <1>2, <1>3, <1>4, <1>5, <1>6, <1>7 DEF ServeConnection

LEMMA ReadTypes ==
    ASSUME HubTypeOK, Together, NEW c \in Conns, ReadLoop(c)
    PROVE  HubTypeOK'
<1> USE DEF indexVars, readVars, Stop
<1>0. UNCHANGED outbound => QueuesOK'
  BY DEF HubTypeOK, QueuesOK
<1>1. ASSUME NEW d \in Devices, ReadBind(c, d)
      PROVE  HubTypeOK'
  BY <1>0, <1>1 DEF ReadBind, HubTypeOK
<1>2. CASE ReadOther(c) \/ AckBind(c)
  <2>1. QueuesOK'
    BY <1>2, EnqueueOrStopGrows, QueueTypes DEF ReadOther, AckBind
  <2>2. stopping' \in [Conns -> BOOLEAN]
    BY <1>2 DEF ReadOther, AckBind, EnqueueOrStop, HubTypeOK
  <2>3. QED
    BY <1>2, <2>1, <2>2 DEF ReadOther, AckBind, HubTypeOK
<1>3. CASE AuthorizeDevice(c)
  <2>1. QueuesOK'
    BY <1>3, EnqueueGrows, QueueTypes DEF AuthorizeDevice
  <2>2. QED
    BY <1>3, <2>1 DEF AuthorizeDevice, HubTypeOK
<1>4. CASE Bind(c)
  <2>1. wanted[c] \in Devices
    BY <1>4 DEF Bind, Together
  <2>2. WithoutBinding(c) \in [Devices -> SUBSET Conns]
    BY DEF WithoutBinding, HubTypeOK
  <2>3. byDevice' \in [Devices -> SUBSET Conns] /\ bound' \in [Conns -> Devices \cup {NoDevice}]
    BY <1>4, <2>1, <2>2 DEF Bind, HubTypeOK
  <2>4. QED
    BY <1>0, <1>4, <2>3 DEF Bind, HubTypeOK
<1>5. CASE ReadEnds(c)
  BY <1>0, <1>5 DEF ReadEnds, HubTypeOK
<1>6. QED
  BY <1>1, <1>2, <1>3, <1>4, <1>5 DEF ReadLoop

LEMMA HandlerTypes ==
    ASSUME HubTypeOK, NEW p \in Callers,
           Handler(p) \/ \E c \in Conns : Visit(p, c)
    PROVE  HubTypeOK'
<1> USE DEF readVars, indexVars, Stop
<1>0. UNCHANGED outbound => QueuesOK'
  BY DEF HubTypeOK, QueuesOK
<1>1. ASSUME NEW op \in {"publish", "revalidate", "close"}, NEW T \in SUBSET Conns,
             Start(p, op, T), hubClosed' \in BOOLEAN
      PROVE  HubTypeOK'
  BY <1>0, <1>1 DEF Start, Remaining, NoCall, HubTypeOK
<1>2. ASSUME NEW u \in Users, PublishToUser(p, u) \/ RevalidateUser(p, u)
      PROVE  HubTypeOK'
  BY <1>1, <1>2 DEF PublishToUser, RevalidateUser, HubTypeOK
<1>3. ASSUME NEW d \in Devices, PublishToCryptoDevice(p, d)
      PROVE  HubTypeOK'
  BY <1>1, <1>3 DEF PublishToCryptoDevice, HubTypeOK
<1>4. ASSUME NEW t \in Tokens, CloseToken(p, t)
      PROVE  HubTypeOK'
  BY <1>1, <1>4 DEF CloseToken, HubTypeOK
<1>5. CASE HubClose(p)
  BY <1>1, <1>5 DEF HubClose, HubTypeOK
<1>6. ASSUME NEW c \in Conns, Visit(p, c)
      PROVE  HubTypeOK'
  <2>1. caller' \in [Callers -> [op: {"idle", "publish", "revalidate", "close"}, targets: SUBSET Conns]]
    BY <1>6 DEF Visit, Remaining, NoCall, HubTypeOK
  <2>2. QueuesOK'
    BY <1>0, <1>6, EnqueueOrStopGrows, QueueTypes DEF Visit
  <2>3. stopping' \in [Conns -> BOOLEAN] /\ revalidation' \in [Conns -> BOOLEAN]
    BY <1>6 DEF Visit, EnqueueOrStop, HubTypeOK
  <2>4. QED
    BY <1>6, <2>1, <2>2, <2>3 DEF Visit, HubTypeOK
<1>7. QED
  BY <1>2, <1>3, <1>4, <1>5, <1>6 DEF Handler
-----------------------------------------------------------------------------
(* Every action keeps the goroutines of a connection together and the      *)
(* indexes exact.                                                          *)
LEMMA ServeIndexes ==
    ASSUME IndexInv, NEW c \in Conns, Connect(c) \/ ServeConnection(c) \/ CloseConn(c)
    PROVE  Together' /\ IndexExact'
<1> USE DEF IndexInv, HubTypeOK, indexVars, readVars, Stop
<1>1. CASE Connect(c)
  BY <1>1 DEF Connect, Together, IndexExact
<1>2. CASE Register(c)
  BY <1>2 DEF Register, Together, IndexExact
<1>3. CASE CloseConn(c)
  BY <1>3 DEF CloseConn, Together, IndexExact
<1>4. CASE Greet(c)
  BY <1>4 DEF Greet, EnqueueOrStop, Together, IndexExact
<1>5. CASE Finish(c) \/ Signalled(c)
  BY <1>5 DEF Finish, Signalled, Together, IndexExact
<1>6. CASE Take(c) \/ Tick(c)
  BY <1>6 DEF Take, AfterTake, Tick, AfterTick, Together, IndexExact
<1>7. CASE Revalidate(c)
  BY <1>7 DEF Revalidate, Together, IndexExact
<1>8. CASE Write(c)
  BY <1>8 DEF Write, Together, IndexExact
<1>9. CASE Unwind(c)
  BY <1>9 DEF Unwind, Together, IndexExact
<1>10. CASE Unregister(c)
  <2>1. Together'
    BY <1>10 DEF Unregister, Together
  <2>2. IndexExact'
    BY <1>10, HubAssumption DEF Unregister, WithoutBinding, Together, IndexExact
  <2>3. QED
    BY <2>1, <2>2
<1>11. QED
  BY <1>1, <1>2, <1>3, <1>4, <1>5, <1>6, <1>7, <1>8, <1>9, <1>10 DEF ServeConnection

(* In particular a device is bound only to a connection that is being      *)
(* served: its session is not stopping, so it was not unregistered.        *)
LEMMA ReadIndexes ==
    ASSUME IndexInv, NEW c \in Conns, ReadLoop(c)
    PROVE  Together' /\ IndexExact'
<1> USE DEF IndexInv, HubTypeOK, indexVars, readVars, Stop
<1>1. ASSUME NEW d \in Devices, ReadBind(c, d)
      PROVE  Together' /\ IndexExact'
  BY <1>1 DEF ReadBind, Together, IndexExact
<1>2. CASE ReadOther(c)
  BY <1>2 DEF ReadOther, EnqueueOrStop, Together, IndexExact
<1>3. CASE AuthorizeDevice(c)
  BY <1>3 DEF AuthorizeDevice, Together, IndexExact
<1>4. CASE AckBind(c)
  BY <1>4 DEF AckBind, EnqueueOrStop, Together, IndexExact
<1>5. CASE ReadEnds(c)
  BY <1>5 DEF ReadEnds, Together, IndexExact
<1>6. CASE Bind(c)
  <2>1. Together'
    BY <1>6 DEF Bind, Together
  <2>2. MayBind(c) => c \in sessions
    BY <1>6 DEF Bind, MayBind, Together
  <2>3. CASE ~MayBind(c)
    BY <1>6, <2>1, <2>3 DEF Bind, IndexExact
  <2>4. CASE MayBind(c)
    <3>1. /\ wanted[c] \in Devices
          /\ byDevice' = [WithoutBinding(c) EXCEPT ![wanted[c]] = @ \cup {c}]
          /\ bound' = [bound EXCEPT ![c] = wanted[c]]
          /\ UNCHANGED <<sessions, pc>>
      BY <1>6, <2>4 DEF Bind, Together
    <3>2. \A d \in Devices, b \in Conns : b \in byDevice'[d] <=> bound'[b] = d
      BY <3>1 DEF WithoutBinding, IndexExact
    <3>3. QED
      BY <2>1, <2>2, <2>4, <3>1, <3>2 DEF IndexExact, Together
  <2>5. QED
    BY <2>1, <2>3, <2>4
<1>7. QED
  BY <1>1, <1>2, <1>3, <1>4, <1>5, <1>6 DEF ReadLoop

LEMMA HandlerIndexes ==
    ASSUME IndexInv, NEW p \in Callers, Handler(p) \/ \E c \in Conns : Visit(p, c)
    PROVE  Together' /\ IndexExact'
<1> USE DEF IndexInv, HubTypeOK, indexVars, readVars, Stop
<1>1. CASE Handler(p)
  <2>1. UNCHANGED <<sessions, byDevice, bound, pc, stopping, reader, wanted>>
    BY <1>1 DEF Handler, PublishToUser, RevalidateUser, PublishToCryptoDevice, CloseToken,
                HubClose, Start
  <2>2. QED
    BY <2>1 DEF Together, IndexExact
<1>2. ASSUME NEW c \in Conns, Visit(p, c)
      PROVE  Together' /\ IndexExact'
  BY <1>2 DEF Visit, EnqueueOrStop, Together, IndexExact
<1>3. QED
  BY <1>1, <1>2

LEMMA IndexStep ==
    ASSUME IndexInv, [HubNext]_hubVars
    PROVE  IndexInv'
<1>1. CASE UNCHANGED hubVars
  BY <1>1 DEF hubVars, IndexInv, HubTypeOK, QueuesOK, Together, IndexExact
<1>2. ASSUME NEW t \in Tokens, IdentityRevokes(t)
      PROVE  IndexInv'
  BY <1>2 DEF IdentityRevokes, indexVars, readVars, IndexInv, HubTypeOK, QueuesOK, Together, IndexExact
<1>3. QED
  BY <1>1, <1>2, ServeTypes, ReadTypes, HandlerTypes, ServeIndexes, ReadIndexes, HandlerIndexes
     DEF HubNext, IndexInv

LEMMA IndexInvariant == HubSpec => []IndexInv
<1>1. HubInit => IndexInv
  <2> SUFFICES ASSUME HubInit PROVE IndexInv
    OBVIOUS
  <2>1. HubTypeOK
    <3>1. QueuesOK
      BY HubAssumption DEF HubInit, QueuesOK
    <3>2. NoCall \in [op: {"idle", "publish", "revalidate", "close"}, targets: SUBSET Conns]
      BY DEF NoCall
    <3>3. QED
      BY <3>1, <3>2 DEF HubInit, HubTypeOK, Phases
  <2>2. Together /\ IndexExact
    BY HubAssumption DEF HubInit, Together, IndexExact
  <2>3. QED
    BY <2>1, <2>2 DEF IndexInv
<1>2. QED
  BY <1>1, IndexStep, PTL DEF HubSpec

(* The hub keeps its types, and no queue outgrows its buffer.              *)
THEOREM HubTypes == HubSpec => []HubTypeOK
  BY IndexInvariant, PTL DEF IndexInv

(* A device bucket holds exactly the connections bound to the device, and  *)
(* nothing of an unregistered connection stays in the hub.                 *)
THEOREM IndexesAreExact == HubSpec => []IndexExact
  BY IndexInvariant, PTL DEF IndexInv

-----------------------------------------------------------------------------
(* No action lets a late envelope past revalidation.                       *)
LEMMA LateStep ==
    ASSUME HubTypeOK, LateInv, [HubNext]_hubVars
    PROVE  LateInv'
<1> USE DEF HubTypeOK, LateInv, NoLateDelivery, indexVars, readVars, Stop
<1>1. CASE UNCHANGED hubVars
  BY <1>1 DEF hubVars, LateIsHeld
<1>2. ASSUME NEW c \in Conns, QueueGrows(c),
             UNCHANGED <<revoked, job, received>>,
             \A b \in Conns : pc'[b] = "write" => pc[b] = "write"
      PROVE  LateInv'
  BY <1>2, QueueHolds DEF LateIsHeld
<1>3. ASSUME NEW c \in Conns, Connect(c) \/ ServeConnection(c) \/ CloseConn(c)
      PROVE  LateInv'
  <2>1. CASE Connect(c) \/ Register(c) \/ CloseConn(c) \/ Finish(c) \/ Signalled(c) \/ Unwind(c)
    BY <2>1 DEF Connect, Register, CloseConn, Finish, Signalled, Unwind, LateIsHeld
  <2>2. CASE Greet(c)
    BY <1>2, <2>2, EnqueueOrStopGrows DEF Greet
  <2>3. CASE Take(c)
    <3>1. outbound[c] \in Seq(Envelopes) /\ outbound[c] # <<>>
      BY <2>3 DEF Take, QueuesOK
    <3>2. /\ Head(outbound[c]) = outbound[c][1]
          /\ 1 \in 1..Len(outbound[c])
          /\ \A i \in 1..Len(Tail(outbound[c])) :
                i + 1 \in 1..Len(outbound[c]) /\ Tail(outbound[c])[i] = outbound[c][i + 1]
      BY <3>1
    <3>3. QED
      BY <2>3, <3>2 DEF Take, AfterTake, LateIsHeld, QueuesOK
  <2>4. CASE Tick(c)
    BY <2>4 DEF Tick, LateIsHeld
  <2>5. CASE Revalidate(c)
    BY <2>5 DEF Revalidate, LateIsHeld
  <2>6. CASE Write(c)
    BY <2>6 DEF Write, LateIsHeld
  <2>7. CASE Unregister(c)
    BY <2>7 DEF Unregister, LateIsHeld, QueuesOK
  <2>8. QED
    BY <1>3, <2>1, <2>2, <2>3, <2>4, <2>5, <2>6, <2>7 DEF ServeConnection
<1>4. ASSUME NEW c \in Conns, ReadLoop(c)
      PROVE  LateInv'
  <2>1. QueueGrows(c) /\ UNCHANGED <<revoked, job, received, pc>>
    BY <1>4, EnqueueOrStopGrows, EnqueueGrows
       DEF ReadLoop, ReadBind, ReadOther, AuthorizeDevice, Bind, AckBind, ReadEnds
  <2>2. QED
    BY <1>2, <2>1
<1>5. ASSUME NEW p \in Callers, Handler(p)
      PROVE  LateInv'
  <2>1. UNCHANGED <<revoked, job, received, pc, outbound>>
    BY <1>5 DEF Handler, PublishToUser, RevalidateUser, PublishToCryptoDevice, CloseToken,
                HubClose, Start
  <2>2. QED
    BY <2>1 DEF LateIsHeld
<1>6. ASSUME NEW p \in Callers, NEW c \in Conns, Visit(p, c)
      PROVE  LateInv'
  <2>1. QueueGrows(c) /\ UNCHANGED <<revoked, job, received, pc>>
    BY <1>6, EnqueueOrStopGrows, EnqueueGrows DEF Visit
  <2>2. QED
    BY <1>2, <2>1
<1>7. ASSUME NEW t \in Tokens, IdentityRevokes(t)
      PROVE  LateInv'
  BY <1>7 DEF IdentityRevokes, LateIsHeld
<1>8. QED
  BY <1>1, <1>3, <1>4, <1>5, <1>6, <1>7 DEF HubNext

(* What is published to a connection after its token was revoked is never  *)
(* written to it: every envelope is revalidated after it has left the      *)
(* queue, and identity does not take a token back.                         *)
THEOREM LateIsNeverDelivered == HubSpec => []NoLateDelivery
<1>1. HubInit => LateInv
  BY DEF HubInit, LateInv, LateIsHeld, NoLateDelivery
<1>2. QED
  BY <1>1, HubTypes, LateStep, PTL DEF HubSpec, LateInv

=============================================================================

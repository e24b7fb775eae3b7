--------------------------- MODULE SourceDelivery ---------------------------
(***************************************************************************)
(* Delivery of authority revocations from a source service (aero-identity; *)
(* aero-chat has the same worker and the same SQL) to aero-rtc-control.    *)
(* The source writes a delivery row with the change it reports.  Workers   *)
(* claim rows under a lease and a fence (domain/delivery/worker.go,        *)
(* storage/postgres/authority_delivery.go), call the receiver over HTTP    *)
(* and settle the row.  A request may be executed after its caller has     *)
(* given up, an answer may be lost, a worker may stop anywhere.            *)
(*                                                                         *)
(* attempt and claim_fence of a row move together, so dFence is both.      *)
(***************************************************************************)
EXTENDS Naturals, FiniteSets

CONSTANTS
    Events, Workers,
    Ops,          \* operation ids of the receiver
    Invalid,      \* events whose row Event.Validate refuses
    Conflicting,  \* events whose id the receiver knows with other contents
    OccurredAt,   \* order of the events by (occurred_at, id)
    MaxFence,     \* failures and lapsed claims stop at this fence
    NoOp, NoWorker, NoEvent

ASSUME DeliveryAssumption ==
    /\ Invalid \subseteq Events
    /\ Conflicting \subseteq Events
    /\ OccurredAt \in [Events -> Nat]
    /\ MaxFence \in Nat \ {0}
    /\ NoOp \notin Ops
    /\ (Ops \cup {NoOp}) \cap {"conflict", "invalid", "failed"} = {}
    /\ NoWorker \notin Workers
    /\ NoEvent \notin Events

VARIABLES
    dState, dOwner, dFence,  \* the delivery row
    live,                    \* claim_until is in the future
    due,                     \* next_attempt_at has passed
    recorded,                \* operation_id of a delivered row
    applied,                 \* operation of the event in the receiver's inbox
    reqs,                    \* Apply requests on their way
    wk                       \* the step each worker is in

rowVars == <<dState, dOwner, dFence, live, due, recorded>>
deliveryVars == <<rowVars, applied, reqs, wk>>

Bad == Invalid \cup Conflicting
Answers == Ops \cup {NoOp, "conflict", "invalid", "failed"}
Request == [worker: Workers, event: Events, fence: Nat]
Step == [pc: {"lookup", "apply", "wait", "settle"}, event: Events,
         fence: Nat, recovered: Ops \cup {NoOp}, got: Answers]
Idle == [pc |-> "idle", event |-> NoEvent, fence |-> 0, recovered |-> NoOp, got |-> NoOp]

DeliveryTypeOK ==
    /\ dState \in [Events -> {"absent", "pending", "delivered", "quarantined"}]
    /\ dOwner \in [Events -> Workers \cup {NoWorker}]
    /\ dFence \in [Events -> Nat]
    /\ live \in [Events -> BOOLEAN]
    /\ due \in [Events -> BOOLEAN]
    /\ recorded \in [Events -> Ops \cup {NoOp}]
    /\ applied \in [Events -> Ops \cup {NoOp}]
    /\ reqs \subseteq Request
    /\ wk \in [Workers -> Step \cup {Idle}]

(* The receiver has a conflicting id from another sender already.          *)
DeliveryInit ==
    /\ dState = [e \in Events |-> "absent"]
    /\ dOwner = [e \in Events |-> NoWorker]
    /\ dFence = [e \in Events |-> 0]
    /\ live = [e \in Events |-> FALSE]
    /\ due = [e \in Events |-> FALSE]
    /\ recorded = [e \in Events |-> NoOp]
    /\ applied \in [Events -> Ops \cup {NoOp}]
    /\ \A e \in Events : applied[e] # NoOp <=> e \in Conflicting
    /\ reqs = {}
    /\ wk = [w \in Workers |-> Idle]

-----------------------------------------------------------------------------
(* CreateAuthorityRevocationEvent, in the transaction of the revocation.   *)
Emit(e) ==
    /\ dState[e] = "absent"
    /\ dState' = [dState EXCEPT ![e] = "pending"]
    /\ due' = [due EXCEPT ![e] = TRUE]
    /\ UNCHANGED <<dOwner, dFence, live, recorded, applied, reqs, wk>>

(* Mutant: a claim never lapses.                                           *)
Ready_unclaimed == {e \in Events : dState[e] = "pending" /\ due[e] /\ dOwner[e] = NoWorker}

Ready == {e \in Events : dState[e] = "pending" /\ due[e] /\ ~live[e]}

(* ClaimAuthorityDelivery, then what Step does with the row: an invalid    *)
(* one is settled at once, the first attempt applies, a later one first    *)
(* looks the receipt up.                                                   *)
Claim(w, e) ==
    /\ wk[w].pc = "idle"
    /\ e \in Ready
    /\ \A f \in Ready : OccurredAt[e] <= OccurredAt[f]
    /\ dOwner' = [dOwner EXCEPT ![e] = w]
    /\ dFence' = [dFence EXCEPT ![e] = @ + 1]
    /\ live' = [live EXCEPT ![e] = TRUE]
    /\ wk' = [wk EXCEPT ![w] =
         [pc |-> IF e \in Invalid THEN "settle" ELSE IF dFence[e] > 0 THEN "lookup" ELSE "apply",
          event |-> e, fence |-> dFence[e] + 1, recovered |-> NoOp,
          got |-> IF e \in Invalid THEN "invalid" ELSE NoOp]]
    /\ UNCHANGED <<dState, due, recorded, applied, reqs>>

(* Client.Lookup: a receipt that is found is not trusted yet, the event is *)
(* applied again and both must name the same operation.                    *)
Lookup(w) ==
    /\ wk[w].pc = "lookup"
    /\ wk' = [wk EXCEPT ![w].pc = "apply", ![w].recovered = applied[wk[w].event]]
    /\ UNCHANGED <<rowVars, applied, reqs>>

(* Client.Apply sends its request.                                         *)
Send(w) ==
    /\ wk[w].pc = "apply"
    /\ wk' = [wk EXCEPT ![w].pc = "wait"]
    /\ reqs' = reqs \cup {[worker |-> w, event |-> wk[w].event, fence |-> wk[w].fence]}
    /\ UNCHANGED <<rowVars, applied>>

(* The receiver commits the event, or finds it in its inbox, and answers   *)
(* with the event's operation; the answer reaches the worker only if it is *)
(* still waiting for it.                                                   *)
Receive(r) ==
    LET waiting == wk[r.worker].pc = "wait" /\ wk[r.worker].event = r.event
                                            /\ wk[r.worker].fence = r.fence IN
    /\ r \in reqs
    /\ reqs' = reqs \ {r}
    /\ \E op \in Ops :
       /\ applied[r.event] # NoOp => op = applied[r.event]
       /\ applied' = [applied EXCEPT ![r.event] = op]
       /\ wk' = IF waiting
                  THEN [wk EXCEPT ![r.worker].pc = "settle",
                                  ![r.worker].got = IF r.event \in Conflicting THEN "conflict" ELSE op]
                  ELSE wk
    /\ UNCHANGED rowVars

(* The call fails or runs into the attempt budget.                         *)
CallFails(w) ==
    /\ wk[w].pc \in {"lookup", "wait"}
    /\ wk[w].fence < MaxFence
    /\ wk' = [wk EXCEPT ![w].pc = "settle", ![w].got = "failed"]
    /\ UNCHANGED <<rowVars, applied, reqs>>

(* The worker stops, or its context has expired: the row stays claimed.    *)
Stops(w) ==
    /\ wk[w].pc # "idle"
    /\ wk[w].fence < MaxFence
    /\ wk' = [wk EXCEPT ![w] = Idle]
    /\ UNCHANGED <<rowVars, applied, reqs>>

-----------------------------------------------------------------------------
(* Mutant: settles whatever claim the row has now.                         *)
HoldsClaim_anyone(w) == LET e == wk[w].event IN dState[e] = "pending" /\ live[e]

(* The WHERE clause of Complete, Quarantine and Retry; otherwise the claim *)
(* is stale and the row is left alone.                                     *)
HoldsClaim(w) ==
    LET e == wk[w].event IN
    /\ dState[e] = "pending"
    /\ dOwner[e] = w
    /\ dFence[e] = wk[w].fence
    /\ live[e]

(* Mutant: any answer will do.                                             *)
Confirmed_anyAnswer(w) == wk[w].got # "failed"

(* The answer of Apply agrees with the receipt that was looked up.         *)
Confirmed(w) == wk[w].got \in Ops /\ wk[w].recovered \in {NoOp, wk[w].got}

Complete(w) ==
    LET e == wk[w].event IN
    /\ wk[w].pc = "settle"
    /\ Confirmed(w)
    /\ IF HoldsClaim(w)
         THEN /\ dState' = [dState EXCEPT ![e] = "delivered"]
              /\ recorded' = [recorded EXCEPT ![e] = wk[w].got]
         ELSE UNCHANGED <<dState, recorded>>
    /\ wk' = [wk EXCEPT ![w] = Idle]
    /\ UNCHANGED <<dOwner, dFence, live, due, applied, reqs>>

(* Mutant: a failed call is taken for a refusal.                           *)
Quarantine_onFailure(w) ==
    LET e == wk[w].event IN
    /\ wk[w].pc = "settle"
    /\ ~Confirmed(w)
    /\ dState' = IF HoldsClaim(w) THEN [dState EXCEPT ![e] = "quarantined"] ELSE dState
    /\ wk' = [wk EXCEPT ![w] = Idle]
    /\ UNCHANGED <<dOwner, dFence, live, due, recorded, applied, reqs>>

Quarantine(w) ==
    LET e == wk[w].event IN
    /\ wk[w].pc = "settle"
    /\ wk[w].got \in {"conflict", "invalid"}
    /\ dState' = IF HoldsClaim(w) THEN [dState EXCEPT ![e] = "quarantined"] ELSE dState
    /\ wk' = [wk EXCEPT ![w] = Idle]
    /\ UNCHANGED <<dOwner, dFence, live, due, recorded, applied, reqs>>

Retry(w) ==
    LET e == wk[w].event IN
    /\ wk[w].pc = "settle"
    /\ wk[w].got \notin {"conflict", "invalid"}
    /\ ~Confirmed(w)
    /\ IF HoldsClaim(w)
         THEN /\ dOwner' = [dOwner EXCEPT ![e] = NoWorker]
              /\ live' = [live EXCEPT ![e] = FALSE]
              /\ due' = [due EXCEPT ![e] = FALSE]
         ELSE UNCHANGED <<dOwner, live, due>>
    /\ wk' = [wk EXCEPT ![w] = Idle]
    /\ UNCHANGED <<dState, dFence, recorded, applied, reqs>>

(* Time passes: a claim lapses, also under a worker that has been held up  *)
(* (an attempt is shorter than a claim, so the budget of failures counts   *)
(* that too), and a delay runs out.                                        *)
ClaimLapses(e) ==
    /\ dState[e] = "pending"
    /\ live[e]
    /\ \/ dFence[e] < MaxFence
       \/ \A w \in Workers : wk[w].event # e \/ wk[w].fence # dFence[e]
    /\ live' = [live EXCEPT ![e] = FALSE]
    /\ UNCHANGED <<dState, dOwner, dFence, due, recorded, applied, reqs, wk>>

DelayPasses(e) ==
    /\ dState[e] = "pending"
    /\ ~due[e]
    /\ due' = [due EXCEPT ![e] = TRUE]
    /\ UNCHANGED <<dState, dOwner, dFence, live, recorded, applied, reqs, wk>>

-----------------------------------------------------------------------------
WorkerStep(w) == \/ \E e \in Events : Claim(w, e)
                 \/ Lookup(w)
                 \/ Send(w)
                 \/ Complete(w)
                 \/ Quarantine(w)
                 \/ Retry(w)

DeliveryNext ==
    \/ \E e \in Events : Emit(e) \/ ClaimLapses(e) \/ DelayPasses(e)
    \/ \E w \in Workers : WorkerStep(w) \/ CallFails(w) \/ Stops(w)
    \/ \E r \in reqs : Receive(r)

DeliverySpec == DeliveryInit /\ [][DeliveryNext]_deliveryVars

(* Worker.Run takes a step every second, time passes, and the receiver     *)
(* answers a caller that goes on waiting.                                  *)
DeliveryFairSpec ==
    /\ DeliverySpec
    /\ \A w \in Workers : /\ WF_deliveryVars(WorkerStep(w))
                          /\ WF_deliveryVars(\E r \in reqs : r.worker = w /\ r.fence = wk[w].fence
                                                             /\ r.event = wk[w].event /\ Receive(r))
    /\ \A e \in Events : WF_deliveryVars(ClaimLapses(e)) /\ WF_deliveryVars(DelayPasses(e))

-----------------------------------------------------------------------------
(* A row is delivered only when the receiver has committed this very event *)
(* (not another one under its id) and with the operation it committed.     *)
DeliveredMeansApplied ==
    \A e \in Events : dState[e] = "delivered" =>
        /\ applied[e] # NoOp
        /\ recorded[e] = applied[e]
        /\ e \notin Bad

(* What a worker knows about its event: an operation it was told is the    *)
(* one the receiver has committed, a refusal is deserved, and an event     *)
(* that does not validate never gets as far as a call.                     *)
WorkerKnows ==
    \A w \in Workers :
        LET e == wk[w].event
            got == wk[w].got IN
        /\ wk[w].pc \in {"lookup", "apply", "wait"} => e \notin Invalid
        /\ got \in Ops => e \in Events \ Bad /\ applied[e] = got
        /\ got \in {"conflict", "invalid"} => e \in Bad

(* Only an event that can never be delivered is given up.                  *)
QuarantinedMeansBad == \A e \in Events : dState[e] = "quarantined" => e \in Bad

(* A worker that has lost its claim disturbs nothing: when it settles, the *)
(* row and the claim somebody else has by now stay as they are.            *)
LostClaimHarmless ==
    [][\A w \in Workers :
         LET e == wk[w].event IN
         wk[w].pc = "settle" /\ wk'[w].pc = "idle" /\ (dOwner[e] # w \/ dFence[e] # wk[w].fence)
           => UNCHANGED rowVars]_deliveryVars

(* Every revocation that was written is delivered, and a bad row is        *)
(* quarantined, although calls fail, answers get lost and workers stop.    *)
EverySettles ==
    \A e \in Events : dState[e] = "pending" ~>
                      dState[e] = (IF e \in Bad THEN "quarantined" ELSE "delivered")
=============================================================================

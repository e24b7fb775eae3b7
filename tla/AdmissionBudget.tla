--------------------------- MODULE AdmissionBudget ---------------------------
(***************************************************************************)
(* What the admission limiter of the gateway promises (docs/adr/091): every*)
(* key, an account or an address, has a budget that refills with time and  *)
(* a number of requests it may have in flight, and a request is admitted   *)
(* only against the budget of all its keys.  Nothing is said of a table of *)
(* keys, or of its size: a limiter that forgets keys has to behave as if   *)
(* it never did.                                                           *)
(***************************************************************************)
EXTENDS Naturals, FiniteSets

CONSTANTS Keys, Callers,
          Full,       \* the greatest credit of a key
          Cost,       \* what a request takes from it
          Limit,      \* how many requests a key may have in flight
          Asked       \* the sets of keys a request may ask for

VARIABLES credit,     \* of every key
          holds       \* the keys of a request in flight, {} without one

budgetVars == <<credit, holds>>

InFlight(k) == {q \in Callers : k \in holds[q]}

BudgetInit == credit = Full /\ holds = [q \in Callers |-> {}]

Admit(q, K) ==
    /\ holds[q] = {}
    /\ \A k \in K : credit[k] >= Cost[k] /\ Cardinality(InFlight(k)) < Limit[k]
    /\ holds' = [holds EXCEPT ![q] = K]
    /\ credit' = [k \in Keys |-> IF k \in K THEN credit[k] - Cost[k] ELSE credit[k]]

Finish(q) ==
    /\ holds' = [holds EXCEPT ![q] = {}]
    /\ UNCHANGED credit

Refills ==
    /\ credit' = [k \in Keys |-> IF credit[k] < Full[k] THEN credit[k] + 1 ELSE credit[k]]
    /\ UNCHANGED holds

BudgetNext == \/ \E q \in Callers : Finish(q) \/ \E K \in Asked : Admit(q, K)
              \/ Refills

BudgetSpec == BudgetInit /\ [][BudgetNext]_budgetVars
=============================================================================

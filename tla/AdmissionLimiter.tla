-------------------------- MODULE AdmissionLimiter --------------------------
(***************************************************************************)
(* The limiter of logins and registrations in the gateway: a table of      *)
(* token buckets, one per account and per address and operation, of at     *)
(* most maxKeys keys.  A full table makes room by forgetting keys that are *)
(* idle; a request that finds no room is refused.                          *)
(*                                                                         *)
(* Acquire and the release it returns run under one mutex, so each is one  *)
(* step.  Tokens are counted in ticks of the clock: a token is Refill      *)
(* ticks of credit.  A bucket remembers how long ago it was touched        *)
(* (updated and lastSeen, which are always the same instant), up to the    *)
(* Horizon.  How the address of a client is found and the Retry-After of a *)
(* refusal are left out.                                                   *)
(***************************************************************************)
EXTENDS Naturals, FiniteSets, Functions

CONSTANTS
    Addresses, Logins,
    Callers,      \* requests that may be in flight at the same time
    Burst, Refill, \* of the three scopes
    maxKeys,
    IdlePeriod,    \* the two hours of makeRoom
    Horizon        \* no age matters beyond it

Scopes == {"login-account", "login", "register"}

ASSUME LimiterAssumption ==
    /\ Burst \in [Scopes -> Nat \ {0}] /\ Refill \in [Scopes -> Nat \ {0}]
    /\ maxKeys \in Nat /\ IdlePeriod \in Nat \ {0}
    /\ Horizon \in Nat /\ IdlePeriod <= Horizon /\ \A s \in Scopes : Burst[s] * Refill[s] <= Horizon

VARIABLES buckets,   \* a function of the keys in the table
          admitted   \* the keys a request in flight was admitted on, {} without one

limiterVars == <<buckets, admitted>>

Keys == ({"login-account"} \X Logins) \cup ({"login", "register"} \X Addresses)

KeysOf(operation, a, n) ==
    IF operation = "login" THEN {<<"login-account", n>>, <<"login", a>>} ELSE {<<"register", a>>}

Limit == [k \in Keys |-> IF k[1] = "login" THEN 2 ELSE 1]
Cost == [k \in Keys |-> Refill[k[1]]]
Full == [k \in Keys |-> Burst[k[1]] * Refill[k[1]]]

LimiterInit == buckets = <<>> /\ admitted = [q \in Callers |-> {}]

-----------------------------------------------------------------------------
(* refilledTokens and wait, which brings a bucket up to date whatever it   *)
(* answers.                                                                *)
Refilled(b, k) == IF b.credit + b.age <= Full[k] THEN b.credit + b.age ELSE Full[k]
UpToDate(b, k) == [b EXCEPT !.credit = Refilled(b, k), !.age = 0]

Touched(K) == [k \in DOMAIN buckets |-> IF k \in K THEN UpToDate(buckets[k], k) ELSE buckets[k]]

Passes(k) == k \in DOMAIN buckets =>
                 /\ buckets[k].inFlight < Limit[k]
                 /\ Refilled(buckets[k], k) >= Cost[k]

(* makeRoom: the table t, with as many keys needed.                        *)
(* Mutant: a key that is idle is forgotten whatever it has spent.          *)
Forgotten_spent(t, k) == t[k].inFlight = 0 /\ t[k].age >= IdlePeriod

Forgotten(t, k) == t[k].inFlight = 0 /\ t[k].age >= IdlePeriod /\ Refilled(t[k], k) >= Full[k]

MakeRoom(t, needed) ==
    IF Cardinality(DOMAIN t) + needed <= maxKeys THEN t
    ELSE Restrict(t, {k \in DOMAIN t : ~Forgotten(t, k)})

(* The table in which a request that asks for K looks for room.            *)
Roomy(K) == MakeRoom(Touched(K), Cardinality(K \ DOMAIN buckets))
HasRoom(K) == Cardinality(DOMAIN Roomy(K)) + Cardinality(K \ DOMAIN buckets) <= maxKeys

(* A token is taken; a key that was not there begins with all of them.     *)
Charged(b, k) == [b EXCEPT !.credit = @ - Cost[k], !.inFlight = @ + 1]
Fresh(k) == [credit |-> Full[k], age |-> 0, inFlight |-> 0]

-----------------------------------------------------------------------------
(* Acquire, one action per way it ends.  The account is looked at first:   *)
(* what is refused for it leaves the address alone.                        *)
RefuseAccount(a, n) ==
    LET k == <<"login-account", n>> IN
    /\ ~Passes(k)
    /\ buckets' = Touched({k})
    /\ UNCHANGED admitted

(* The address has no capacity, or the request is cancelled meanwhile.     *)
RefuseLate(operation, a, n) ==
    /\ operation = "login" => Passes(<<"login-account", n>>)
    /\ buckets' = Touched(KeysOf(operation, a, n))
    /\ UNCHANGED admitted

RefuseFull(operation, a, n) ==
    LET K == KeysOf(operation, a, n) IN
    /\ \A k \in K : Passes(k)
    /\ ~HasRoom(K)
    /\ buckets' = Roomy(K)
    /\ UNCHANGED admitted

Acquire(q, operation, a, n) ==
    LET K == KeysOf(operation, a, n)
        new == K \ DOMAIN buckets
        room == Roomy(K)
    IN  /\ admitted[q] = {}
        /\ \A k \in K : Passes(k)
        /\ HasRoom(K)
        /\ buckets' = [k \in DOMAIN room \cup new |->
                          IF k \in new THEN Charged(Fresh(k), k)
                          ELSE IF k \in K THEN Charged(room[k], k) ELSE room[k]]
        /\ admitted' = [admitted EXCEPT ![q] = K]

(* The function Acquire returned; a second call of it does nothing.        *)
Release(q) ==
    /\ admitted[q] # {}
    /\ buckets' = [k \in DOMAIN buckets |->
                      IF k \in admitted[q] THEN [buckets[k] EXCEPT !.inFlight = @ - 1] ELSE buckets[k]]
    /\ admitted' = [admitted EXCEPT ![q] = {}]

Tick ==
    /\ buckets' = [k \in DOMAIN buckets |->
                      [buckets[k] EXCEPT !.age = IF @ < Horizon THEN @ + 1 ELSE @]]
    /\ UNCHANGED admitted

LimiterNext ==
    \/ \E q \in Callers : Release(q)
    \/ \E a \in Addresses, n \in Logins :
          \/ RefuseAccount(a, n)
          \/ \E operation \in {"login", "register"} :
                \/ RefuseLate(operation, a, n)
                \/ RefuseFull(operation, a, n)
                \/ \E q \in Callers : Acquire(q, operation, a, n)
    \/ Tick

LimiterSpec == LimiterInit /\ [][LimiterNext]_limiterVars

-----------------------------------------------------------------------------
(* The limiter with its table behaves as one that never forgets a key: a   *)
(* key the table has no bucket of counts as one that has all its tokens    *)
(* and no request in flight.                                               *)
Credit == [k \in Keys |-> IF k \in DOMAIN buckets THEN Refilled(buckets[k], k) ELSE Full[k]]

Budget == INSTANCE AdmissionBudget WITH
    Asked <- {KeysOf(operation, a, n) : operation \in {"login", "register"},
                                        a \in Addresses, n \in Logins},
    credit <- Credit,
    holds <- admitted

(* docs/adr/091: keys that are fresh or in flight are not evicted, or      *)
(* rotating names would get around the limits.  Every admission of the     *)
(* limiter is one that the budget of all its keys permits, with the        *)
(* requests that really are in flight.                                     *)
ForgetsNothing == Budget!BudgetSpec
=============================================================================

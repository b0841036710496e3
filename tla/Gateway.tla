-------------------------------- MODULE Gateway --------------------------------
(***************************************************************************)
(* framework/gateway: the sliding window of throttle.py for one identity   *)
(* of one throttle type (an address, a user, a tenant).  The identity has  *)
(* one sorted set in Redis, whatever rule gave the rate that applies, and  *)
(* each request takes several round trips to it, among those of others.    *)
(*                                                                         *)
(* A member's score is the time its request read the clock; the model      *)
(* keeps ages in ticks, so time is unbounded and the state is not.         *)
(*                                                                         *)
(* The names are the module's own (GatewayInit, GatewayNext ...), as       *)
(* ProtectionProofs extends it together with the circuit breaker.          *)
(***************************************************************************)
EXTENDS Weights, FiniteSetsExt

CONSTANTS
    Workers,    \* processes that serve requests of the identity
    Paths,
    Rules,      \* APILimitRule of the type: [paths, priority, rate]
    Default,    \* the rate the plan, the tenant or the settings give
    Stall,      \* bound: ticks a request takes once it has read the clock
    MaxAge      \* bound: ages are told apart up to this one

Rates == {r.rate : r \in Rules} \cup {Default}
Shortest == Min({r.window : r \in Rates})
Ages == 0 .. MaxAge
Never == 0

ASSUME RateAssumption ==
    /\ IsFiniteSet(Workers)
    /\ Stall \in Nat /\ MaxAge \in Nat
    /\ \A r \in Rates : /\ r.limit \in Nat \ {0} /\ r.window \in Nat
                        /\ Stall < r.window /\ r.window + Stall <= MaxAge

VARIABLES
    zset,       \* members of the sorted set, by age
    ttl,        \* ticks until the key expires; Never without a TTL
    active,     \* rules with is_active
    stage,      \* where each worker is
    rate,       \* the rate that applies to its request
    lag,        \* ticks since it read the clock
    entered     \* requests recorded, by age: with the key's lifetime renewed
                \* ("kept") or not ("bare"); a record of the model, not of the code

request == <<stage, rate, lag>>
gatewayVars == <<zset, ttl, active, request, entered>>

NoMember == [a \in Ages |-> 0]

GatewayTypeOK ==
    /\ zset \in [Ages -> Nat]
    /\ ttl \in 0 .. 2 * MaxAge
    /\ active \subseteq Rules
    /\ stage \in [Workers -> {"idle", "trim", "count", "add"}]
    /\ rate \in [Workers -> Rates]
    /\ lag \in [Workers -> 0 .. Stall]
    /\ entered \in [kept : [Ages -> Nat], bare : [Ages -> Nat]]

GatewayInit ==
    /\ zset = NoMember /\ ttl = Never
    /\ active = Rules
    /\ stage = [w \in Workers |-> "idle"]
    /\ rate = [w \in Workers |-> Default]
    /\ lag = [w \in Workers |-> 0]
    /\ entered = [kept |-> NoMember, bare |-> NoMember]

Younger(ages, n) == Weight(ages, {a \in Ages : a < n})
Card == Younger(zset, MaxAge + 1)
Record(ages, a) == [ages EXCEPT ![a] = @ + 1]

Goto(w, where) == stage' = [stage EXCEPT ![w] = where]

\* The answer: what the request remembers is forgotten.
Answer(w) ==
    /\ Goto(w, "idle")
    /\ rate' = [rate EXCEPT ![w] = Default]
    /\ lag' = [lag EXCEPT ![w] = 0]

-----------------------------------------------------------------------------
\* GatewayService.toggle_rule.
ToggleRule ==
    /\ \E r \in Rules : active' = SymDiff(active, {r})
    /\ UNCHANGED <<zset, ttl, request, entered>>

\* get_rate_for_request: the first active rule by priority that matches the
\* path, either of two with the same priority, else the rate of plan, tenant or
\* settings.
RatesFor(p) ==
    LET matching == {r \in active : p \in r.paths}
    IN  IF matching = {} THEN {Default}
        ELSE {r.rate : r \in {m \in matching : \A s \in matching : m.priority <= s.priority}}

\* allow_request finds the rate and reads the clock.
Ask(w) ==
    /\ stage[w] = "idle"
    /\ \E p \in Paths : \E r \in RatesFor(p) : rate' = [rate EXCEPT ![w] = r]
    /\ Goto(w, "trim")
    /\ UNCHANGED <<zset, ttl, active, lag, entered>>

\* Slip: expired members stay.
TrimNothing(w) ==
    /\ stage[w] = "trim"
    /\ Goto(w, "count")
    /\ UNCHANGED <<zset, ttl, active, rate, lag, entered>>

\* ZREMRANGEBYSCORE up to the clock as it was read, less this rate's window.
Trim(w) ==
    /\ stage[w] = "trim"
    /\ zset' = [a \in Ages |-> IF a >= rate[w].window + lag[w] THEN 0 ELSE zset[a]]
    /\ Goto(w, "count")
    /\ UNCHANGED <<ttl, active, rate, lag, entered>>

\* Slip: a refused request is recorded as well.
RefuseAndRecord(w) ==
    /\ stage[w] = "count"
    /\ Card >= rate[w].limit
    /\ Answer(w)
    /\ zset' = IF zset[0] = 0 THEN Record(zset, 0) ELSE zset
    /\ ttl' = 2 * rate[w].window
    /\ UNCHANGED <<active, entered>>

\* The ZCARD that decides comes after the pipeline, not in it.
Refuse(w) ==
    /\ stage[w] = "count"
    /\ Card >= rate[w].limit
    /\ Answer(w)
    /\ UNCHANGED <<zset, ttl, active, entered>>

\* Slip: the limit itself is let through.
LetOneMore(w) ==
    /\ stage[w] = "count"
    /\ Card <= rate[w].limit
    /\ Goto(w, "add")
    /\ UNCHANGED <<zset, ttl, active, rate, lag, entered>>

LetThrough(w) ==
    /\ stage[w] = "count"
    /\ Card < rate[w].limit
    /\ Goto(w, "add")
    /\ UNCHANGED <<zset, ttl, active, rate, lag, entered>>

\* ZADD with the time that was read at the start, then EXPIRE: one step here,
\* as only the key's own expiry could matter between the two.
Add(w) ==
    /\ stage[w] = "add"
    /\ zset' = Record(zset, lag[w])
    /\ \/ /\ ttl' = 2 * rate[w].window
          /\ entered' = [entered EXCEPT !.kept = Record(@, 0)]
       \/ /\ ttl' = ttl     \* EXPIRE fails
          /\ entered' = [entered EXCEPT !.bare = Record(@, 0)]
    /\ Answer(w)
    /\ UNCHANGED active

\* Redis fails an earlier command: the request is let through, not recorded.
Degrade(w) ==
    /\ stage[w] # "idle"
    /\ Answer(w)
    /\ UNCHANGED <<zset, ttl, active, entered>>

-----------------------------------------------------------------------------
Older(ages) ==
    [a \in Ages |-> CASE a = 0 -> 0
                      [] a = MaxAge -> ages[a] + ages[a - 1]
                      [] OTHER -> ages[a - 1]]

\* The record of the model forgets what no window reaches.
Fresh(ages) == [a \in Ages |-> IF a \in {0, MaxAge} THEN 0 ELSE ages[a - 1]]

Elapse ==
    /\ \A w \in Workers : lag[w] < Stall \/ stage[w] = "idle"
    /\ lag' = [w \in Workers |-> IF stage[w] = "idle" THEN 0 ELSE lag[w] + 1]
    /\ zset' = IF ttl = 1 THEN NoMember ELSE Older(zset)
    /\ ttl' = IF ttl = Never \/ zset = NoMember THEN Never ELSE ttl - 1
    /\ entered' = [kept |-> Fresh(entered.kept), bare |-> Fresh(entered.bare)]
    /\ UNCHANGED <<active, stage, rate>>

Serve(w) == Trim(w) \/ Refuse(w) \/ LetThrough(w) \/ Add(w) \/ Degrade(w)

GatewayNext == Elapse \/ ToggleRule \/ \E w \in Workers : Ask(w) \/ Serve(w)

GatewaySpec == GatewayInit /\ [][GatewayNext]_gatewayVars

\* Time passes and a request that was begun is worked on; nothing is assumed
\* of Redis, of the administrator or of the client.
FairGateway == GatewaySpec /\ WF_gatewayVars(Elapse) /\ \A w \in Workers : WF_gatewayVars(Serve(w))

-----------------------------------------------------------------------------
(* Properties.                                                             *)

\* A request is refused only over requests that were recorded, within its
\* window and the time two requests take: never over old ones, over refused
\* ones or over ones trimmed by a rule with a shorter window.
RefusedAtLimit ==
    [][\A w \in Workers :
          Refuse(w) =>
              LET n == rate[w].window + lag[w]
              IN  Younger(entered.kept, n) + Younger(entered.bare, n) >= rate[w].limit]_gatewayVars

\* Counting and recording are not one step, so a burst passes the limit, but
\* only by the other requests under way: within the shortest window, less the
\* time a request takes, no more than that beyond the limit of some rate that
\* may apply are let in and kept.
BurstBounded ==
    /\ GatewayTypeOK
    /\ \E r \in Rates :
          Younger(entered.kept, Shortest - Stall) <= r.limit + Cardinality(Workers) - 1

\* A client that goes on asking while Redis answers is let in again and again:
\* its refusals do not keep the window full.
NotBanned ==
    []<><<\E w \in Workers : Refuse(w) \/ LetThrough(w)>>_gatewayVars
        => []<><<\E w \in Workers : LetThrough(w)>>_gatewayVars
=============================================================================

------------------------------ MODULE Throttle ------------------------------
(***************************************************************************)
(* The fixed-window counter of core.throttling: a request reads it, and    *)
(* then sets it if there was none, or increments it. The key expires on    *)
(* its own; the increment of a key that has just expired sets it again.    *)
(***************************************************************************)
EXTENDS Naturals, FiniteSets

CONSTANTS
    Caller,       \* the requests of one scope that can be under way at once
    Limit,        \* admissions in a window
    MaxPassed     \* bound on the admissions of a window

ASSUME ThrottleAssumption ==
    IsFiniteSet(Caller) /\ Limit \in Nat \ {0} /\ MaxPassed \in Nat

VARIABLES
    counter,    \* the key of the scope; 0 when it has expired
    caller,     \* what each request read
    passed,     \* admissions since the key was first set
    crowded     \* whether a request acted on what another had changed since

throttleVars == <<counter, caller, passed, crowded>>

ThrottleTypeOK ==
    /\ counter \in 0..MaxPassed /\ passed \in 0..MaxPassed
    /\ caller \in [Caller -> {"away", "first", "next"}]
    /\ crowded \in BOOLEAN

ThrottleInit ==
    /\ counter = 0 /\ passed = 0 /\ crowded = FALSE
    /\ caller = [r \in Caller |-> "away"]

-----------------------------------------------------------------------------

\* Mutant: one too many.
BelowLimitOrAt == counter <= Limit

BelowLimit == counter < Limit

ReadCounter(r) ==
    /\ caller[r] = "away"
    /\ caller' = [caller EXCEPT ![r] =
           IF counter = 0 THEN "first" ELSE IF BelowLimit THEN "next" ELSE "away"]
    /\ UNCHANGED <<counter, passed, crowded>>

Admit(r) ==
    /\ passed < MaxPassed
    /\ caller' = [caller EXCEPT ![r] = "away"]
    /\ crowded' = (crowded \/ \E q \in Caller \ {r} : caller[q] # "away")

\* cache.set, whatever others have set since.
SetCounter(r) ==
    /\ caller[r] = "first"
    /\ Admit(r)
    /\ counter' = 1
    /\ passed' = IF counter = 0 THEN 1 ELSE passed + 1

\* cache.incr, which finds the key or raises.
IncrementCounter(r) ==
    /\ caller[r] = "next"
    /\ Admit(r)
    /\ counter' = counter + 1
    /\ passed' = IF counter = 0 THEN 1 ELSE passed + 1

\* A request that was under way belongs to the window that begins.
WindowExpires ==
    /\ counter # 0 /\ counter' = 0 /\ passed' = 0
    /\ crowded' = \E r \in Caller : caller[r] # "away"
    /\ UNCHANGED caller

ThrottleNext ==
    \/ \E r \in Caller : ReadCounter(r) \/ SetCounter(r) \/ IncrementCounter(r)
    \/ WindowExpires

ThrottleSpec == ThrottleInit /\ [][ThrottleNext]_throttleVars

-----------------------------------------------------------------------------

\* Requests that come one after the other get no more than the limit in a window.
\* Requests at once may all find no counter, and the last to set it starts the
\* count again: each of the others can give the scope the limit once more, and
\* an overlapping increment one admission more. check_scope, ScopedRateThrottle.
RateKept ==
    LET Others == Cardinality(Caller) - 1 IN
    /\ ~crowded => passed <= Limit
    /\ passed <= (Others + 1) * (Limit + Others)

=============================================================================

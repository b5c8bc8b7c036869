------------------------------ MODULE RateLimit ------------------------------
(***************************************************************************)
(* The rate limiter of the assistant: per reviewer a window of fixed       *)
(* length, the next one opened by the first question after the last.  It   *)
(* is kept in the memory of the process.                                   *)
(***************************************************************************)
EXTENDS Naturals, Sequences, FiniteSets

CONSTANTS
  Askers,
  Limit,    \* questions per window (ASSISTANT_RATE_LIMIT_PER_MINUTE)
  Window,   \* its length (WINDOW_MS)
  Horizon,
  MaxAsked  \* questions let through, per reviewer

\* What is not a positive number in the environment is replaced by a default.
ASSUME RateAssumption ==
  /\ Limit \in Nat \ {0} /\ Window \in Nat \ {0}
  /\ Horizon \in Nat /\ MaxAsked \in Nat

VARIABLES
  clock,
  buckets,  \* an empty one has count 0
  admitted, \* the times at which a reviewer was let through
  refused   \* the times at which a reviewer was turned away

rateVars == <<clock, buckets, admitted, refused>>

RateInit ==
  /\ clock = 0
  /\ buckets = [r \in Askers |-> [windowStart |-> 0, count |-> 0]]
  /\ admitted = [r \in Askers |-> <<>>]
  /\ refused = [r \in Askers |-> {}]

RateTick == clock < Horizon /\ clock' = clock + 1 /\ UNCHANGED <<buckets, admitted, refused>>

WindowOverLate(bucket) == bucket.count = 0 \/ clock - bucket.windowStart > Window  \* mutation: one tick too late

WindowOver(bucket) == bucket.count = 0 \/ clock - bucket.windowStart >= Window

\* allowAssistantRequest
AllowAssistantRequest(r) ==
  /\ Len(admitted[r]) < MaxAsked
  /\ \/ /\ WindowOver(buckets[r])
        /\ buckets' = [buckets EXCEPT ![r] = [windowStart |-> clock, count |-> 1]]
        /\ admitted' = [admitted EXCEPT ![r] = Append(@, clock)]
        /\ UNCHANGED refused
     \/ /\ ~WindowOver(buckets[r]) /\ buckets[r].count >= Limit
        /\ refused' = [refused EXCEPT ![r] = @ \cup {clock}]
        /\ UNCHANGED <<buckets, admitted>>
     \/ /\ ~WindowOver(buckets[r]) /\ buckets[r].count < Limit
        /\ buckets' = [buckets EXCEPT ![r].count = @ + 1]
        /\ admitted' = [admitted EXCEPT ![r] = Append(@, clock)]
        /\ UNCHANGED refused
  /\ UNCHANGED clock

RateNext == RateTick \/ \E r \in Askers : AllowAssistantRequest(r)

RateSpec == RateInit /\ [][RateNext]_rateVars

(***************************************************************************)
(* Properties.                                                             *)
(***************************************************************************)
RateTypeOK ==
  /\ clock \in 0..Horizon
  /\ buckets \in [Askers -> [windowStart: 0..Horizon, count: 0..Limit]]

Within(r, from, to) == Cardinality({i \in DOMAIN admitted[r] : admitted[r][i] \in from..to})

\* Whoever is turned away asked Limit times in the window before, and nobody
\* gets more than twice the limit through in the length of a window, wherever
\* it begins.
RateIsFair ==
  \A r \in Askers :
    /\ \A when \in refused[r] : Within(r, IF when < Window THEN 0 ELSE when - Window + 1, when) >= Limit
    /\ \A from \in 0..Horizon : Within(r, from, from + Window - 1) <= 2 * Limit

=============================================================================

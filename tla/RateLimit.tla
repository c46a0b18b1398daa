------------------------------ MODULE RateLimit ------------------------------
(***************************************************************************)
(* The rate limit of the API (backend/security/rate_limit.py), a queue of  *)
(* stamps for every client, and at most MaxClients queues: the client that *)
(* has not been seen for longest is forgotten.  The middleware runs on the *)
(* event loop, so one request is checked at a time.  A client here is one  *)
(* of the code's keys, a scope and an address; the limits of the scopes    *)
(* differ only in number.                                                  *)
(***************************************************************************)
EXTENDS SlidingWindow, FiniteSets, SequencesExt

CONSTANTS
  Clients,         \* keys that send requests
  Limit,           \* requests a client has per window
  RateWindow,      \* the length of the window, in ticks
  TicksPerSecond,  \* the precision of the clock
  MaxClients,      \* _MAX_CLIENTS
  RateMaxTime      \* bound: the clock

ASSUME LimitAssumption == Limit \in Nat \ {0} /\ MaxClients \in Nat \ {0}

ASSUME ClientsAssumption == IsFiniteSet(Clients)

ASSUME RateTimesAssumption ==
  RateWindow \in Nat \ {0} /\ TicksPerSecond \in Nat \ {0} /\ RateMaxTime \in Nat

VARIABLES
  rateNow,  \* the monotonic clock
  known,    \* the keys of _buckets, least recently seen first
  buckets,  \* the stamps of each client
  admitted, \* when the last of each client's requests were admitted, Limit + 1 of
            \* them, since it last let MaxClients others come
  advice,   \* when a client was told to come back, while it keeps away
  since     \* the clients seen since each client's last request

history == <<admitted, advice, since>>

rateVars == <<rateNow, known, buckets, history>>

-----------------------------------------------------------------------------

NoAdvice == -1

InWindowEarly(c) == Remaining(buckets[c], rateNow - RateWindow + 1)

InWindow(c) == Remaining(buckets[c], rateNow - RateWindow)

Full(c) == Len(InWindow(c)) >= Limit

Without(c) == RemoveFirst(known, c)

LastSeen(c) == Append(Without(c), c)

\* Retry-After, in whole seconds and at least one.
RetryAfter(c) ==
  LET seconds == (RateWindow - (rateNow - InWindow(c)[1])) \div TicksPerSecond
  IN  IF seconds > 1 THEN seconds ELSE 1

RateInit ==
  /\ rateNow = 0
  /\ known = <<>>
  /\ buckets = [c \in Clients |-> <<>>]
  /\ admitted = [c \in Clients |-> <<>>]
  /\ advice = [c \in Clients |-> NoAdvice]
  /\ since = [c \in Clients |-> Clients]

Seen(c) == since' = [k \in Clients |-> IF k = c THEN {} ELSE since[k] \cup {c}]

Recorded(c) ==
  LET all == IF Cardinality(since[c]) < MaxClients THEN Append(admitted[c], rateNow) ELSE <<rateNow>>
  IN  IF Len(all) > Limit + 1 THEN Tail(all) ELSE all

\* At most one client is one too many.
AdmitRequest(c) ==
  /\ ~Full(c)
  /\ LET seen == LastSeen(c)
         forgotten == IF Len(seen) > MaxClients THEN {Head(seen)} ELSE {}
     IN  /\ known' = IF forgotten = {} THEN seen ELSE Tail(seen)
         /\ buckets' = [k \in Clients |->
              IF k \in forgotten THEN <<>>
              ELSE IF k = c THEN Append(InWindow(c), rateNow)
              ELSE buckets[k]]
  /\ admitted' = [admitted EXCEPT ![c] = Recorded(c)]
  /\ advice' = [advice EXCEPT ![c] = NoAdvice]
  /\ Seen(c)
  /\ UNCHANGED rateNow

Refuse(c) ==
  /\ Full(c)
  /\ known' = LastSeen(c)
  /\ buckets' = [buckets EXCEPT ![c] = InWindow(c)]
  /\ advice' = [advice EXCEPT ![c] = rateNow + RetryAfter(c) * TicksPerSecond]
  /\ Seen(c)
  /\ UNCHANGED <<rateNow, admitted>>

RateTick ==
  /\ rateNow < RateMaxTime
  /\ rateNow' = rateNow + 1
  /\ UNCHANGED <<known, buckets, history>>

RateNext == RateTick \/ \E c \in Clients : AdmitRequest(c) \/ Refuse(c)

RateSpec == RateInit /\ [][RateNext]_rateVars

-----------------------------------------------------------------------------
(* Properties.                                                             *)

\* No client gets more requests through in a window than its limit
\* (rate_limit.py:4, a "budget per client per 60s") as long as no MaxClients
\* others come between two of them.
BudgetHolds ==
  \A c \in Clients : \A i, j \in DOMAIN admitted[c] :
    j = i + Limit => admitted[c][j] - admitted[c][i] >= RateWindow

\* A client that keeps away for as long as it was told, and a second more for
\* what the rounding took, is not refused again.
RetryAfterSuffices ==
  \A c \in Clients :
    advice[c] # NoAdvice /\ rateNow >= advice[c] + TicksPerSecond - 1 => ~Full(c)

\* The limit is kept, and who keeps to what it says is let in.
LimitIsFair == BudgetHolds /\ RetryAfterSuffices
=============================================================================

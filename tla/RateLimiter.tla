------------------------------ MODULE RateLimiter ------------------------------
(***************************************************************************)
(* RedisRateLimiter: one bucket, that is one user at one address.  The     *)
(* bucket is a Redis counter that the first call of a window gives a TTL;  *)
(* time passes in seconds.                                                 *)
(***************************************************************************)
EXTENDS Integers

CONSTANTS
  Limit,   \* rate_limit_per_minute
  Window   \* rate_limit_window_seconds

ASSUME LimiterAssumption == Limit \in Nat /\ Window \in Nat \ {0}

VARIABLES
  count,   \* the counter, 0 when there is no key
  ttl,     \* seconds until the key expires, 0 when there is no key
  recent   \* history: how many calls were let through within the last n
           \* seconds, for each n up to Window

limiterVars == <<count, ttl, recent>>
Spans == 0..Window

LimiterTypeOK ==
  /\ count \in Nat
  /\ ttl \in 0..Window
  /\ recent \in [Spans -> Nat]

LimiterInit == count = 0 /\ ttl = 0 /\ recent = [n \in Spans |-> 0]

\* A call that is let through counts in every span but the empty one.
LetThrough == [n \in Spans |-> IF n = 0 THEN 0 ELSE recent[n] + 1]

\* Mutant of Expiry: EXPIRE without NX renews the TTL with every call.
Expiry_Renewed == Window

\* EXPIRE NX sets a TTL only on a key that has none.
Expiry == IF ttl = 0 THEN Window ELSE ttl

\* Mutant of CheckBucket: the count is compared before it is incremented.
CheckBucket_Late(passes) ==
  /\ passes = (count <= Limit)
  /\ count' = count + 1
  /\ ttl' = Expiry
  /\ recent' = IF passes THEN LetThrough ELSE recent

\* INCR and EXPIRE in one transaction; passes says whether the call goes on.
CheckBucket(passes) ==
  /\ passes = (count < Limit)
  /\ count' = count + 1
  /\ ttl' = Expiry
  /\ recent' = IF passes THEN LetThrough ELSE recent

\* A second passes.
Second ==
  /\ count' = IF ttl > 1 THEN count ELSE 0
  /\ ttl' = IF ttl > 1 THEN ttl - 1 ELSE 0
  /\ recent' = [n \in Spans |-> IF n = 0 THEN 0 ELSE recent[n - 1]]

\* Redis comes back empty.
ForgetBucket == count' = 0 /\ ttl' = 0 /\ UNCHANGED recent

Passes == recent[Window]

\* Nobody is refused who has not had the limit within the last Window seconds:
\* a user who goes on calling while refused is not locked out for longer
\* (rate_limit.py:19-23).
RefusalIsEarned == count > Limit => Passes >= Limit

=============================================================================

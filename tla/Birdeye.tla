------------------------------ MODULE Birdeye ------------------------------
(***************************************************************************)
(* BirdeyeClient::fetch_candles (src/birdeye.rs): requests one after the   *)
(* other until one succeeds or the attempts are used up, with a pacer that *)
(* every client of the process shares and a delay after each failure.      *)
(*                                                                         *)
(*   "pacing"    in wait_for_birdeye_slot                                  *)
(*   "asked"     the request is under way                                  *)
(*   "sleeping"  before the next attempt                                   *)
(*   "fetched", "failed"                                                   *)
(*                                                                         *)
(* The bot handles one command at a time, so fetches do not overlap.       *)
(***************************************************************************)
EXTENDS Integers

CONSTANTS
  None,         \* Option::None
  MinInterval,  \* cfg.min_interval_ms
  MaxRetries,   \* cfg.max_retries
  BackoffBase,  \* cfg.backoff_base_ms
  BackoffMax,   \* cfg.backoff_max_ms
  Jitters,      \* jitter_ms, 0 .. 249
  RetryAfters   \* what a Retry-After header may ask for

ASSUME BirdeyeAssumption ==
  /\ {MinInterval, MaxRetries, BackoffBase, BackoffMax} \subseteq Nat
  /\ BackoffBase <= BackoffMax
  /\ Jitters \subseteq Nat /\ Jitters # {} /\ RetryAfters \subseteq Nat
  /\ None \notin Nat

VARIABLES
  fetch,    \* where fetch_candles is
  attempt,  \* its loop variable
  since,    \* the pacer: time since the last slot, up to MinInterval, and
            \* MinInterval before the first
  sleep,    \* what is left of the delay
  owed      \* what is left of the time the server asked for

fetchVars == <<fetch, attempt, since, sleep, owed>>

SmallerOf(a, b) == IF a < b THEN a ELSE b
Less(n)         == IF n = 0 THEN 0 ELSE n - 1

MAX_BACKOFF_SHIFT == 16

\* Mutant: a Retry-After counts if it is shorter.
DelayShorter(wait, jitter) ==
  LET base == SmallerOf(BackoffBase * 2 ^ SmallerOf(attempt, MAX_BACKOFF_SHIFT),
                        BackoffMax) + jitter
  IN  IF wait # None /\ wait < base THEN wait ELSE base

\* retry_delay.  The multiplication saturates far above BackoffMax.
Delay(wait, jitter) ==
  LET base == SmallerOf(BackoffBase * 2 ^ SmallerOf(attempt, MAX_BACKOFF_SHIFT),
                        BackoffMax) + jitter
  IN  IF wait # None /\ wait > base THEN wait ELSE base

\* A new fetch knows nothing of the delays of the one before.
Begun == fetch' = "pacing" /\ attempt' = 0 /\ sleep' = 0 /\ owed' = 0

\* wait_for_birdeye_slot lets the request go.
Ask ==
  /\ fetch = "pacing" /\ since >= MinInterval
  /\ fetch' = "asked"
  /\ since' = IF MinInterval = 0 THEN since ELSE 0
  /\ UNCHANGED <<attempt, sleep, owed>>

\* A request error, which carries no Retry-After, a status of 429 or 5xx, or a
\* message of a rate limit.
Retried(wait) ==
  /\ fetch = "asked" /\ attempt < MaxRetries
  /\ fetch' = "sleeping"
  /\ \E jitter \in Jitters : sleep' = Delay(wait, jitter)
  /\ owed' = IF wait = None THEN 0 ELSE wait
  /\ UNCHANGED <<attempt, since>>

\* Any other failure, and the last attempt's.
GivenUp ==
  /\ fetch = "asked"
  /\ fetch' = "failed"
  /\ UNCHANGED <<attempt, since, sleep, owed>>

Succeeds ==
  /\ fetch = "asked"
  /\ fetch' = "fetched"
  /\ UNCHANGED <<attempt, since, sleep, owed>>

\* Mutant: the attempt is not counted.
WakesAgain ==
  /\ fetch = "sleeping" /\ sleep = 0
  /\ fetch' = "pacing"
  /\ UNCHANGED <<attempt, since, sleep, owed>>

Wakes ==
  /\ fetch = "sleeping" /\ sleep = 0
  /\ fetch' = "pacing"
  /\ attempt' = attempt + 1
  /\ UNCHANGED <<since, sleep, owed>>

\* Time passes for the delay and the pacer.
FetchWaits ==
  /\ \/ fetch \in {"pacing", "asked"} /\ since < MinInterval
     \/ fetch = "sleeping" /\ sleep > 0
  /\ since' = SmallerOf(since + 1, MinInterval)
  /\ sleep' = Less(sleep) /\ owed' = Less(owed)
  /\ UNCHANGED <<fetch, attempt>>

Fetching == \/ Ask \/ GivenUp \/ Wakes \/ FetchWaits
            \/ \E wait \in RetryAfters \cup {None} : Retried(wait)

FetchInit == /\ fetch = "pacing" /\ attempt = 0 /\ sleep = 0 /\ owed = 0
             /\ since \in 0 .. MinInterval
=============================================================================

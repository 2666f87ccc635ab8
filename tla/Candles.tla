------------------------------ MODULE Candles ------------------------------
(***************************************************************************)
(* Where a market's candles come from and what a Tracker makes of them:    *)
(*                                                                         *)
(*   src/birdeye.rs       the history, one fetch for each timeframe, its   *)
(*                        gaps filled, loaded once;                        *)
(*   src/info.rs          the live candles, built from the balances of the *)
(*                        two vaults of a pool;                            *)
(*   src/market.rs        the stream task, which subscribes again whenever *)
(*                        the stream ends;                                 *)
(*   src/signal/types.rs  Tracker, which closes the periods of a timeframe.*)
(*                                                                         *)
(* The two vaults are two subscriptions: their slots come in any order,    *)
(* and the time of a slot is an estimate.  A live candle closes one        *)
(* millisecond before the next minute, a candle of the history on the      *)
(* boundary.  Prices are ranks, a candle's volume is left out.             *)
(***************************************************************************)
EXTENDS Birdeye, Sequences, SequencesExt

CONSTANTS
  Minute,      \* ONE_MINUTE_MS, in the units of time
  Timeframes,  \* minutes of the timeframes
  Prices,
  Skew,        \* bound: how far an estimate may be off
  Horizon,     \* bound: the time at which the run stops
  Waiting,     \* bound: candles waiting for the engine, the vaults wait too
  Before,      \* bound: periods the history may reach back
  Others       \* bound: timeframes fetched beside the one followed

\* at: open_time.
Candle == [open : Prices, high : Prices, low : Prices, close : Prices, at : Int]

ASSUME CandlesAssumption ==
  /\ Minute \in Nat \ {0, 1}
  /\ Timeframes \subseteq Nat \ {0}
  /\ Prices \subseteq Int /\ Prices # {}
  /\ {Skew, Horizon, Waiting, Before, Others} \subseteq Nat
  /\ None \notin Int \cup Candle

VARIABLES
  tf,       \* Tracker.tf
  history,  \* what fetch_candles returned, after fill_gaps; None before
  left,     \* timeframes not fetched yet; None once the tasks are spawned
  until,    \* time_to of the fetch
  now,      \* the time
  up,       \* the stream of the current subscription runs
  known,    \* the vaults whose balance has been seen
  bucket,   \* current_bucket
  candle,   \* current_candle
  chan,     \* candles on their way to the engine
  seen,     \* the last candle the engine got from this subscription
  prev,     \* Tracker.prev_close
  next,     \* Tracker.next_close
  latest    \* the latest close_time the tracker has been given

stream  == <<up, known, bucket, candle>>
tracker == <<prev, next, latest>>
spawn   == <<fetchVars, history, left, until>>
vars    == <<tf, spawn, now, stream, chan, seen, tracker>>

Vaults == {"base", "quote"}

Flat(p, t) == [open |-> p, high |-> p, low |-> p, close |-> p, at |-> t]

-----------------------------------------------------------------------------
\* fill_gaps, on candles sorted by open_time.

\* Mutant: the gap's last candle is the next one's.
FillGapsTo(h) ==
  FlattenSeq([i \in DOMAIN h |->
    IF i = Len(h) THEN <<h[i]>>
    ELSE <<h[i]>> \o [k \in 1 .. ((h[i + 1].at - h[i].at) \div tf) |->
                        Flat(h[i].close, h[i].at + k * tf)]])

FillGaps(h) ==
  FlattenSeq([i \in DOMAIN h |->
    IF i = Len(h) THEN <<h[i]>>
    ELSE <<h[i]>> \o [k \in 1 .. ((h[i + 1].at - h[i].at - 1) \div tf) |->
                        Flat(h[i].close, h[i].at + k * tf)]])

Periods == {((until \div tf) - k) * tf : k \in 0 .. Before}

\* What Birdeye may answer, sorted: some of the periods that began before the
\* fetch.
Fetched ==
  LET Answered == {Flat(CHOOSE p \in Prices : TRUE, t) : t \in Periods}
  IN  {h \in UNION {[1 .. n -> Answered] : n \in 0 .. Before + 1} :
         \A i \in 1 .. Len(h) - 1 : h[i].at < h[i + 1].at}

\* Tracker::load; nothing is loaded from an empty history.
LoadedPrev(h) == IF h = <<>> THEN None ELSE ((Last(h).at + tf) \div tf) * tf
LoadedNext(h) == IF h = <<>> THEN None ELSE LoadedPrev(h) + tf

-----------------------------------------------------------------------------
\* Market::spawn.

Spawned == left = None

Waits == UNCHANGED <<tf, now, stream, chan, seen, tracker>>

\* A retry, a delay or a failure, which ends the spawn.
FetchGoesOn == ~Spawned /\ Fetching /\ UNCHANGED <<history, left, until>> /\ Waits

\* The timeframe followed comes at any place among them.
HistoryFetched ==
  /\ ~Spawned /\ Succeeds
  /\ left' = left - 1
  /\ \/ history = None /\ \E h \in Fetched : history' = FillGaps(h)
     \/ (left > 1 \/ history # None) /\ UNCHANGED history
  /\ UNCHANGED until /\ Waits

NextFetch ==
  /\ ~Spawned /\ fetch = "fetched" /\ left > 0
  /\ Begun /\ until' = now
  /\ UNCHANGED <<since, history, left>> /\ Waits

\* The engine is loaded and the tasks run; the pacer is followed no further.
SpawnEnds ==
  /\ fetch = "fetched" /\ left = 0
  /\ left' = None /\ until' = None
  /\ attempt' = 0 /\ sleep' = 0 /\ owed' = 0 /\ since' = MinInterval
  /\ prev' = LoadedPrev(history) /\ next' = LoadedNext(history) /\ latest' = prev'
  /\ UNCHANGED <<tf, fetch, history, now, stream, chan, seen>>

-----------------------------------------------------------------------------
\* subscribe_candles: the loop of the stream.

Update(c, p) ==
  [c EXCEPT !.high = IF p > @ THEN p ELSE @,
            !.low  = IF p < @ THEN p ELSE @,
            !.close = p]

\* Mutant: the minutes in between are not sent.
RollSkipping(b, p) ==
  /\ b > bucket
  /\ bucket' = b
  /\ candle' = Flat(p, b * Minute)
  /\ chan' = chan \o <<candle, candle'>>

\* A later minute: the last candle once more, one flat candle for each minute
\* in between, and the new one.
Roll(b, p) ==
  /\ b > bucket
  /\ bucket' = b
  /\ candle' = Flat(p, b * Minute)
  /\ chan' = chan \o <<candle>>
               \o [k \in 1 .. b - bucket - 1 |->
                     Flat(candle.close, (bucket + k) * Minute)]
               \o <<candle'>>

\* Mutant: the candle is taken and not put back.
SameTaken(b, p) ==
  /\ b = bucket
  /\ candle' = None
  /\ chan' = Append(chan, Update(candle, p))
  /\ UNCHANGED bucket

Same(b, p) ==
  /\ b = bucket
  /\ candle' = Update(candle, p)
  /\ chan' = Append(chan, candle')
  /\ UNCHANGED bucket

First(b, p) ==
  /\ bucket' = b
  /\ candle' = Flat(p, b * Minute)
  /\ chan' = Append(chan, candle')

Built(b, p) ==
  \/ bucket = None /\ First(b, p)
  \/ bucket # None /\ (Same(b, p) \/ Roll(b, p))
  \/ bucket # None /\ b < bucket /\ UNCHANGED <<bucket, candle, chan>>

\* What SlotTimeEstimator makes of the slots that may be notified now: it
\* counts from an anchor it renews, and slots of the two vaults cross.
Estimates == (now - Skew) .. (now + Skew)

\* An account notification at estimated time t.  It may fail to parse, which
\* leaves the balances as they were; p is the price they give, None when the
\* base vault is empty.
Notified(v, t, p) ==
  /\ up /\ Len(chan) <= Waiting
  /\ known' \in {known, known \cup {v}}
  /\ IF known' = Vaults /\ p # None
     THEN Built(t \div Minute, p)
     ELSE UNCHANGED <<bucket, candle, chan>>
  /\ UNCHANGED <<tf, spawn, now, up, seen, tracker>>

\* Both vault streams end, or the subscription never came up.
Ended ==
  /\ up
  /\ up' = FALSE
  /\ UNCHANGED <<tf, spawn, now, known, bucket, candle, chan, seen, tracker>>

\* stream_task subscribes, again once it has drained the old receiver.
Resubscribed ==
  /\ Spawned /\ ~up /\ chan = <<>>
  /\ up' = TRUE /\ known' = {} /\ bucket' = None /\ candle' = None
  /\ seen' = None
  /\ UNCHANGED <<tf, spawn, now, chan, tracker>>

-----------------------------------------------------------------------------
\* Tracker::digest of the candle the engine takes.

\* Mutant: one period is closed however many have passed.
ClosingOnce(ts) ==
  /\ prev' = next
  /\ next' = next + tf

\* The periods up to ts are closed: next moves past ts.
Closing(ts) ==
  /\ next' = next + ((ts - next) \div tf + 1) * tf
  /\ prev' = next' - tf

Digest(ts) ==
  CASE next = None -> next' = ts /\ UNCHANGED prev
    [] next # None /\ ts > next -> Closing(ts)
    [] OTHER -> UNCHANGED <<prev, next>>

Taken ==
  /\ chan # <<>>
  /\ chan' = Tail(chan)
  /\ seen' = Head(chan)
  /\ LET ts == Head(chan).at + Minute - 1
     IN  /\ Digest(ts)
         /\ latest' = IF latest = None \/ ts > latest THEN ts ELSE latest
  /\ UNCHANGED <<tf, spawn, now, stream>>

Passes ==
  /\ now < Horizon
  /\ now' = now + 1
  /\ UNCHANGED <<tf, spawn, stream, chan, seen, tracker>>

-----------------------------------------------------------------------------
Start == Before * Minute * 2

Init ==
  /\ \E n \in Timeframes : tf = n * Minute
  /\ now = Start
  /\ FetchInit /\ history = None /\ left \in 1 .. Others + 1 /\ until = now
  /\ up = FALSE /\ known = {} /\ bucket = None /\ candle = None
  /\ chan = <<>> /\ seen = None
  /\ prev = None /\ next = None /\ latest = None

Spawning == FetchGoesOn \/ HistoryFetched \/ NextFetch \/ SpawnEnds

Next ==
  \/ Spawning
  \/ \E v \in Vaults, t \in Estimates, p \in Prices \cup {None} :
       Notified(v, t, p)
  \/ Ended \/ Resubscribed \/ Taken \/ Passes

Spec == Init /\ [][Next]_vars

\* Delays end, and every request is answered or fails.
FairSpec == Spec /\ WF_vars(Spawning)

-----------------------------------------------------------------------------
TypeOK ==
  /\ tf \in Nat /\ now \in Nat /\ up \in BOOLEAN
  /\ fetch \in {"pacing", "asked", "sleeping", "fetched", "failed"}
  /\ attempt \in 0 .. MaxRetries
  /\ known \subseteq Vaults
  /\ bucket \in Int \cup {None}
  /\ bucket = None <=> candle = None
  /\ prev \in Int \cup {None} /\ next \in Int \cup {None}

\* The candles of a subscription the engine has got last or will get.
Coming == (IF seen = None THEN <<>> ELSE <<seen>>) \o chan

\* d is the candle of the next minute, or c again with what came since.
Follows(c, d) ==
  \/ d.at = c.at + Minute
  \/ d.at = c.at /\ d.open = c.open /\ d.low <= c.low /\ d.high >= c.high

\* Within a subscription no minute is missing and none comes back, though the
\* slots of the two vaults come in any order and their times are estimates.  A
\* minute that is sent again keeps its open, and its range only grows: what was
\* sent is never taken back, not by the flat candles of a gap either.
StreamContiguous == \A i \in 1 .. Len(Coming) - 1 : Follows(Coming[i], Coming[i + 1])

\* The history has every period from its first to its last, once.
HistoryContiguous ==
  history # None => \A i \in 1 .. Len(history) - 1 : history[i + 1].at = history[i].at + tf

\* A tracker that was loaded closes the period it is in at the next boundary
\* of its timeframe, whatever was missed between history and stream or between
\* two subscriptions: a close is neither lost for ever nor made twice.
NextIsNextBoundary ==
  Spawned /\ history # <<>> => next = (latest \div tf + 1) * tf /\ prev = next - tf

\* Adding a market does not hold the bot for ever: its fetches end, however
\* often Birdeye refuses, and so does the spawn.
FetchEnds == <>(Spawned \/ fetch = "failed")

\* No request starts before the pacer's interval, which spans the fetches of a
\* spawn and those before it, nor, within a fetch, before the time the server
\* asked for: whichever of the two delays is longer counts.
Patience ==
  [][Ask => owed = 0 /\ since >= MinInterval]_vars
=============================================================================

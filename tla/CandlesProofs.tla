---------------------------- MODULE CandlesProofs ----------------------------
(***************************************************************************)
(* The candles of a market, for any timeframes and prices, estimates of    *)
(* time that are off by any skew, and any pacer and backoff.               *)
(*                                                                         *)
(* What a recursive definition of a library computes (FlattenSeq) is shown *)
(* by a least counterexample, with its defining equation as the first.     *)
(***************************************************************************)
EXTENDS Candles, SequenceTheorems, FiniteSetTheorems, WellFoundedInduction, TLAPS

-----------------------------------------------------------------------------
\* Arithmetic.

LEMMA Multiples ==
  ASSUME NEW b \in Nat, NEW x \in Int, NEW y \in Int, x <= y
  PROVE  b * x <= b * y
<1>1. b * (y - x) >= 0
  OBVIOUS
<1> QED
  BY <1>1

LEMMA Quotient ==
  ASSUME NEW a \in Int, NEW b \in Nat \ {0}
  PROVE  a \div b \in Int /\ b * (a \div b) <= a /\ a < b * (a \div b + 1)
OBVIOUS

LEMMA QuotientIs ==
  ASSUME NEW a \in Int, NEW b \in Nat \ {0}, NEW q \in Int, b * q <= a, a < b * (q + 1)
  PROVE  a \div b = q
<1>1. a \div b \in Int /\ b * (a \div b) <= a /\ a < b * (a \div b + 1)
  BY Quotient
<1>2. ASSUME a \div b < q PROVE FALSE
  <2>1. b * (a \div b + 1) <= b * q
    BY <1>1, <1>2, Multiples
  <2> QED
    BY <1>1, <2>1
<1>3. ASSUME a \div b > q PROVE FALSE
  <2>1. b * (q + 1) <= b * (a \div b)
    BY <1>1, <1>3, Multiples
  <2> QED
    BY <1>1, <2>1
<1> QED
  BY <1>1, <1>2, <1>3

\* SMT does not know powers; there are as many subsets of 1 .. n.
LEMMA PowersOfTwo == ASSUME NEW n \in Nat PROVE 2 ^ n \in Nat
<1>1. IsFiniteSet(1 .. n) /\ Cardinality(1 .. n) = n
  BY FS_Interval
<1>2. IsFiniteSet(SUBSET (1 .. n)) /\ Cardinality(SUBSET (1 .. n)) = 2 ^ n
  BY <1>1, FS_SUBSET
<1> QED
  BY <1>2, FS_CardinalityType

-----------------------------------------------------------------------------
\* The fetches.

FetchInv ==
  /\ fetch \in {"pacing", "asked", "sleeping", "fetched", "failed"}
  /\ attempt \in 0 .. MaxRetries /\ since \in Nat /\ sleep \in Nat /\ owed \in Nat
  /\ fetch = "sleeping" => attempt < MaxRetries /\ owed <= sleep
  /\ fetch = "pacing" => owed = 0

BirdeyeNumbers ==
  /\ MinInterval \in Nat /\ MaxRetries \in Nat /\ BackoffBase \in Nat /\ BackoffMax \in Nat
  /\ Jitters \subseteq Nat /\ RetryAfters \subseteq Nat /\ None \notin Nat

LEMMA BirdeyeConstants == BirdeyeNumbers
BY BirdeyeAssumption DEF BirdeyeNumbers

\* A delay is at least what the server asked for.
LEMMA DelayCoversWait ==
  ASSUME FetchInv, NEW wait \in RetryAfters \cup {None}, NEW jitter \in Jitters
  PROVE  /\ Delay(wait, jitter) \in Nat
         /\ wait # None => Delay(wait, jitter) >= wait
<1> DEFINE n == SmallerOf(attempt, MAX_BACKOFF_SHIFT)
           grown == BackoffBase * 2 ^ n
           base == SmallerOf(grown, BackoffMax) + jitter
<1>1. n \in Nat
  BY BirdeyeConstants DEF FetchInv, SmallerOf, MAX_BACKOFF_SHIFT, BirdeyeNumbers
<1>2. 2 ^ n \in Nat
  BY <1>1, PowersOfTwo
<1>3. grown \in Nat
  BY <1>2, BirdeyeConstants DEF BirdeyeNumbers
<1> HIDE DEF grown
<1>4. base \in Nat
  BY <1>3, BirdeyeConstants DEF SmallerOf, BirdeyeNumbers
<1>5. Delay(wait, jitter) = IF wait # None /\ wait > base THEN wait ELSE base
  BY DEF Delay, grown
<1> HIDE DEF base
<1> QED
  BY <1>4, <1>5, BirdeyeConstants DEF BirdeyeNumbers

LEMMA FetchingKeeps ==
  ASSUME FetchInv, Fetching \/ Succeeds \/ (Begun /\ since' = since)
  PROVE  FetchInv'
<1> USE BirdeyeConstants DEF BirdeyeNumbers, FetchInv
<1>1. CASE Ask
  BY <1>1 DEF Ask
<1>2. CASE GivenUp \/ Succeeds
  BY <1>2 DEF GivenUp, Succeeds
<1>3. CASE Wakes
  BY <1>3 DEF Wakes
<1>4. CASE FetchWaits
  BY <1>4 DEF FetchWaits, SmallerOf, Less
<1>5. ASSUME NEW wait \in RetryAfters \cup {None}, Retried(wait)
      PROVE  FetchInv'
  <2>1. PICK jitter \in Jitters : sleep' = Delay(wait, jitter)
    BY <1>5 DEF Retried
  <2>2. sleep' \in Nat /\ (wait # None => sleep' >= wait)
    BY <2>1, DelayCoversWait
  <2> QED
    BY <1>5, <2>2 DEF Retried
<1>6. CASE Begun /\ since' = since
  BY <1>6 DEF Begun
<1> QED
  BY <1>1, <1>2, <1>3, <1>4, <1>5, <1>6 DEF Fetching

LEMMA FetchNext ==
  ASSUME FetchInv, [Next]_vars
  PROVE  FetchInv'
<1>1. CASE UNCHANGED fetchVars
  BY <1>1 DEF fetchVars, FetchInv
<1>2. CASE SpawnEnds
  BY <1>2, BirdeyeConstants DEF SpawnEnds, FetchInv, BirdeyeNumbers
<1>3. CASE FetchGoesOn \/ HistoryFetched \/ NextFetch
  BY <1>3, FetchingKeeps DEF FetchGoesOn, HistoryFetched, NextFetch
<1>4. ASSUME NEW v, NEW t, NEW p, Notified(v, t, p) PROVE UNCHANGED fetchVars
  BY <1>4 DEF Notified, spawn
<1>5. CASE Ended \/ Resubscribed \/ Taken \/ Passes \/ UNCHANGED vars
  BY <1>1, <1>5 DEF Ended, Resubscribed, Taken, Passes, spawn, vars
<1> QED
  BY <1>1, <1>2, <1>3, <1>4, <1>5 DEF Next, Spawning

LEMMA FetchStarts == Init => FetchInv
BY BirdeyeConstants DEF Init, FetchInit, FetchInv, BirdeyeNumbers

\* No request comes before the interval of the pacer, nor before the time the
\* server asked for is over.
THEOREM FetchesPatiently == Spec => Patience
<1>1. FetchInv => [Ask => owed = 0 /\ since >= MinInterval]_vars
  BY DEF FetchInv, Ask
<1>2. FetchInv /\ [Next]_vars => FetchInv'
  BY FetchNext
<1> QED
  BY <1>1, <1>2, FetchStarts, PTL DEF Spec, Patience

-----------------------------------------------------------------------------
\* Sequences whose neighbours are related as the pairs of F are.

Chain(F, q) == \A i \in 1 .. Len(q) - 1 : <<q[i], q[i + 1]>> \in F

LEMMA Joined ==
  ASSUME NEW S, NEW q \in Seq(S), NEW r \in Seq(S)
  PROVE  /\ q \o r \in Seq(S) /\ Len(q \o r) = Len(q) + Len(r)
         /\ Len(q) \in Nat /\ Len(r) \in Nat
         /\ \A i \in 1 .. Len(q) : (q \o r)[i] = q[i]
         /\ \A i \in 1 .. Len(r) : (q \o r)[Len(q) + i] = r[i]
BY ConcatProperties

LEMMA ChainJoined ==
  ASSUME NEW S, NEW F, NEW q \in Seq(S), NEW r \in Seq(S), Chain(F, q), Chain(F, r),
         q = <<>> \/ r = <<>> \/ <<q[Len(q)], r[1]>> \in F
  PROVE  Chain(F, q \o r)
<1> DEFINE t == q \o r
<1>1. /\ Len(t) = Len(q) + Len(r) /\ Len(q) \in Nat /\ Len(r) \in Nat
      /\ \A i \in 1 .. Len(q) : t[i] = q[i]
      /\ \A i \in 1 .. Len(r) : t[Len(q) + i] = r[i]
  BY Joined
<1>2. (q = <<>> => Len(q) = 0) /\ (r = <<>> => Len(r) = 0)
  OBVIOUS
<1> HIDE DEF t
<1>3. ASSUME NEW i \in 1 .. Len(t) - 1 PROVE <<t[i], t[i + 1]>> \in F
  <2>1. CASE i < Len(q)
    <3>1. t[i] = q[i] /\ t[i + 1] = q[i + 1] /\ i \in 1 .. Len(q) - 1
      BY <1>1, <2>1
    <3> QED
      BY <3>1 DEF Chain
  <2>2. CASE i = Len(q)
    <3>1. t[i] = q[Len(q)] /\ t[i + 1] = r[1] /\ Len(q) # 0 /\ Len(r) # 0
      BY <1>1, <2>2
    <3>2. q # <<>> /\ r # <<>>
      BY <1>2, <3>1
    <3> QED
      BY <3>1, <3>2
  <2>3. CASE i > Len(q)
    <3> DEFINE j == i - Len(q)
    <3>1. /\ j \in 1 .. Len(r) /\ j + 1 \in 1 .. Len(r) /\ j \in 1 .. Len(r) - 1
          /\ i = Len(q) + j /\ i + 1 = Len(q) + (j + 1)
      BY <1>1, <2>3
    <3> HIDE DEF j
    <3>2. t[Len(q) + j] = r[j] /\ t[Len(q) + (j + 1)] = r[j + 1]
      BY <1>1, <3>1
    <3> QED
      BY <3>1, <3>2 DEF Chain
  <2> QED
    BY <1>1, <2>1, <2>2, <2>3
<1> QED
  BY <1>3 DEF Chain, t

LEMMA ChainRest ==
  ASSUME NEW S, NEW F, NEW q \in Seq(S), NEW r \in Seq(S), Chain(F, q \o r)
  PROVE  Chain(F, r)
<1>1. ASSUME NEW i \in 1 .. Len(r) - 1 PROVE <<r[i], r[i + 1]>> \in F
  <2> DEFINE j == Len(q) + i
  <2>1. j \in 1 .. Len(q \o r) - 1 /\ j + 1 = Len(q) + (i + 1)
    BY Joined
  <2>2. (q \o r)[j] = r[i] /\ (q \o r)[j + 1] = r[i + 1]
    BY <2>1, Joined
  <2> HIDE DEF j
  <2> QED
    BY <2>1, <2>2 DEF Chain
<1> QED
  BY <1>1 DEF Chain

LEMMA ChainOne ==
  ASSUME NEW F, NEW c
  PROVE  Chain(F, <<c>>)
BY DEF Chain

-----------------------------------------------------------------------------
\* The stream.

Minutely == {c \in Candle : \E b \in Int : c.at = b * Minute}

Following == {p \in Candle \X Candle : Follows(p[1], p[2])}

\* What was sent of the current minute is the last on its way.
StreamInv ==
  /\ up \in BOOLEAN /\ known \subseteq Vaults /\ bucket \in Int \cup {None}
  /\ chan \in Seq(Minutely) /\ seen \in Minutely \cup {None}
  /\ bucket = None => candle = None /\ chan = <<>> /\ seen = None
  /\ bucket # None => /\ candle \in Minutely /\ candle.at = bucket * Minute
                      /\ Coming # <<>> /\ Coming[Len(Coming)] = candle
  /\ Chain(Following, Coming)

Start0 == IF seen = None THEN <<>> ELSE <<seen>>

LEMMA ComingIs ==
  ASSUME chan \in Seq(Minutely), seen \in Minutely \cup {None}
  PROVE  /\ Start0 \in Seq(Minutely) /\ Coming = Start0 \o chan
         /\ Coming \in Seq(Minutely)
<1>1. Start0 \in Seq(Minutely)
  BY DEF Start0
<1> QED
  BY <1>1, ConcatProperties DEF Coming, Start0

LEMMA CandlesConstants ==
  /\ Minute \in Nat \ {0, 1} /\ Prices \subseteq Int /\ Prices # {}
  /\ None \notin Int /\ None \notin Candle
  /\ Timeframes \subseteq Nat \ {0} /\ Skew \in Nat /\ Before \in Nat /\ Others \in Nat
BY CandlesAssumption

LEMMA CandleIsInts ==
  ASSUME NEW c \in Candle
  PROVE  c.low \in Int /\ c.high \in Int /\ c.close \in Prices /\ c.at \in Int
BY CandlesConstants DEF Candle

LEMMA FlatIsMinutely ==
  ASSUME NEW p \in Prices, NEW b \in Int
  PROVE  Flat(p, b * Minute) \in Minutely /\ Flat(p, b * Minute).at = b * Minute
<1>1. b * Minute \in Int
  BY CandlesConstants
<1> QED
  BY <1>1 DEF Flat, Minutely, Candle

LEMMA Updated ==
  ASSUME NEW c \in Minutely, NEW p \in Prices
  PROVE  /\ Update(c, p) \in Minutely /\ Update(c, p).at = c.at
         /\ <<c, Update(c, p)>> \in Following /\ <<c, c>> \in Following
<1>1. c \in Candle /\ c.open \in Prices /\ c.low \in Prices /\ c.high \in Prices /\ p \in Int
      /\ c.low \in Int /\ c.high \in Int
  BY CandlesConstants DEF Minutely, Candle
<1>2. /\ Update(c, p) \in Candle /\ Update(c, p).at = c.at /\ Update(c, p).open = c.open
      /\ Update(c, p).low <= c.low /\ Update(c, p).high >= c.high
  <2> DEFINE high == IF p > c.high THEN p ELSE c.high
             low  == IF p < c.low THEN p ELSE c.low
  <2>1. Update(c, p) = [c EXCEPT !.high = high, !.low = low, !.close = p]
    BY <1>1 DEF Update, Candle
  <2>2. high \in Prices /\ low \in Prices /\ low <= c.low /\ high >= c.high
    BY <1>1
  <2> HIDE DEF high, low
  <2> QED
    BY <1>1, <2>1, <2>2 DEF Candle
<1> QED
  BY <1>1, <1>2 DEF Minutely, Following, Follows

\* The channel is extended by r, which ends with the candle of the new minute.
LEMMA StreamGrows ==
  ASSUME StreamInv, bucket # None, NEW r \in Seq(Minutely), r # <<>>,
         chan' = chan \o r, UNCHANGED <<up, seen>>, known' \subseteq Vaults,
         bucket' \in Int, candle' \in Minutely, candle'.at = bucket' * Minute,
         Chain(Following, r), <<candle, r[1]>> \in Following, r[Len(r)] = candle'
  PROVE  StreamInv'
<1>1. /\ Start0 \in Seq(Minutely) /\ Coming = Start0 \o chan /\ Coming \in Seq(Minutely)
      /\ chan \in Seq(Minutely)
  BY ComingIs DEF StreamInv
<1>2. Coming' = Coming \o r
  <2>1. Coming' = Start0 \o (chan \o r)
    BY DEF Coming, Start0
  <2>2. (Start0 \o chan) \o r = Start0 \o (chan \o r)
    BY <1>1, ConcatAssociative
  <2> QED
    BY <1>1, <2>1, <2>2
<1>3. Chain(Following, Coming')
  BY <1>1, <1>2, ChainJoined DEF StreamInv
<1>4. chan' \in Seq(Minutely) /\ Coming' \in Seq(Minutely)
  BY <1>1, <1>2, ConcatProperties
<1>5. /\ Len(Coming') = Len(Coming) + Len(r) /\ Len(r) \in Nat /\ Len(r) # 0 /\ Len(Coming) \in Nat
      /\ Coming'[Len(Coming) + Len(r)] = r[Len(r)]
  <2>1. Len(r) \in Nat /\ Len(r) # 0
    BY EmptySeq
  <2> QED
    BY <1>1, <1>2, <2>1, Joined
<1>6. Coming' # <<>>
  BY <1>5
<1>7. bucket' # None
  BY CandlesConstants
<1> QED
  BY <1>3, <1>4, <1>5, <1>6, <1>7 DEF StreamInv

LEMMA FirstStream ==
  ASSUME StreamInv, bucket = None, NEW b \in Int, NEW p \in Prices, First(b, p),
         UNCHANGED <<up, seen>>, known' \subseteq Vaults
  PROVE  StreamInv'
<1>1. chan = <<>> /\ seen = None /\ bucket' = b /\ b # None
  BY CandlesConstants DEF StreamInv, First
<1>2. candle' \in Minutely /\ candle'.at = b * Minute
  BY FlatIsMinutely DEF First
<1>3. chan' = <<candle'>>
  BY <1>1 DEF First
<1>4. chan' \in Seq(Minutely) /\ Coming' = <<candle'>>
  <2>1. <<candle'>> \in Seq(Minutely) /\ <<>> \o <<candle'>> = <<candle'>>
    BY <1>2
  <2> QED
    BY <1>1, <1>3, <2>1 DEF Coming
<1>5. Chain(Following, Coming') /\ Coming' # <<>> /\ Coming'[Len(Coming')] = candle'
  BY <1>4, ChainOne
<1> QED
  BY <1>1, <1>2, <1>4, <1>5 DEF StreamInv

LEMMA SameStream ==
  ASSUME StreamInv, bucket # None, NEW b \in Int, NEW p \in Prices, Same(b, p),
         UNCHANGED <<up, seen>>, known' \subseteq Vaults
  PROVE  StreamInv'
<1>1. candle \in Minutely /\ candle.at = bucket * Minute /\ bucket \in Int /\ chan \in Seq(Minutely)
  BY DEF StreamInv
<1>2. /\ candle' \in Minutely /\ candle'.at = bucket * Minute
      /\ <<candle, candle'>> \in Following
  BY <1>1, Updated DEF Same
<1>3. chan' = chan \o <<candle'>>
  BY <1>1, <1>2, AppendIsConcat DEF Same
<1>4. <<candle'>> \in Seq(Minutely) /\ <<candle'>> # <<>> /\ Chain(Following, <<candle'>>)
  BY <1>2, ChainOne
<1> QED
  BY <1>1, <1>2, <1>3, <1>4, StreamGrows DEF Same

LEMMA RollStream ==
  ASSUME StreamInv, bucket # None, NEW b \in Int, NEW p \in Prices, Roll(b, p),
         UNCHANGED <<up, seen>>, known' \subseteq Vaults
  PROVE  StreamInv'
<1> DEFINE n == b - bucket - 1
           G == [k \in 1 .. n |-> Flat(candle.close, (bucket + k) * Minute)]
           d == candle'
           a == <<candle>> \o G
<1>1. /\ candle \in Minutely /\ candle \in Candle /\ candle.at = bucket * Minute
      /\ candle.close \in Prices /\ bucket \in Int /\ chan \in Seq(Minutely) /\ n \in Nat
  <2>1. candle \in Minutely /\ candle.at = bucket * Minute /\ bucket \in Int /\ chan \in Seq(Minutely)
    BY DEF StreamInv
  <2>2. b > bucket
    BY DEF Roll
  <2> QED
    BY <2>1, <2>2, CandleIsInts DEF Minutely
<1>2. d \in Minutely /\ d \in Candle /\ d.at = b * Minute /\ bucket' = b
  BY FlatIsMinutely DEF Roll, Minutely
<1>3. ASSUME NEW k \in 1 .. n
      PROVE  G[k] \in Minutely /\ G[k] \in Candle /\ G[k].at = (bucket + k) * Minute
  <2> DEFINE x == bucket + k
  <2>1. x \in Int /\ G[k] = Flat(candle.close, x * Minute)
    BY <1>1
  <2> HIDE DEF x, G
  <2>2. G[k] \in Minutely /\ G[k].at = x * Minute
    BY <1>1, <2>1, FlatIsMinutely
  <2> QED
    BY <2>2 DEF Minutely, x
<1>4. G \in Seq(Minutely) /\ Len(G) = n /\ (n = 0 => G = <<>>) /\ (n # 0 => G # <<>>)
  <2>1. G \in [1 .. n -> Minutely]
    BY <1>3
  <2> HIDE DEF G
  <2> QED
    BY <1>1, <2>1, EmptySeq
<1>5. Minute \in Int
  BY CandlesConstants
<1> HIDE DEF G
<1>6. Chain(Following, G)
  <2>1. ASSUME NEW k \in 1 .. n - 1 PROVE <<G[k], G[k + 1]>> \in Following
    <3>1. k \in 1 .. n /\ k + 1 \in 1 .. n
      BY <1>1
    <3>2. (bucket + (k + 1)) * Minute = (bucket + k) * Minute + Minute
      BY <1>1, <1>5
    <3>3. G[k + 1].at = G[k].at + Minute
      BY <1>3, <3>1, <3>2
    <3> QED
      BY <1>3, <3>1, <3>3 DEF Following, Follows
  <2> QED
    BY <1>4, <2>1 DEF Chain
<1>7. <<candle>> \in Seq(Minutely) /\ <<d>> \in Seq(Minutely)
  BY <1>1, <1>2
<1>8. /\ a \in Seq(Minutely) /\ Len(a) = n + 1 /\ a # <<>> /\ a[1] = candle
      /\ n # 0 => a[Len(a)] = G[n]
  <2>1. /\ a \in Seq(Minutely) /\ Len(a) = 1 + Len(G)
        /\ \A i \in 1 .. 1 : a[i] = <<candle>>[i]
        /\ \A i \in 1 .. Len(G) : a[1 + i] = G[i]
    BY <1>4, <1>7, Joined
  <2>2. a # <<>>
    BY <1>1, <1>4, <2>1
  <2> HIDE DEF a
  <2>3. n # 0 => a[1 + n] = G[n]
    BY <1>1, <1>4, <2>1
  <2> QED
    BY <1>1, <1>4, <2>1, <2>2, <2>3
<1>9. Chain(Following, a)
  <2>1. CASE n = 0
    BY <1>4, <1>6, <1>7, <2>1, ChainJoined, ChainOne
  <2>2. CASE n # 0
    <3>1. 1 \in 1 .. n
      BY <1>1, <2>2
    <3>2. (bucket + 1) * Minute = bucket * Minute + Minute
      BY <1>1, <1>5
    <3>3. G[1].at = candle.at + Minute
      BY <1>1, <1>3, <3>1, <3>2
    <3>4. <<candle, G[1]>> \in Following
      BY <1>1, <1>3, <3>1, <3>3 DEF Following, Follows
    <3>5. <<candle>>[Len(<<candle>>)] = candle
      OBVIOUS
    <3> QED
      BY <1>4, <1>6, <1>7, <3>4, <3>5, ChainJoined, ChainOne
  <2> QED
    BY <2>1, <2>2
<1>10. <<a[Len(a)], d>> \in Following
  <2>1. CASE n = 0
    <3>1. b * Minute = bucket * Minute + Minute
      BY <1>1, <1>5, <2>1
    <3>2. a[Len(a)] = candle
      BY <1>8, <2>1
    <3> QED
      BY <1>1, <1>2, <3>1, <3>2 DEF Following, Follows
  <2>2. CASE n # 0
    <3>1. n \in 1 .. n /\ b = bucket + n + 1
      BY <1>1, <2>2
    <3>2. b * Minute = (bucket + n) * Minute + Minute
      BY <1>1, <1>5, <3>1
    <3>3. a[Len(a)] = G[n] /\ G[n] \in Candle /\ G[n].at = (bucket + n) * Minute
      BY <1>3, <1>8, <2>2, <3>1
    <3> QED
      BY <1>2, <3>2, <3>3 DEF Following, Follows
  <2> QED
    BY <2>1, <2>2
<1> HIDE DEF a, n
<1>11. /\ a \o <<d>> \in Seq(Minutely) /\ Len(a \o <<d>>) = Len(a) + 1
       /\ (a \o <<d>>)[1] = candle /\ (a \o <<d>>)[Len(a) + 1] = d
       /\ Len(a) \in Nat
  <2>1. /\ Len(<<d>>) = 1 /\ <<d>>[1] = d /\ Len(a) >= 1 /\ Len(a) \in Nat
    BY <1>8, EmptySeq
  <2>2. /\ \A i \in 1 .. Len(a) : (a \o <<d>>)[i] = a[i]
        /\ \A i \in 1 .. Len(<<d>>) : (a \o <<d>>)[Len(a) + i] = <<d>>[i]
        /\ a \o <<d>> \in Seq(Minutely) /\ Len(a \o <<d>>) = Len(a) + Len(<<d>>)
    <3>1. a \in Seq(Minutely) /\ <<d>> \in Seq(Minutely)
      BY <1>7, <1>8
    <3> HIDE DEF d
    <3> QED
      BY <3>1, Joined
  <2> HIDE DEF d
  <2>3. 1 \in 1 .. Len(a)
    BY <2>1
  <2> QED
    BY <1>8, <2>1, <2>2, <2>3
<1>12. Chain(Following, a \o <<d>>)
  <2>1. <<d>>[1] = d
    OBVIOUS
  <2> QED
    BY <1>7, <1>8, <1>9, <1>10, <2>1, ChainJoined, ChainOne
<1>13. chan' = chan \o (a \o <<d>>)
  <2>1. chan' = ((chan \o <<candle>>) \o G) \o <<d>>
    BY DEF Roll, G, n
  <2>2. (chan \o <<candle>>) \o G = chan \o a
    BY <1>1, <1>4, <1>7, ConcatAssociative DEF a
  <2>3. (chan \o a) \o <<d>> = chan \o (a \o <<d>>)
    BY <1>1, <1>7, <1>8, ConcatAssociative
  <2> QED
    BY <2>1, <2>2, <2>3
<1>14. <<candle, candle>> \in Following
  BY <1>1, Updated
<1>15. a \o <<d>> # <<>>
  BY <1>11
<1> QED
  BY <1>1, <1>2, <1>11, <1>12, <1>13, <1>14, <1>15, StreamGrows

\* The time, and the timeframe that is followed.
ClockInv == now \in Nat /\ \E n \in Nat \ {0} : tf = n * Minute

LEMMA ClockStarts == Init => ClockInv
BY CandlesConstants DEF Init, Start, ClockInv

LEMMA ClockNext ==
  ASSUME ClockInv, [Next]_vars
  PROVE  ClockInv' /\ tf' = tf
<1>1. CASE UNCHANGED <<tf, now>>
  BY <1>1 DEF ClockInv
<1>2. CASE Passes
  BY <1>2 DEF Passes, ClockInv
<1>3. CASE Spawning
  BY <1>1, <1>3 DEF Spawning, FetchGoesOn, HistoryFetched, NextFetch, SpawnEnds, Waits
<1>4. ASSUME NEW v, NEW t, NEW p, Notified(v, t, p) PROVE UNCHANGED <<tf, now>>
  BY <1>4 DEF Notified
<1>5. CASE Ended \/ Resubscribed \/ Taken \/ UNCHANGED vars
  BY <1>1, <1>5 DEF Ended, Resubscribed, Taken, vars
<1> QED
  BY <1>1, <1>2, <1>3, <1>4, <1>5 DEF Next

LEMMA NotifiedStream ==
  ASSUME StreamInv, ClockInv, NEW v \in Vaults, NEW t \in Estimates,
         NEW p \in Prices \cup {None}, Notified(v, t, p)
  PROVE  StreamInv'
<1>1. known' \subseteq Vaults
  BY DEF Notified, StreamInv
<1>2. UNCHANGED <<up, seen>>
  BY DEF Notified
<1>3. CASE UNCHANGED <<bucket, candle, chan>>
  <2>1. Coming' = Coming
    BY <1>2, <1>3 DEF Coming
  <2> QED
    BY <1>1, <1>2, <1>3, <2>1 DEF StreamInv
<1>4. CASE Built(t \div Minute, p) /\ p # None
  <2> DEFINE b == t \div Minute
  <2>1. b \in Int
    <3>1. t \in Int
      BY CandlesConstants DEF Estimates, ClockInv
    <3> QED
      BY <3>1, CandlesConstants, Quotient
  <2>2. p \in Prices
    BY <1>4
  <2>3. Built(b, p)
    BY <1>4
  <2> HIDE DEF b
  <2>4. CASE bucket = None /\ First(b, p)
    BY <1>1, <1>2, <2>1, <2>2, <2>4, FirstStream
  <2>5. CASE bucket # None /\ Same(b, p)
    BY <1>1, <1>2, <2>1, <2>2, <2>5, SameStream
  <2>6. CASE bucket # None /\ Roll(b, p)
    BY <1>1, <1>2, <2>1, <2>2, <2>6, RollStream
  <2> QED
    BY <1>3, <2>3, <2>4, <2>5, <2>6 DEF Built
<1> QED
  BY <1>3, <1>4 DEF Notified

\* What the engine takes is the head of what is coming.
LEMMA TakenStream ==
  ASSUME StreamInv, Taken
  PROVE  StreamInv'
<1>1. /\ Start0 \in Seq(Minutely) /\ Coming = Start0 \o chan /\ Coming \in Seq(Minutely)
      /\ chan \in Seq(Minutely) /\ chan # <<>>
  BY ComingIs DEF StreamInv, Taken
<1>2. seen' = Head(chan) /\ chan' = Tail(chan) /\ UNCHANGED stream
  BY DEF Taken
<1>3. seen' \in Minutely /\ seen' # None /\ chan' \in Seq(Minutely)
  <2>1. Head(chan) \in Minutely /\ Tail(chan) \in Seq(Minutely)
    BY <1>1, HeadTailProperties
  <2>2. None \notin Minutely
    BY CandlesConstants DEF Minutely
  <2> QED
    BY <1>2, <2>1, <2>2
<1>4. chan = <<Head(chan)>> \o Tail(chan)
  BY <1>1, HeadTailProperties
<1>5. Coming' = chan
  BY <1>2, <1>3, <1>4 DEF Coming
<1>6. Chain(Following, chan)
  BY <1>1, ChainRest DEF StreamInv
<1>7. bucket # None
  BY <1>1 DEF StreamInv
<1>8. chan[Len(chan)] = Coming[Len(Coming)]
  <2>1. Len(chan) \in Nat /\ Len(chan) # 0
    BY <1>1, EmptySeq
  <2>2. /\ Len(Start0 \o chan) = Len(Start0) + Len(chan)
        /\ \A i \in 1 .. Len(chan) : (Start0 \o chan)[Len(Start0) + i] = chan[i]
    BY <1>1, Joined
  <2>3. Len(chan) \in 1 .. Len(chan)
    BY <2>1
  <2> QED
    BY <1>1, <2>2, <2>3
<1>9. /\ UNCHANGED <<up, known, bucket, candle>>
  BY <1>2 DEF stream
<1> QED
  BY <1>1, <1>3, <1>5, <1>6, <1>7, <1>8, <1>9 DEF StreamInv

LEMMA StreamNext ==
  ASSUME StreamInv, ClockInv, [Next]_vars
  PROVE  StreamInv'
<1>1. CASE UNCHANGED <<stream, chan, seen>>
  <2>1. UNCHANGED <<up, known, bucket, candle, chan, seen>>
    BY <1>1 DEF stream
  <2>2. Coming' = Coming
    BY <2>1 DEF Coming
  <2> QED
    BY <2>1, <2>2 DEF StreamInv
<1>2. CASE Spawning
  BY <1>1, <1>2 DEF Spawning, FetchGoesOn, HistoryFetched, NextFetch, SpawnEnds, Waits
<1>3. ASSUME NEW v \in Vaults, NEW t \in Estimates, NEW p \in Prices \cup {None}, Notified(v, t, p)
      PROVE  StreamInv'
  BY <1>3, NotifiedStream
<1>4. CASE Ended
  <2>1. UNCHANGED <<known, bucket, candle, chan, seen>> /\ up' = FALSE
    BY <1>4 DEF Ended
  <2>2. Coming' = Coming
    BY <2>1 DEF Coming
  <2> QED
    BY <2>1, <2>2 DEF StreamInv
<1>5. CASE Resubscribed
  <2>1. /\ chan' = <<>> /\ seen' = None /\ bucket' = None /\ candle' = None
        /\ up' = TRUE /\ known' = {}
    BY <1>5 DEF Resubscribed
  <2>2. Coming' = <<>>
    BY <2>1 DEF Coming
  <2>3. Chain(Following, Coming') /\ chan' \in Seq(Minutely)
    BY <2>1, <2>2, EmptySeq DEF Chain
  <2> QED
    BY <2>1, <2>3 DEF StreamInv
<1>6. CASE Taken
  BY <1>6, TakenStream
<1>7. CASE Passes \/ UNCHANGED vars
  BY <1>1, <1>7 DEF Passes, vars
<1> QED
  BY <1>2, <1>3, <1>4, <1>5, <1>6, <1>7 DEF Next

LEMMA StreamStarts == Init => StreamInv
<1>1. Init => Coming = <<>> /\ chan = <<>>
  BY DEF Init, Coming
<1>2. Init => Chain(Following, Coming) /\ chan \in Seq(Minutely)
  BY <1>1, EmptySeq DEF Chain
<1> QED
  BY <1>2 DEF Init, StreamInv

LEMMA StreamAlways == Spec => [](ClockInv /\ StreamInv)
<1>1. ClockInv /\ StreamInv /\ [Next]_vars => (ClockInv /\ StreamInv)'
  BY ClockNext, StreamNext
<1> QED
  BY <1>1, ClockStarts, StreamStarts, PTL DEF Spec

\* Within a subscription no minute is missing and none comes back, and the
\* range of a minute that is sent again only grows.
THEOREM StreamIsContiguous == Spec => []StreamContiguous
<1>1. StreamInv => StreamContiguous
  BY DEF StreamInv, Chain, Following, StreamContiguous
<1> QED
  BY <1>1, StreamAlways, PTL

-----------------------------------------------------------------------------
\* What FlattenSeq computes.

\* A set of natural numbers that has 0 and, with each number, the next.
LEMMA AllNumbers ==
  ASSUME NEW P \in SUBSET Nat, 0 \in P, \A n \in P : n + 1 \in P
  PROVE  P = Nat
<1> DEFINE T == Nat \ P
           R == OpToRel(<, Nat)
<1>1. SUFFICES ASSUME T # {} PROVE FALSE
  OBVIOUS
<1>2. IsWellFoundedOn(R, Nat)
  BY NatLessThanWellFounded
<1>3. T \subseteq Nat
  OBVIOUS
<1>4. PICK x \in T : \A y \in T : ~ (<<y, x>> \in R)
  <2> HIDE DEF T, R
  <2> QED
    BY <1>1, <1>2, <1>3, WFMin
<1>5. \A y \in T : ~ (y < x)
  BY <1>4 DEF OpToRel
<1>6. x # 0 /\ x - 1 \in Nat /\ x - 1 < x
  OBVIOUS
<1>7. x - 1 \in P
  BY <1>5, <1>6
<1>8. (x - 1) + 1 \in P
  BY <1>7
<1> QED
  BY <1>6, <1>8

\* The pieces of q up to its i-th, one after the other.
Flattens(f, q) ==
  f = [i \in 1 .. Len(q) |-> IF i = 1 THEN q[i] ELSE f[i - 1] \o q[i]]

Flattened(q, n) ==
  \E f : f = [i \in 1 .. n |-> IF i = 1 THEN q[i] ELSE f[i - 1] \o q[i]]

LEMMA FlattenedExists ==
  ASSUME NEW q, NEW n \in Nat
  PROVE  Flattened(q, n)
<1> DEFINE P == {k \in Nat : Flattened(q, k)}
<1>1. 0 \in P
  <2> DEFINE f == [i \in 1 .. 0 |-> 0]
  <2>1. f = [i \in 1 .. 0 |-> IF i = 1 THEN q[i] ELSE f[i - 1] \o q[i]]
    OBVIOUS
  <2> QED
    BY <2>1 DEF Flattened
<1>2. ASSUME NEW k \in P PROVE k + 1 \in P
  <2>1. PICK f : f = [i \in 1 .. k |-> IF i = 1 THEN q[i] ELSE f[i - 1] \o q[i]]
    BY <1>2 DEF Flattened
  <2> DEFINE last == IF k = 0 THEN q[k + 1] ELSE f[k] \o q[k + 1]
             g == [i \in 1 .. k + 1 |-> IF i = k + 1 THEN last ELSE f[i]]
             G == [i \in 1 .. k + 1 |-> IF i = 1 THEN q[i] ELSE g[i - 1] \o q[i]]
  <2>2. ASSUME NEW i \in 1 .. k + 1 PROVE g[i] = G[i]
    <3>1. CASE i = k + 1
      <4>1. g[i] = last
        BY <3>1
      <4>2. CASE k = 0
        BY <3>1, <4>1, <4>2
      <4>3. CASE k # 0
        <5>1. i # 1 /\ i - 1 \in 1 .. k + 1 /\ i - 1 = k /\ i - 1 # k + 1
          BY <3>1, <4>3
        <5>2. g[i - 1] = f[k]
          BY <5>1
        <5>3. G[i] = g[i - 1] \o q[i]
          BY <5>1
        <5> QED
          BY <3>1, <4>1, <4>3, <5>2, <5>3
      <4> QED
        BY <4>2, <4>3
    <3>2. CASE i # k + 1
      <4>1. i \in 1 .. k
        BY <3>2
      <4>2. g[i] = f[i]
        BY <3>2
      <4>3. f[i] = IF i = 1 THEN q[i] ELSE f[i - 1] \o q[i]
        BY <2>1, <4>1
      <4>4. i # 1 => g[i - 1] = f[i - 1]
        BY <4>1
      <4>5. G[i] = IF i = 1 THEN q[i] ELSE g[i - 1] \o q[i]
        OBVIOUS
      <4> HIDE DEF g, G, last
      <4> QED
        BY <4>2, <4>3, <4>4, <4>5
    <3> QED
      BY <3>1, <3>2
  <2>3. g = G
    BY <2>2
  <2>4. g = [i \in 1 .. k + 1 |-> IF i = 1 THEN q[i] ELSE g[i - 1] \o q[i]]
    BY <2>3
  <2> HIDE DEF g, G
  <2>5. Flattened(q, k + 1)
    BY <2>4 DEF Flattened
  <2> QED
    BY <2>5
<1>3. P \in SUBSET Nat
  OBVIOUS
<1>4. P = Nat
  <2> HIDE DEF P
  <2> QED
    BY <1>1, <1>2, <1>3, AllNumbers
<1> QED
  BY <1>4

LEMMA FlattenSeqIs ==
  ASSUME NEW q, Len(q) \in Nat, Len(q) # 0
  PROVE  \E f : Flattens(f, q) /\ FlattenSeq(q) = f[Len(q)]
<1> DEFINE F == CHOOSE f : Flattens(f, q)
<1>1. \E f : Flattens(f, q)
  BY FlattenedExists DEF Flattened, Flattens
<1>2. Flattens(F, q)
  BY <1>1
<1>3. FlattenSeq(q) = F[Len(q)]
  BY DEF FlattenSeq, Flattens
<1> QED
  BY <1>2, <1>3

-----------------------------------------------------------------------------
\* The history.

\* The second candle is one period after the first.
Apart == {p \in Candle \X Candle : p[2].at = p[1].at + tf}

Filled(h) == h \in Seq(Candle) /\ Chain(Apart, h)

LEMMA TimeframeIs == ASSUME ClockInv PROVE tf \in Nat \ {0}
<1>1. PICK n \in Nat \ {0} : tf = n * Minute
  BY DEF ClockInv
<1> QED
  BY <1>1, CandlesConstants

LEMMA FlatIsCandle ==
  ASSUME NEW p \in Prices, NEW t \in Int
  PROVE  Flat(p, t) \in Candle /\ Flat(p, t).at = t /\ Flat(p, t).close = p
BY DEF Flat, Candle

\* A candle, and a flat one for each of the n periods after it.
Piece(c, n) == <<c>> \o [k \in 1 .. n |-> Flat(c.close, c.at + k * tf)]

LEMMA PieceIsFilled ==
  ASSUME ClockInv, NEW c \in Candle, NEW n \in Nat
  PROVE  LET q == Piece(c, n)
         IN  Filled(q) /\ q # <<>> /\ q[1] = c /\ Len(q) \in Nat /\ q[Len(q)].at = c.at + n * tf
<1> DEFINE G == [k \in 1 .. n |-> Flat(c.close, c.at + k * tf)]
           q == <<c>> \o G
<1>1. c.close \in Prices /\ c.at \in Int /\ tf \in Nat \ {0}
  BY CandleIsInts, TimeframeIs
<1>2. ASSUME NEW k \in 1 .. n PROVE G[k] \in Candle /\ G[k].at = c.at + k * tf
  <2> DEFINE t == c.at + k * tf
  <2>1. t \in Int /\ G[k] = Flat(c.close, t)
    BY <1>1
  <2> HIDE DEF t, G
  <2>2. G[k] \in Candle /\ G[k].at = t
    BY <1>1, <2>1, FlatIsCandle
  <2> QED
    BY <2>2 DEF t
<1>3. G \in Seq(Candle) /\ Len(G) = n
  <2>1. G \in [1 .. n -> Candle]
    BY <1>2
  <2> HIDE DEF G
  <2> QED
    BY <2>1
<1> HIDE DEF G
<1>4. <<c>> \in Seq(Candle) /\ Len(<<c>>) = 1 /\ <<c>>[1] = c
  OBVIOUS
<1>5. /\ q \in Seq(Candle) /\ Len(q) = 1 + n /\ q[1] = c
      /\ \A k \in 1 .. n : q[1 + k] = G[k]
  <2>1. /\ q \in Seq(Candle) /\ Len(q) = 1 + n
        /\ \A k \in 1 .. 1 : q[k] = <<c>>[k]
        /\ \A k \in 1 .. n : q[1 + k] = G[k]
    BY <1>3, <1>4, Joined
  <2> QED
    BY <1>4, <2>1
<1> HIDE DEF q
<1>6. q # <<>>
  BY <1>5
<1>7. ASSUME NEW i \in 1 .. n + 1 PROVE q[i] \in Candle /\ q[i].at = c.at + (i - 1) * tf
  <2>1. CASE i = 1
    BY <1>1, <1>5, <2>1
  <2>2. CASE i # 1
    <3> DEFINE k == i - 1
    <3>1. k \in 1 .. n /\ i = 1 + k
      BY <2>2
    <3>2. q[1 + k] = G[k]
      BY <1>5, <3>1
    <3> HIDE DEF k
    <3>3. q[i] \in Candle /\ q[i].at = c.at + k * tf
      BY <1>2, <3>1, <3>2
    <3> QED
      BY <3>3 DEF k
  <2> QED
    BY <2>1, <2>2
<1>8. Chain(Apart, q)
  <2>1. ASSUME NEW i \in 1 .. n PROVE <<q[i], q[i + 1]>> \in Apart
    <3>1. i \in 1 .. n + 1 /\ i + 1 \in 1 .. n + 1
      OBVIOUS
    <3>2. c.at + ((i + 1) - 1) * tf = (c.at + (i - 1) * tf) + tf
      BY <1>1
    <3>3. q[i + 1].at = q[i].at + tf /\ q[i] \in Candle /\ q[i + 1] \in Candle
      BY <1>7, <3>1, <3>2
    <3> QED
      BY <3>3 DEF Apart
  <2> QED
    BY <1>5, <2>1 DEF Chain
<1>9. q[n + 1].at = c.at + n * tf
  <2>1. n + 1 \in 1 .. n + 1 /\ (n + 1) - 1 = n
    OBVIOUS
  <2> QED
    BY <1>7, <2>1
<1>10. Piece(c, n) = q
  BY DEF Piece, q, G
<1> QED
  BY <1>5, <1>6, <1>8, <1>9, <1>10 DEF Filled

\* Joining what is filled.
LEMMA FilledJoined ==
  ASSUME NEW q, NEW r, Filled(q), Filled(r), q # <<>>, r # <<>>,
         r[1].at = q[Len(q)].at + tf
  PROVE  /\ Filled(q \o r) /\ q \o r # <<>>
         /\ (q \o r)[Len(q \o r)] = r[Len(r)]
<1>1. /\ q \in Seq(Candle) /\ r \in Seq(Candle)
      /\ Len(q) \in Nat \ {0} /\ Len(r) \in Nat \ {0}
  BY EmptySeq DEF Filled
<1>2. q[Len(q)] \in Candle /\ r[1] \in Candle
  <2>1. Len(q) \in 1 .. Len(q) /\ 1 \in 1 .. Len(r)
    BY <1>1
  <2> QED
    BY <1>1, <2>1, ElementOfSeq
<1>3. <<q[Len(q)], r[1]>> \in Apart
  BY <1>2 DEF Apart
<1>4. Chain(Apart, q \o r)
  BY <1>1, <1>3, ChainJoined DEF Filled
<1>5. /\ q \o r \in Seq(Candle) /\ Len(q \o r) = Len(q) + Len(r)
      /\ (q \o r)[Len(q) + Len(r)] = r[Len(r)]
  <2>1. Len(r) \in 1 .. Len(r)
    BY <1>1
  <2> QED
    BY <1>1, <2>1, Joined
<1>6. q \o r # <<>>
  BY <1>1, <1>5, EmptySeq
<1> QED
  BY <1>4, <1>5, <1>6 DEF Filled

LEMMA FetchedIs ==
  ASSUME ClockInv, until \in Nat, NEW h \in Fetched
  PROVE  /\ h \in Seq(Candle) /\ Len(h) \in Nat /\ DOMAIN h = 1 .. Len(h)
         /\ \A i \in 1 .. Len(h) : h[i] \in Candle /\ \E x \in Int : h[i].at = x * tf
         /\ \A i \in 1 .. Len(h) - 1 : h[i].at < h[i + 1].at
<1> DEFINE p == CHOOSE price \in Prices : TRUE
           Answered == {Flat(p, t) : t \in Periods}
<1>1. p \in Prices
  BY CandlesConstants
<1>2. tf \in Nat \ {0}
  BY TimeframeIs
<1>3. ASSUME NEW t \in Periods PROVE t \in Int /\ \E x \in Int : t = x * tf
  <2>1. PICK k \in 0 .. Before : t = ((until \div tf) - k) * tf
    BY <1>3 DEF Periods
  <2> DEFINE x == (until \div tf) - k
  <2>2. x \in Int
    BY <1>2, <2>1, Quotient
  <2>3. t = x * tf
    BY <2>1
  <2> HIDE DEF x
  <2> QED
    BY <1>2, <2>2, <2>3
<1>4. ASSUME NEW c \in Answered PROVE c \in Candle /\ \E x \in Int : c.at = x * tf
  <2>1. PICK t \in Periods : c = Flat(p, t)
    BY <1>4
  <2>2. t \in Int /\ \E x \in Int : t = x * tf
    BY <1>3
  <2> HIDE DEF p
  <2> QED
    BY <1>1, <2>1, <2>2, FlatIsCandle
<1>5. /\ \A i \in 1 .. Len(h) - 1 : h[i].at < h[i + 1].at
      /\ \E n \in 0 .. Before + 1 : h \in [1 .. n -> Answered]
  BY DEF Fetched
<1> HIDE DEF Answered
<1>6. PICK n \in 0 .. Before + 1 : h \in [1 .. n -> Answered]
  BY <1>5
<1>7. n \in Nat
  BY CandlesConstants
<1>8. Len(h) = n /\ DOMAIN h = 1 .. n /\ h \in Seq(Answered)
  BY <1>6, <1>7
<1>9. \A i \in 1 .. Len(h) : h[i] \in Candle /\ \E x \in Int : h[i].at = x * tf
  BY <1>4, <1>6, <1>8
<1>10. h \in Seq(Candle)
  <2>1. h \in [1 .. n -> Candle]
    BY <1>6, <1>8, <1>9
  <2> QED
    BY <1>7, <2>1
<1> QED
  BY <1>5, <1>7, <1>8, <1>9, <1>10

\* The piece of the i-th candle reaches up to the next one.
Gap(h, i) == (h[i + 1].at - h[i].at - 1) \div tf

LEMMA GapIs ==
  ASSUME ClockInv, until \in Nat, NEW h \in Fetched, NEW i \in 1 .. Len(h) - 1
  PROVE  Gap(h, i) \in Nat /\ h[i].at + Gap(h, i) * tf + tf = h[i + 1].at
<1>1. /\ i \in 1 .. Len(h) /\ i + 1 \in 1 .. Len(h) /\ tf \in Nat \ {0}
      /\ h[i].at < h[i + 1].at
  <2>1. Len(h) \in Nat
    BY FetchedIs
  <2>2. i \in 1 .. Len(h) /\ i + 1 \in 1 .. Len(h)
    BY <2>1
  <2>3. h[i].at < h[i + 1].at
    BY FetchedIs
  <2> QED
    BY <2>2, <2>3, TimeframeIs
<1>2. PICK x \in Int : h[i].at = x * tf
  BY <1>1, FetchedIs
<1>3. PICK y \in Int : h[i + 1].at = y * tf
  <2>1. PICK j : j = i + 1
    OBVIOUS
  <2>2. \E y \in Int : h[j].at = y * tf
    BY <1>1, <2>1, FetchedIs
  <2> QED
    BY <2>1, <2>2
<1>4. x < y
  <2>1. ASSUME y <= x PROVE FALSE
    <3>1. tf * y <= tf * x
      BY <1>1, <2>1, Multiples
    <3> QED
      BY <1>1, <1>2, <1>3, <3>1
  <2> QED
    BY <2>1
<1> DEFINE n == y - x - 1
           a == y * tf - x * tf - 1
<1>5. n \in Nat /\ a \in Int /\ tf * n <= a /\ a < tf * (n + 1)
  <2> DEFINE X == x * tf
             Y == y * tf
             N == tf * n
             M == tf * (n + 1)
  <2>1. N = Y - X - tf /\ M = Y - X
    BY <1>1
  <2>2. tf >= 1 /\ tf \in Int /\ Y \in Int /\ X \in Int
    BY <1>1
  <2>3. n \in Nat /\ a = Y - X - 1
    BY <1>4
  <2> HIDE DEF X, Y, N, M, n, a
  <2>4. a \in Int /\ N <= a /\ a < M
    BY <2>1, <2>2, <2>3
  <2> QED
    BY <2>3, <2>4 DEF N, M
<1>6. Gap(h, i) = a \div tf
  BY <1>2, <1>3 DEF Gap
<1>7. x * tf + n * tf + tf = y * tf
  BY <1>1
<1> HIDE DEF n, a
<1>8. a \div tf = n
  BY <1>1, <1>5, QuotientIs
<1> QED
  BY <1>2, <1>3, <1>5, <1>6, <1>7, <1>8

\* After fill_gaps no period is missing.
LEMMA FillGapsFills ==
  ASSUME ClockInv, until \in Nat, NEW h \in Fetched
  PROVE  Filled(FillGaps(h))
<1> DEFINE m == Len(h)
           q == [i \in DOMAIN h |->
                   IF i = Len(h) THEN <<h[i]>>
                   ELSE <<h[i]>> \o [k \in 1 .. ((h[i + 1].at - h[i].at - 1) \div tf) |->
                                       Flat(h[i].close, h[i].at + k * tf)]]
<1>1. /\ h \in Seq(Candle) /\ m \in Nat /\ DOMAIN h = 1 .. m
      /\ \A i \in 1 .. m : h[i] \in Candle
  BY FetchedIs
<1>2. FillGaps(h) = FlattenSeq(q)
  BY DEF FillGaps
<1>3. Len(q) = m /\ (m = 0 => q = <<>>)
  BY <1>1
<1>4. CASE m = 0
  <2>1. FlattenSeq(q) = <<>>
    BY <1>3, <1>4 DEF FlattenSeq
  <2>2. <<>> \in Seq(Candle) /\ Len(<<>>) = 0
    OBVIOUS
  <2>3. FillGaps(h) = <<>>
    BY <1>2, <2>1
  <2> HIDE DEF q, m
  <2> QED
    BY <2>2, <2>3 DEF Filled, Chain
<1>5. CASE m # 0
  <2> DEFINE Reaches(i) == IF i = m THEN h[i].at ELSE h[i + 1].at - tf
  <2>1. ASSUME NEW i \in 1 .. m
        PROVE  /\ Filled(q[i]) /\ q[i] # <<>> /\ q[i][1] = h[i]
               /\ q[i][Len(q[i])].at = Reaches(i)
    <3>1. CASE i = m
      <4>1. q[i] = <<h[i]>>
        BY <1>1, <3>1
      <4>2. <<h[i]>> \in Seq(Candle) /\ <<h[i]>>[1] = h[i] /\ Len(<<h[i]>>) = 1 /\ <<h[i]>> # <<>>
        BY <1>1
      <4> HIDE DEF q, m
      <4> QED
        BY <3>1, <4>1, <4>2, ChainOne DEF Filled
    <3>2. CASE i # m
      <4>1. q[i] = Piece(h[i], Gap(h, i))
        BY <1>1, <3>2 DEF Piece, Gap
      <4>2. i \in 1 .. Len(h) - 1
        <5> HIDE DEF q
        <5>1. Len(h) \in Nat /\ i \in 1 .. Len(h) /\ i # Len(h)
          BY <1>1, <3>2
        <5> QED
          BY <5>1
      <4>3. Gap(h, i) \in Nat /\ h[i].at + Gap(h, i) * tf + tf = h[i + 1].at
        BY <4>2, GapIs
      <4>4. h[i] \in Candle /\ h[i].at \in Int /\ tf \in Int
        BY <1>1, CandleIsInts, TimeframeIs
      <4>5. Gap(h, i) * tf \in Int
        BY <4>3, <4>4
      <4>6. h[i].at + Gap(h, i) * tf = h[i + 1].at - tf
        BY <4>3, <4>4, <4>5
      <4> HIDE DEF q, m
      <4> QED
        BY <3>2, <4>1, <4>3, <4>4, <4>6, PieceIsFilled
    <3> QED
      BY <3>1, <3>2
  <2>2. PICK f : Flattens(f, q) /\ FlattenSeq(q) = f[m]
    <3> HIDE DEF q, m
    <3> QED
      BY <1>1, <1>3, <1>5, FlattenSeqIs
  <2>3. ASSUME NEW i \in 1 .. m
        PROVE  f[i] = IF i = 1 THEN q[i] ELSE f[i - 1] \o q[i]
    <3> HIDE DEF q, m
    <3> QED
      BY <1>3, <2>2 DEF Flattens
  <2> HIDE DEF q
  <2> DEFINE Good(i) == /\ Filled(f[i]) /\ f[i] # <<>>
                        /\ f[i][Len(f[i])].at = Reaches(i)
             P == {k \in Nat : k < m => Good(k + 1)}
  <2>4. 0 \in P
    <3>1. 1 \in 1 .. m /\ f[1] = q[1]
      BY <1>1, <1>5, <2>3
    <3>2. Good(1)
      BY <2>1, <3>1
    <3> HIDE DEF Good
    <3> QED
      BY <3>2
  <2>5. ASSUME NEW k \in P PROVE k + 1 \in P
    <3>1. SUFFICES ASSUME k + 1 < m PROVE Good(k + 2)
      <4> HIDE DEF Good
      <4> QED
        BY <3>1
    <3>2. k \in Nat /\ k + 1 \in 1 .. m /\ k + 2 \in 1 .. m /\ k + 2 # 1 /\ (k + 2) - 1 = k + 1
      <4>1. k \in Nat /\ m \in Nat
        <5> HIDE DEF Good
        <5> QED
          BY <1>1
      <4> HIDE DEF P, m
      <4> QED
        BY <3>1, <4>1
    <3>3. Good(k + 1)
      <4> HIDE DEF Good
      <4> QED
        BY <1>1, <3>1, <3>2
    <3> HIDE DEF P
    <3>4. f[k + 2] = f[k + 1] \o q[k + 2]
      BY <2>3, <3>2
    <3>5. /\ Filled(q[k + 2]) /\ q[k + 2] # <<>> /\ q[k + 2][1] = h[k + 2]
          /\ q[k + 2][Len(q[k + 2])].at = Reaches(k + 2)
      BY <2>1, <3>2
    <3>6. q[k + 2][1].at = f[k + 1][Len(f[k + 1])].at + tf
      <4>1. k + 1 # m /\ (k + 1) + 1 = k + 2
        <5> HIDE DEF m, Good
        <5> QED
          BY <1>1, <3>1, <3>2
      <4>2. f[k + 1][Len(f[k + 1])].at = h[k + 2].at - tf
        BY <3>3, <4>1
      <4>3. h[k + 2].at \in Int /\ tf \in Int
        <5>1. h[k + 2] \in Candle
          BY <1>1, <3>2
        <5> QED
          BY <5>1, CandleIsInts, TimeframeIs
      <4> QED
        BY <3>5, <4>2, <4>3
    <3> DEFINE r == f[k + 1]
               u == q[k + 2]
    <3>7. /\ Filled(r) /\ r # <<>> /\ Filled(u) /\ u # <<>>
          /\ u[1].at = r[Len(r)].at + tf /\ u[Len(u)].at = Reaches(k + 2)
      BY <3>3, <3>5, <3>6
    <3>8. f[k + 2] = r \o u
      BY <3>4
    <3> HIDE DEF r, u, Reaches
    <3>9. /\ Filled(r \o u) /\ r \o u # <<>>
          /\ (r \o u)[Len(r \o u)].at = Reaches(k + 2)
      BY <3>7, FilledJoined
    <3> QED
      BY <3>8, <3>9
  <2>6. P \in SUBSET Nat
    OBVIOUS
  <2>7. P = Nat
    <3> HIDE DEF P
    <3> QED
      BY <2>4, <2>5, <2>6, AllNumbers
  <2>8. Good(m)
    <3>1. m - 1 \in P /\ m - 1 < m /\ (m - 1) + 1 = m
      BY <1>1, <1>5, <2>7
    <3> HIDE DEF Good
    <3> QED
      BY <3>1
  <2> QED
    BY <1>2, <2>2, <2>8
<1> QED
  BY <1>4, <1>5

\* The spawn ends with a history.
HistoryInv ==
  /\ left \in Nat \cup {None}
  /\ ~Spawned => until \in Nat
  /\ history = None \/ Filled(history)
  /\ left = 0 \/ Spawned => Filled(history)
  /\ left = 0 => fetch = "fetched"

LEMMA HistoryStarts == Init => HistoryInv
<1> SUFFICES ASSUME Init PROVE HistoryInv
  OBVIOUS
<1>1. now \in Nat
  BY ClockStarts DEF ClockInv
<1>2. left \in Nat /\ left # 0
  BY CandlesConstants DEF Init
<1>3. left # None
  BY <1>2, CandlesConstants
<1> QED
  BY <1>1, <1>2, <1>3 DEF Init, HistoryInv, Spawned

LEMMA HistoryNext ==
  ASSUME HistoryInv, ClockInv, [Next]_vars
  PROVE  HistoryInv'
<1>1. tf' = tf /\ tf \in Nat \ {0} /\ now \in Nat
  BY ClockNext, TimeframeIs DEF ClockInv
<1>2. \A h : Filled(h)' <=> Filled(h)
  BY <1>1 DEF Filled, Chain, Apart
<1>3. CASE UNCHANGED <<fetch, history, left, until>>
  BY <1>2, <1>3 DEF HistoryInv, Spawned
<1>4. CASE FetchGoesOn
  <2>1. UNCHANGED <<history, left, until>> /\ fetch # "fetched"
    BY <1>4 DEF FetchGoesOn, Fetching, Ask, GivenUp, Wakes, FetchWaits, Retried
  <2> QED
    BY <1>2, <2>1 DEF HistoryInv, Spawned
<1>5. CASE HistoryFetched
  <2>1. /\ ~Spawned /\ fetch = "asked" /\ fetch' = "fetched" /\ left' = left - 1 /\ until' = until
    BY <1>5 DEF HistoryFetched, Succeeds
  <2>2. left \in Nat /\ left > 0 /\ until \in Nat
    BY <2>1, CandlesConstants DEF HistoryInv, Spawned
  <2>3. left' \in Nat /\ left' # None
    BY <2>1, <2>2, CandlesConstants
  <2>4. CASE history = None /\ \E h \in Fetched : history' = FillGaps(h)
    <3>1. Filled(history')
      BY <2>2, <2>4, FillGapsFills
    <3> QED
      BY <1>2, <2>1, <2>2, <2>3, <3>1 DEF HistoryInv, Spawned
  <2>5. CASE (left > 1 \/ history # None) /\ history' = history
    <3>1. left' = 0 => Filled(history)
      BY <2>1, <2>2, <2>5 DEF HistoryInv
    <3> QED
      BY <1>2, <2>1, <2>2, <2>3, <2>5, <3>1 DEF HistoryInv, Spawned
  <2> QED
    BY <1>5, <2>4, <2>5 DEF HistoryFetched
<1>6. CASE NextFetch
  <2>1. until' = now /\ UNCHANGED <<history, left>> /\ left # 0
    BY <1>6, CandlesConstants DEF NextFetch, HistoryInv, Spawned
  <2> QED
    BY <1>1, <1>2, <2>1 DEF HistoryInv, Spawned
<1>7. CASE SpawnEnds
  <2>1. left = 0 /\ left' = None /\ UNCHANGED history
    BY <1>7 DEF SpawnEnds
  <2>2. Filled(history)
    BY <2>1 DEF HistoryInv
  <2>3. left' # 0
    BY <2>1, CandlesConstants
  <2> QED
    BY <1>2, <2>1, <2>2, <2>3 DEF HistoryInv, Spawned
<1>8. ASSUME NEW v, NEW t, NEW p, Notified(v, t, p) PROVE UNCHANGED <<fetch, history, left, until>>
  BY <1>8 DEF Notified, spawn, fetchVars
<1>9. CASE Ended \/ Resubscribed \/ Taken \/ Passes \/ UNCHANGED vars
  BY <1>3, <1>9 DEF Ended, Resubscribed, Taken, Passes, spawn, fetchVars, vars
<1> QED
  BY <1>3, <1>4, <1>5, <1>6, <1>7, <1>8, <1>9 DEF Next, Spawning

LEMMA HistoryAlways == Spec => [](ClockInv /\ HistoryInv)
<1>1. ClockInv /\ HistoryInv /\ [Next]_vars => (ClockInv /\ HistoryInv)'
  BY ClockNext, HistoryNext
<1> QED
  BY <1>1, ClockStarts, HistoryStarts, PTL DEF Spec

\* The history has every period from its first to its last, once.
THEOREM HistoryIsContiguous == Spec => []HistoryContiguous
<1>1. HistoryInv => HistoryContiguous
  BY DEF HistoryInv, Filled, Chain, Apart, HistoryContiguous
<1> QED
  BY <1>1, HistoryAlways, PTL

-----------------------------------------------------------------------------
\* The tracker.

TrackerInv ==
  /\ prev \in Int \cup {None} /\ next \in Int \cup {None} /\ latest \in Int \cup {None}
  /\ Spawned /\ history # <<>> => latest \in Int
  /\ NextIsNextBoundary

\* A live candle closes just before a minute, so never on a boundary.
LEMMA NeverOnBoundary ==
  ASSUME ClockInv, NEW b \in Int, NEW x \in Int
  PROVE  b * Minute + Minute - 1 # x * tf
<1>1. PICK n \in Nat \ {0} : tf = n * Minute
  BY DEF ClockInv
<1> DEFINE y == x * n - b - 1
<1>2. y \in Int /\ Minute \in Nat \ {0, 1}
  BY <1>1, CandlesConstants
<1>3. ASSUME b * Minute + Minute - 1 = x * tf PROVE FALSE
  <2>1. Minute * y = 0 - 1
    BY <1>1, <1>2, <1>3
  <2>2. CASE y >= 0
    <3>1. Minute * y >= 0
      BY <1>2, <2>2
    <3> QED
      BY <2>1, <3>1
  <2>3. CASE y < 0
    <3> HIDE DEF y
    <3>1. Minute * y <= Minute * (0 - 1)
      BY <1>2, <2>3, Multiples
    <3>2. Minute * (0 - 1) = 0 - Minute
      BY <1>2
    <3> QED
      BY <1>2, <2>1, <3>1, <3>2
  <2> QED
    BY <1>2, <2>2, <2>3
<1> QED
  BY <1>3

LEMMA QuotientOf ==
  ASSUME NEW m \in Int, NEW b \in Nat \ {0}
  PROVE  (m * b) \div b = m
<1>1. b * m <= m * b /\ m * b < b * (m + 1) /\ m * b \in Int
  OBVIOUS
<1> QED
  BY <1>1, QuotientIs

LEMMA LoadedIsBoundary ==
  ASSUME ClockInv, NEW h, Filled(h), h # <<>>
  PROVE  /\ LoadedPrev(h) \in Int
         /\ LoadedNext(h) = (LoadedPrev(h) \div tf + 1) * tf
         /\ LoadedPrev(h) = LoadedNext(h) - tf
<1> DEFINE m == (Last(h).at + tf) \div tf
<1>1. tf \in Nat \ {0}
  BY TimeframeIs
<1>2. Last(h).at \in Int
  <2>1. h \in Seq(Candle) /\ Len(h) \in Nat /\ Len(h) # 0
    BY EmptySeq DEF Filled
  <2>2. Len(h) \in 1 .. Len(h)
    BY <2>1
  <2>3. h[Len(h)] \in Candle
    BY <2>1, <2>2, ElementOfSeq
  <2> QED
    BY <2>3, CandleIsInts DEF Last
<1>3. m \in Int
  BY <1>1, <1>2, Quotient
<1>4. LoadedPrev(h) = m * tf /\ LoadedNext(h) = m * tf + tf
  BY DEF LoadedPrev, LoadedNext
<1> HIDE DEF m
<1>5. (m * tf) \div tf = m
  BY <1>1, <1>3, QuotientOf
<1>6. (m + 1) * tf = m * tf + tf /\ m * tf \in Int
  BY <1>1, <1>3
<1> QED
  BY <1>1, <1>4, <1>5, <1>6

\* From one boundary the tracker goes to the next after what it is given.
LEMMA DigestKeeps ==
  ASSUME ClockInv, latest \in Int, next = (latest \div tf + 1) * tf, prev = next - tf,
         NEW ts \in Int, \A x \in Int : ts # x * tf,
         Digest(ts), latest' = IF latest = None \/ ts > latest THEN ts ELSE latest
  PROVE  latest' \in Int /\ next' = (latest' \div tf + 1) * tf /\ prev' = next' - tf
<1> DEFINE m == latest \div tf
           d == ts \div tf
           X == (m + 1) * tf
<1>1. tf \in Nat \ {0} /\ None \notin Int
  BY TimeframeIs, CandlesConstants
<1>2. /\ m \in Int /\ tf * m <= latest /\ latest < tf * (m + 1)
      /\ d \in Int /\ tf * d <= ts /\ ts < tf * (d + 1)
  BY <1>1, Quotient
<1>3. next = X /\ X = tf * (m + 1) /\ X \in Int /\ m + 1 \in Int
  BY <1>1, <1>2
<1> HIDE DEF m, d
<1>4. ts # next
  BY <1>3
<1> HIDE DEF X
<1>5. CASE ts > next
  <2>1. latest' = ts
    BY <1>2, <1>3, <1>5
  <2>2. Closing(ts)
    BY <1>1, <1>3, <1>5 DEF Digest
  <2> DEFINE e == d - (m + 1)
  <2>3. e \in Int /\ e + 1 \in Int /\ tf * e = tf * d - X /\ tf * (e + 1) = tf * (d + 1) - X
    BY <1>1, <1>2, <1>3
  <2>4. tf * e <= ts - next /\ ts - next < tf * (e + 1)
    <3> DEFINE u == tf * d
               v == tf * (d + 1)
    <3>1. u \in Int /\ v \in Int /\ u <= ts /\ ts < v
      BY <1>1, <1>2
    <3>2. tf * e = u - X /\ tf * (e + 1) = v - X
      BY <2>3
    <3> HIDE DEF u, v, e
    <3> QED
      BY <1>3, <3>1, <3>2
  <2>5. (ts - next) \div tf = e
    <3>1. ts - next \in Int
      BY <1>3
    <3> HIDE DEF e
    <3> QED
      BY <1>1, <2>3, <2>4, <3>1, QuotientIs
  <2>6. next' = X + (e + 1) * tf /\ prev' = next' - tf
    BY <1>3, <2>2, <2>5 DEF Closing
  <2>7. X + (e + 1) * tf = (d + 1) * tf
    BY <1>1, <1>2, <1>3, <2>3
  <2> QED
    BY <2>1, <2>6, <2>7 DEF d
<1>6. CASE ts < next
  <2>1. UNCHANGED <<prev, next>>
    BY <1>1, <1>3, <1>6 DEF Digest
  <2>2. latest' \in Int /\ tf * m <= latest' /\ latest' < tf * (m + 1)
    <3> DEFINE u == tf * m
    <3>1. u \in Int /\ u <= latest
      BY <1>1, <1>2
    <3> HIDE DEF u
    <3>2. u <= latest' /\ latest' \in Int /\ latest' < X
      BY <1>1, <1>2, <1>3, <1>6, <3>1
    <3> QED
      BY <1>3, <3>2 DEF u
  <2>3. latest' \div tf = m
    BY <1>1, <1>2, <2>2, QuotientIs
  <2> QED
    BY <1>3, <2>1, <2>2, <2>3 DEF X
<1> QED
  BY <1>3, <1>4, <1>5, <1>6

LEMMA TakenTracker ==
  ASSUME TrackerInv, StreamInv, ClockInv, HistoryInv, Taken
  PROVE  TrackerInv'
<1> DEFINE ts == Head(chan).at + Minute - 1
           bounded == Spawned /\ history # <<>>
<1>1. /\ UNCHANGED <<tf, left, history>> /\ Digest(ts)
      /\ latest' = IF latest = None \/ ts > latest THEN ts ELSE latest
  BY DEF Taken, spawn
<1>2. PICK b \in Int : ts = b * Minute + Minute - 1
  <2>1. Head(chan) \in Minutely
    <3>1. chan \in Seq(Minutely) /\ chan # <<>>
      BY DEF StreamInv, Taken
    <3> QED
      BY <3>1, HeadTailProperties
  <2> QED
    BY <2>1 DEF Minutely
<1>3. ts \in Int /\ \A x \in Int : ts # x * tf
  <2>1. ts \in Int
    BY <1>2, CandlesConstants
  <2> HIDE DEF ts
  <2> QED
    BY <1>2, <2>1, NeverOnBoundary
<1>4. tf \in Nat \ {0} /\ None \notin Int
  BY TimeframeIs, CandlesConstants
<1> HIDE DEF ts
<1>5. /\ prev' \in Int \cup {None} /\ next' \in Int \cup {None}
      /\ latest' \in Int \cup {None}
  <2>1. CASE next = None
    BY <1>1, <1>3, <2>1 DEF Digest, TrackerInv
  <2>2. CASE next # None /\ ts > next
    <3> DEFINE n == (ts - next) \div tf + 1
    <3>1. next \in Int /\ ts - next \in Int
      BY <1>3, <2>2 DEF TrackerInv
    <3>2. n \in Int
      BY <1>4, <3>1, Quotient
    <3>3. next' = next + n * tf /\ prev' = next' - tf
      BY <1>1, <2>2 DEF Digest, Closing
    <3> HIDE DEF n
    <3>4. next' \in Int /\ prev' \in Int
      BY <1>4, <3>1, <3>2, <3>3
    <3> QED
      BY <1>1, <1>3, <3>4 DEF TrackerInv
  <2>3. CASE next # None /\ ~(ts > next)
    BY <1>1, <1>3, <2>3 DEF Digest, TrackerInv
  <2> QED
    BY <2>1, <2>2, <2>3
<1>6. (Spawned /\ history # <<>>)' <=> Spawned /\ history # <<>>
  BY <1>1 DEF Spawned
<1>7. ASSUME Spawned /\ history # <<>>
      PROVE  latest' \in Int /\ next' = (latest' \div tf + 1) * tf /\ prev' = next' - tf
  <2>1. latest \in Int /\ next = (latest \div tf + 1) * tf /\ prev = next - tf
    BY <1>7 DEF TrackerInv, NextIsNextBoundary
  <2> QED
    BY <1>1, <1>3, <2>1, DigestKeeps
<1> QED
  BY <1>1, <1>5, <1>6, <1>7 DEF TrackerInv, NextIsNextBoundary

LEMMA TrackerNext ==
  ASSUME TrackerInv, StreamInv, ClockInv, HistoryInv, [Next]_vars
  PROVE  TrackerInv'
<1>1. tf' = tf
  BY ClockNext
<1>2. CASE UNCHANGED <<tracker, left, history>>
  BY <1>1, <1>2 DEF tracker, TrackerInv, NextIsNextBoundary, Spawned
<1>3. CASE FetchGoesOn
  BY <1>2, <1>3 DEF FetchGoesOn, Waits
<1>4. CASE HistoryFetched \/ NextFetch
  <2>1. /\ ~Spawned /\ left' \in Int /\ UNCHANGED tracker
    <3>1. ~Spawned /\ left' \in {left, left - 1} /\ UNCHANGED tracker
      BY <1>4 DEF HistoryFetched, NextFetch, Waits
    <3> QED
      BY <3>1 DEF HistoryInv, Spawned
  <2>2. ~Spawned'
    BY <2>1, CandlesConstants DEF Spawned
  <2> QED
    BY <2>1, <2>2 DEF tracker, TrackerInv, NextIsNextBoundary
<1>5. CASE SpawnEnds
  <2>1. /\ left = 0 /\ UNCHANGED history
        /\ prev' = LoadedPrev(history) /\ next' = LoadedNext(history) /\ latest' = prev'
    BY <1>5 DEF SpawnEnds
  <2>2. Filled(history)
    BY <2>1 DEF HistoryInv
  <2>3. CASE history = <<>>
    <3>1. prev' = None /\ next' = None /\ latest' = None
      BY <2>1, <2>3 DEF LoadedPrev, LoadedNext
    <3> QED
      BY <2>1, <2>3, <3>1 DEF TrackerInv, NextIsNextBoundary
  <2>4. CASE history # <<>>
    <3>1. /\ prev' \in Int /\ next' = (prev' \div tf + 1) * tf /\ prev' = next' - tf
      BY <2>1, <2>2, <2>4, LoadedIsBoundary
    <3>2. next' \in Int
      <4>1. prev' \div tf \in Int /\ tf \in Int
        BY <3>1, Quotient, TimeframeIs
      <4> QED
        BY <3>1, <4>1
    <3> QED
      BY <1>1, <2>1, <3>1, <3>2 DEF TrackerInv, NextIsNextBoundary
  <2> QED
    BY <2>3, <2>4
<1>6. ASSUME NEW v, NEW t, NEW p, Notified(v, t, p) PROVE UNCHANGED <<tracker, left, history>>
  BY <1>6 DEF Notified, spawn
<1>7. CASE Ended \/ Resubscribed \/ Passes \/ UNCHANGED vars
  BY <1>2, <1>7 DEF Ended, Resubscribed, Passes, spawn, vars
<1>8. CASE Taken
  BY <1>8, TakenTracker
<1> QED
  BY <1>2, <1>3, <1>4, <1>5, <1>6, <1>7, <1>8 DEF Next, Spawning

-----------------------------------------------------------------------------
\* All of it together.

CandlesInv == FetchInv /\ ClockInv /\ StreamInv /\ HistoryInv /\ TrackerInv

LEMMA CandlesAlways == Spec => []CandlesInv
<1>1. Init => CandlesInv
  <2>1. Init => TrackerInv
    BY CandlesConstants DEF Init, TrackerInv, NextIsNextBoundary, Spawned
  <2> QED
    BY <2>1, FetchStarts, ClockStarts, StreamStarts, HistoryStarts DEF CandlesInv
<1>2. CandlesInv /\ [Next]_vars => CandlesInv'
  BY FetchNext, ClockNext, StreamNext, HistoryNext, TrackerNext DEF CandlesInv
<1> QED
  BY <1>1, <1>2, PTL DEF Spec

\* The variables have their types.
THEOREM CandlesTypeCorrect == Spec => []TypeOK
<1>1. CandlesInv => TypeOK
  <2> SUFFICES ASSUME CandlesInv PROVE TypeOK
    OBVIOUS
  <2>1. bucket = None <=> candle = None
    <3>1. None \notin Minutely
      BY CandlesConstants DEF Minutely
    <3> QED
      BY <3>1 DEF CandlesInv, StreamInv
  <2>2. tf \in Nat
    BY TimeframeIs DEF CandlesInv
  <2> QED
    BY <2>1, <2>2 DEF CandlesInv, FetchInv, ClockInv, StreamInv, TrackerInv, TypeOK
<1> QED
  BY <1>1, CandlesAlways, PTL

\* A tracker that was loaded closes the period it is in at the next boundary of
\* its timeframe, whatever was missed between history and stream or between two
\* subscriptions: Closing goes from boundary to boundary, however far the
\* candle is ahead.
THEOREM ClosesAtNextBoundary == Spec => []NextIsNextBoundary
<1>1. CandlesInv => NextIsNextBoundary
  BY DEF CandlesInv, TrackerInv
<1> QED
  BY <1>1, CandlesAlways, PTL

=============================================================================

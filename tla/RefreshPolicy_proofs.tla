------------------------- MODULE RefreshPolicy_proofs -------------------------
(***************************************************************************)
(* Facts about the schedule arithmetic that the proofs about FeedSchedule  *)
(* and RefreshJobs rest on, and the retry schedules of refresh_jobs and of *)
(* the fetcher.                                                            *)
(***************************************************************************)
EXTENDS RetrySchedule, TLAPS

\* The multiplier is one of the seven powers of two of the code's table.
LEMMA MultiplierValues ==
    ASSUME NEW n \in Nat
    PROVE  Multiplier(n) \in {1, 2, 4, 8, 16, 32, 64}
<1> DEFINE k == AtMost(n, 6)
<1>1. k \in 0 .. 6
  BY DEF AtMost
<1>2. k = 0 \/ k = 1 \/ k = 2 \/ k = 3 \/ k = 4 \/ k = 5 \/ k = 6
  BY <1>1
<1> QED
  BY <1>2 DEF Multiplier

\* One more failure never lowers the multiplier.
LEMMA MultiplierGrows ==
    ASSUME NEW n \in Nat
    PROVE  Multiplier(n) <= Multiplier(n + 1)
<1>1. n = 0 \/ n = 1 \/ n = 2 \/ n = 3 \/ n = 4 \/ n = 5 \/ n >= 6
  OBVIOUS
<1> QED
  BY <1>1 DEF Multiplier, AtMost

LEMMA HealthFactorValues ==
    ASSUME NEW h \in Health
    PROVE  HealthFactor(h) \in {1, 3, 6}
  BY DEF Health, HealthFactor

LEMMA HealthAfterType ==
    ASSUME NEW n \in Nat
    PROVE  HealthAfter(n) \in Health
  BY DEF HealthAfter, Health

\* One more failure never lowers the factor of the health that goes with it.
LEMMA HealthFactorGrows ==
    ASSUME NEW n \in Nat
    PROVE  HealthFactor(HealthAfter(n)) <= HealthFactor(HealthAfter(n + 1))
<1>1. CASE n = 0
  BY <1>1 DEF HealthAfter, HealthFactor
<1>2. CASE n \in {1, 2}
  BY <1>2 DEF HealthAfter, HealthFactor
<1>3. CASE n >= 3
  BY <1>3 DEF HealthAfter, HealthFactor
<1> QED
  BY <1>1, <1>2, <1>3

\* A product of naturals is a natural, and grows with either factor.
LEMMA ProductGrows ==
    ASSUME NEW a \in Nat, NEW b \in Nat, NEW c \in Nat, a <= b
    PROVE  a * c <= b * c
  OBVIOUS

\* Every wait is between one unit and a day.
LEMMA WaitBounded ==
    ASSUME NEW isNew \in BOOLEAN, NEW h \in Health, NEW n \in Nat,
           NEW i \in Nat \ {0}
    PROVE  ComputeNextScheduledFetch(isNew, h, n, i) \in 1 .. DayCap
<1> DEFINE base == IF isNew THEN i ELSE i * HealthFactor(h)
           m    == Multiplier(n)
<1>1. base \in Nat \ {0}
  BY HealthFactorValues
<1>2. m \in {1, 2, 4, 8, 16, 32, 64}
  BY MultiplierValues
<1>3. base * m \in Nat \ {0}
  <2> HIDE DEF base, m
  <2> QED  BY <1>1, <1>2
<1>4. ComputeNextScheduledFetch(isNew, h, n, i) = AtMost(base * m, DayCap)
  BY DEF ComputeNextScheduledFetch
<1> HIDE DEF base, m
<1> QED
  BY <1>3, <1>4, DayCapAssumption DEF AtMost

COROLLARY NewWaitBounded ==
    ASSUME NEW h \in Health, NEW n \in Nat, NEW i \in Nat \ {0}
    PROVE  ComputeNextScheduledFetch(TRUE, h, n, i) \in 1 .. DayCap
<1>1. \A b \in BOOLEAN : ComputeNextScheduledFetch(b, h, n, i) \in 1 .. DayCap
  BY WaitBounded
<1> QED
  BY <1>1, Zenon

\* A feed that was never fetched waits no longer than one that was.
LEMMA NewWaitsLess ==
    ASSUME NEW isNew \in BOOLEAN, NEW h \in Health, NEW n \in Nat,
           NEW i \in Nat \ {0}
    PROVE  ComputeNextScheduledFetch(TRUE, h, n, i)
              <= ComputeNextScheduledFetch(isNew, h, n, i)
<1> DEFINE base == IF isNew THEN i ELSE i * HealthFactor(h)
           m    == Multiplier(n)
<1>1. base \in Nat /\ i <= base
  BY HealthFactorValues
<1>2. m \in Nat
  BY MultiplierValues
<1>3. i * m <= base * m /\ i * m \in Nat /\ base * m \in Nat
  <2> HIDE DEF base, m
  <2> QED  BY <1>1, <1>2, ProductGrows
<1>4. /\ ComputeNextScheduledFetch(isNew, h, n, i) = AtMost(base * m, DayCap)
      /\ ComputeNextScheduledFetch(TRUE, h, n, i) = AtMost(i * m, DayCap)
  BY DEF ComputeNextScheduledFetch
<1>5. AtMost(i * m, DayCap) <= AtMost(base * m, DayCap)
  <2> HIDE DEF base, m
  <2> QED  BY <1>3, DayCapAssumption DEF AtMost
<1> HIDE DEF base, m
<1> QED
  BY <1>4, <1>5, Zenon

\* One more failure never shortens the wait.
LEMMA WaitGrows ==
    ASSUME NEW isNew \in BOOLEAN, NEW n \in Nat, NEW i \in Nat \ {0}
    PROVE  ComputeNextScheduledFetch(isNew, HealthAfter(n), n, i)
              <= ComputeNextScheduledFetch(isNew, HealthAfter(n + 1), n + 1, i)
<1> DEFINE b1 == IF isNew THEN i ELSE i * HealthFactor(HealthAfter(n))
           b2 == IF isNew THEN i ELSE i * HealthFactor(HealthAfter(n + 1))
           m1 == Multiplier(n)
           m2 == Multiplier(n + 1)
<1>1. b1 \in Nat /\ b2 \in Nat /\ b1 <= b2
  <2>1. /\ HealthFactor(HealthAfter(n)) \in {1, 3, 6}
        /\ HealthFactor(HealthAfter(n + 1)) \in {1, 3, 6}
    BY HealthFactorValues, HealthAfterType
  <2> QED  BY <2>1, HealthFactorGrows
<1>2. m1 \in Nat /\ m2 \in Nat /\ m1 <= m2
  BY MultiplierValues, MultiplierGrows
<1>3. b1 * m1 <= b2 * m2 /\ b1 * m1 \in Nat /\ b2 * m2 \in Nat
  <2> HIDE DEF b1, b2, m1, m2
  <2>1. b1 * m1 <= b2 * m1
    BY <1>1, <1>2, ProductGrows
  <2>2. m1 * b2 <= m2 * b2
    BY <1>1, <1>2, ProductGrows
  <2>3. m1 * b2 = b2 * m1 /\ m2 * b2 = b2 * m2
    BY <1>1, <1>2
  <2> QED  BY <1>1, <1>2, <2>1, <2>2, <2>3
<1>4. /\ ComputeNextScheduledFetch(isNew, HealthAfter(n), n, i) = AtMost(b1 * m1, DayCap)
      /\ ComputeNextScheduledFetch(isNew, HealthAfter(n + 1), n + 1, i)
            = AtMost(b2 * m2, DayCap)
  BY DEF ComputeNextScheduledFetch
<1> HIDE DEF b1, b2, m1, m2
<1> QED
  BY <1>3, <1>4, DayCapAssumption DEF AtMost

-----------------------------------------------------------------------------
(***************************************************************************)
(* What the retry schedules promise for any feed, failures and hash.       *)
(***************************************************************************)

LEMMA DayIs ==
    Day \in Nat /\ Day = 86400
  BY DEF Day, Hour

LEMMA RetryBaseValues ==
    ASSUME NEW reason \in RefreshReasons, NEW h \in Health
    PROVE  /\ RetryBase(reason, h) \in Nat
           /\ 900 <= RetryBase(reason, h) /\ RetryBase(reason, h) <= 21600
<1>1. HealthFactor(h) \in {1, 3, 6}
  BY HealthFactorValues
<1>2. RetryBase(reason, h) \in {900, 1800, 3600, 10800, 21600}
  BY <1>1 DEF RetryBase, RefreshReasons, Hour
<1> QED
  BY <1>2

\* A wait is no shorter than its base, and no longer than a day.
LEMMA CappedBounds ==
    ASSUME NEW base \in Nat, base <= 21600, NEW n \in Nat
    PROVE  /\ Capped(base, n) \in Nat
           /\ base <= Capped(base, n) /\ Capped(base, n) <= Day
<1> DEFINE m == Multiplier(n)
<1>1. m \in {1, 2, 4, 8, 16, 32, 64}
  BY MultiplierValues
<1>2. base * m \in Nat /\ base <= base * m
  <2> HIDE DEF m
  <2> QED  BY <1>1
<1>3. Capped(base, n) = AtMost(base * m, Day)
  BY DEF Capped
<1>4. ASSUME NEW product \in Nat, base <= product
      PROVE  /\ AtMost(product, Day) \in Nat
             /\ base <= AtMost(product, Day) /\ AtMost(product, Day) <= Day
  BY <1>4, DayIs DEF AtMost
<1> HIDE DEF m
<1> QED
  BY <1>2, <1>3, <1>4

\* One more failure never lowers the wait.
LEMMA CappedGrows ==
    ASSUME NEW base \in Nat, NEW n \in Nat
    PROVE  Capped(base, n) <= Capped(base, n + 1)
<1> DEFINE m == Multiplier(n)
           k == Multiplier(n + 1)
<1>1. m \in Nat /\ k \in Nat /\ m <= k
  BY MultiplierValues, MultiplierGrows, n + 1 \in Nat
<1>2. base * m \in Nat /\ base * k \in Nat /\ base * m <= base * k
  <2> HIDE DEF m, k
  <2>1. m * base <= k * base
    BY <1>1, ProductGrows
  <2> QED  BY <1>1, <2>1
<1>3. Capped(base, n) = AtMost(base * m, Day) /\ Capped(base, n + 1) = AtMost(base * k, Day)
  BY DEF Capped
<1>4. ASSUME NEW before \in Nat, NEW after \in Nat, before <= after
      PROVE  AtMost(before, Day) <= AtMost(after, Day)
  BY <1>4, DayIs DEF AtMost
<1> HIDE DEF m, k
<1> QED
  BY <1>2, <1>3, <1>4

\* The jitter is less than a quarter of an hour.
LEMMA JitterBounds ==
    ASSUME NEW raw \in Nat, NEW wait \in Nat, 900 <= wait
    PROVE  Jitter(raw, wait) \in Nat /\ Jitter(raw, wait) < 900
<1> DEFINE cap == JitterCap(wait)
<1>1. cap \in Nat /\ 90 <= cap /\ cap <= 900
  <2>1. wait \div 10 \in Nat /\ 90 <= wait \div 10
    OBVIOUS
  <2>2. ASSUME NEW tenth \in Nat, 90 <= tenth
        PROVE  AtMost(tenth, 900) \in Nat /\ 90 <= AtMost(tenth, 900)
               /\ AtMost(tenth, 900) <= 900
    BY <2>2 DEF AtMost
  <2> QED
    BY <2>1, <2>2 DEF JitterCap
<1>2. Jitter(raw, wait) = raw % cap
  BY <1>1 DEF Jitter
<1> HIDE DEF cap
<1>3. raw % cap \in Nat /\ raw % cap < cap
  BY <1>1
<1> QED
  BY <1>1, <1>2, <1>3

\* compute_next_refresh_at: the next attempt is never before the base of its reason has
\* passed, nor more than a day and a quarter of an hour away.
THEOREM RetryIsBounded ==
    ASSUME NEW reason \in RefreshReasons, NEW h \in Health, NEW n \in Nat, NEW raw \in Nat
    PROVE  /\ ComputeNextRefreshAt(reason, h, n, raw) \in Nat
           /\ RetryBase(reason, h) <= ComputeNextRefreshAt(reason, h, n, raw)
           /\ ComputeNextRefreshAt(reason, h, n, raw) < Day + 900
<1> DEFINE base == RetryBase(reason, h)
           wait == Capped(base, n)
<1>1. base \in Nat /\ 900 <= base /\ base <= 21600
  BY RetryBaseValues
<1>2. ComputeNextRefreshAt(reason, h, n, raw) = wait + Jitter(raw, wait)
  BY DEF ComputeNextRefreshAt
<1> HIDE DEF base
<1>3. wait \in Nat /\ base <= wait /\ wait <= Day
  BY <1>1, CappedBounds
<1> HIDE DEF wait
<1>4. Jitter(raw, wait) \in Nat /\ Jitter(raw, wait) < 900
  BY <1>1, <1>3, JitterBounds
<1>5. /\ wait + Jitter(raw, wait) \in Nat
      /\ base <= wait + Jitter(raw, wait) /\ wait + Jitter(raw, wait) < Day + 900
  BY <1>1, <1>3, <1>4, DayIs
<1> QED
  BY <1>2, <1>5 DEF base

\* compute_next_refresh_at: another failure brings the next attempt no closer, but for
\* the jitter, whatever the hashes of the two are.
THEOREM RetryBacksOff ==
    ASSUME NEW reason \in RefreshReasons, NEW h \in Health, NEW n \in Nat,
           NEW raw \in Nat, NEW other \in Nat
    PROVE  ComputeNextRefreshAt(reason, h, n, raw)
               < ComputeNextRefreshAt(reason, h, n + 1, other) + 900
<1> DEFINE base == RetryBase(reason, h)
           wait == Capped(base, n)
           next == Capped(base, n + 1)
<1>1. base \in Nat /\ 900 <= base /\ base <= 21600
  BY RetryBaseValues
<1>2. /\ ComputeNextRefreshAt(reason, h, n, raw) = wait + Jitter(raw, wait)
      /\ ComputeNextRefreshAt(reason, h, n + 1, other) = next + Jitter(other, next)
  BY DEF ComputeNextRefreshAt
<1> HIDE DEF base
<1>3. wait \in Nat /\ next \in Nat /\ 900 <= wait /\ 900 <= next /\ wait <= next
  <2>1. n + 1 \in Nat
    OBVIOUS
  <2>2. wait \in Nat /\ base <= wait /\ next \in Nat /\ base <= next
    BY <1>1, <2>1, CappedBounds
  <2>3. wait <= next
    BY <1>1, CappedGrows
  <2> QED
    BY <1>1, <2>2, <2>3
<1> HIDE DEF wait, next
<1>4. Jitter(raw, wait) \in Nat /\ Jitter(raw, wait) < 900 /\ Jitter(other, next) \in Nat
  BY <1>3, JitterBounds
<1> QED
  BY <1>2, <1>3, <1>4

\* The copy of the schedule in the crate fetcher says of a known feed what storage says
\* with an interval of an hour, and of a new one with the default of a quarter.
THEOREM CopiesAgree ==
    ASSUME DayCap = Day, NEW h \in Health, NEW n \in Nat
    PROVE  /\ FetcherNextFetch(FALSE, h, n) = ComputeNextScheduledFetch(FALSE, h, n, Hour)
           /\ FetcherNextFetch(TRUE, h, n) = ComputeNextScheduledFetch(TRUE, h, n, 900)
  BY DEF FetcherNextFetch, ComputeNextScheduledFetch, Capped

=============================================================================

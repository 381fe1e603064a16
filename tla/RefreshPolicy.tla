---------------------------- MODULE RefreshPolicy ----------------------------
(***************************************************************************)
(* The arithmetic of storage's refresh schedule: how the health of a feed  *)
(* follows from its failures, and how long the feed then waits.  One unit  *)
(* of time stands for a fixed number of minutes; DayCap is how many units  *)
(* the code's 24 hours are.                                                *)
(***************************************************************************)
EXTENDS Integers

CONSTANT DayCap

ASSUME DayCapAssumption == DayCap \in Nat \ {0}

Health == {"Healthy", "Stale", "Failing"}

AtMost(a, b) == IF a <= b THEN a ELSE b

\* The health record_fetch_result stores next to a failure count.
HealthAfter(failures) ==
    IF failures = 0 THEN "Healthy"
    ELSE IF failures >= 3 THEN "Failing" ELSE "Stale"

\* A feed in poor health starts from a longer interval.
HealthFactor(health) ==
    CASE health = "Healthy" -> 1
      [] health = "Stale"   -> 3
      [] health = "Failing" -> 6

\* 2^min(failures, 6)
Multiplier(failures) == <<1, 2, 4, 8, 16, 32, 64>>[AtMost(failures, 6) + 1]

\* Mutants of ComputeNextScheduledFetch: no cap; the factor is applied to new feeds.
UncappedNextFetch(isNew, health, failures, interval) ==
    LET base == IF isNew THEN interval ELSE interval * HealthFactor(health)
    IN  base * Multiplier(failures)

FactorForNewFeeds(isNew, health, failures, interval) ==
    LET base == IF isNew THEN interval * HealthFactor(health) ELSE interval
    IN  AtMost(base * Multiplier(failures), DayCap)

\* The wait until the next fetch, in units from now.
ComputeNextScheduledFetch(isNew, health, failures, interval) ==
    LET base == IF isNew THEN interval ELSE interval * HealthFactor(health)
    IN  AtMost(base * Multiplier(failures), DayCap)

=============================================================================

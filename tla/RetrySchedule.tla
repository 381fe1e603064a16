---------------------------- MODULE RetrySchedule -----------------------------
(***************************************************************************)
(* The two other schedules of the code, in seconds: the next attempt that  *)
(* the server writes into refresh_jobs (crate notifications), and the one  *)
(* of the crate fetcher.  Neither knows the interval that the user chose.  *)
(***************************************************************************)
EXTENDS RefreshPolicy

RefreshReasons == {"Manual", "CatchUp", "Periodic"}

Hour == 3600
Day == 24 * Hour

RetryBase(reason, health) ==
    CASE reason = "Manual" -> 1800
      [] reason = "CatchUp" -> 900
      [] reason = "Periodic" -> Hour * HealthFactor(health)

\* Exponential, and at most a day.
Capped(base, failures) == AtMost(base * Multiplier(failures), Day)

\* A tenth of the wait, and at most a quarter of an hour.
JitterCap(wait) == AtMost(wait \div 10, 900)

\* raw is a hash of the feed and its failures.
Jitter(raw, wait) == IF JitterCap(wait) = 0 THEN 0 ELSE raw % JitterCap(wait)

ComputeNextRefreshAt(reason, health, failures, raw) ==
    LET wait == Capped(RetryBase(reason, health), failures)
    IN  wait + Jitter(raw, wait)

FetcherNextFetch(isNew, health, failures) ==
    Capped(IF isNew THEN 900 ELSE Hour * HealthFactor(health), failures)

=============================================================================

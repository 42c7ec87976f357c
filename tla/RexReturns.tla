------------------------------- MODULE RexReturns -----------------------------
(***************************************************************************)
(* The return pool of REX (update_rex_pool and add_to_rex_return_pool in   *)
(* rex.cpp): fees are collected in buckets of twelve hours, and each       *)
(* bucket flows into the REX pool in equal parts over the following thirty *)
(* days.  Nobody calls the contract regularly, so any number of parts may  *)
(* be overdue, and buckets complete or empty, when it looks again.         *)
(*                                                                         *)
(* Times count distribution intervals; both functions round the present    *)
(* time down to whole intervals or more.                                   *)
(***************************************************************************)
EXTENDS LedgerArithmetic, FiniteSetsExt

CONSTANTS
  TotalIntervals,      \* parts a bucket is returned in
  IntervalsPerBucket,  \* length of the time a bucket collects fees
  None,                \* pending_bucket_time: no pending bucket
  LastFee,             \* the last time a fee is considered
  LastTime,            \* the last time considered
  MaxFees              \* bound on all fees

RexReturnsConstants ==
  /\ TotalIntervals \in Nat \ {0} /\ IntervalsPerBucket \in Nat \ {0}
  /\ LastFee \in Nat /\ LastTime \in Nat /\ TotalIntervals <= LastTime /\ MaxFees \in Nat
  /\ None \notin Nat

VARIABLES
  now,         \* intervals since the epoch
  pool,        \* rex_return_pool; exists once a fee came in
  buckets,     \* rex_return_buckets::return_buckets, from times to rates
  returned,    \* what was added to rex_pool::total_unlent
  fees         \* what came in

vars == <<now, pool, buckets, returned, fees>>

\* time_point_sec::min()
Epoch == 0

\* The cached time of the oldest bucket.
Earliest(times) == IF times = {} THEN Epoch ELSE Min(times)

-----------------------------------------------------------------------------

Init ==
  /\ now = TotalIntervals
  /\ pool = [exists |-> FALSE, last_dist_time |-> Epoch, pending_bucket_time |-> None,
             oldest_bucket_time |-> Epoch, pending_bucket_proceeds |-> 0,
             current_rate_of_increase |-> 0, proceeds |-> 0]
  /\ buckets = << >>
  /\ returned = 0
  /\ fees = 0

\* The pending bucket is complete.
Completes(rp) == rp.pending_bucket_time # None /\ rp.pending_bucket_time <= now

\* What does not divide into equal parts is returned at once.
Remainder(rp) == rp.pending_bucket_proceeds % TotalIntervals

NewRate(rp) == (rp.pending_bucket_proceeds - Remainder(rp)) \div TotalIntervals

\* The parts of a new bucket that are overdue when it is completed.
Overdue(rp) == now - rp.pending_bucket_time

\* The cached time of the oldest bucket, with the new one.
OldestTime(rp) == Min({rp.pending_bucket_time, rp.oldest_bucket_time})

\* The pool and its buckets after the pending bucket was completed, and the
\* amount to return for everything that flowed since the last time.
Distributed(rp, bs) ==
  LET flowed == rp.current_rate_of_increase * (now - rp.last_dist_time)
      change == IF Completes(rp) THEN flowed + Remainder(rp) + NewRate(rp) * Overdue(rp) ELSE flowed
      advanced == [rp EXCEPT !.proceeds = @ - change, !.last_dist_time = now]
  IN  IF ~Completes(rp)
      THEN [pool |-> advanced, buckets |-> bs, change |-> change]
      ELSE [pool |-> [advanced EXCEPT
                        !.current_rate_of_increase = @ + NewRate(rp),
                        !.pending_bucket_proceeds = 0,
                        !.pending_bucket_time = None,
                        !.oldest_bucket_time = OldestTime(rp)],
            buckets |-> [t \in DOMAIN bs \union {rp.pending_bucket_time} |->
                           IF t = rp.pending_bucket_time THEN NewRate(rp) ELSE bs[t]],
            change |-> change]

\* The buckets that have flowed for their whole time.
Expired(bs) == { t \in DOMAIN bs : t <= now - TotalIntervals }

\* Faulty: all that a bucket returned is taken back.
OvertimeSinceStart(t) == now - t

\* The parts of an expired bucket that were returned beyond its end.
Overtime(t) == now - (t + TotalIntervals)

\* Expired buckets are dropped, and what was returned for the time after
\* their end is taken back.
Dropped(d) ==
  LET expired == Expired(d.buckets)
      left == DOMAIN d.buckets \ expired
      surplus == SumOf([t \in expired |-> d.buckets[t] * Overtime(t)])
  IN  IF d.pool.oldest_bucket_time > now - TotalIntervals
      THEN d
      ELSE [pool |-> [d.pool EXCEPT
                        !.oldest_bucket_time = Earliest(left),
                        !.current_rate_of_increase = @ - SumOf([t \in expired |-> d.buckets[t]]),
                        !.proceeds = @ + surplus],
            buckets |-> [t \in left |-> d.buckets[t]],
            change |-> d.change - surplus]

\* What the pool cannot cover is not returned.
Capped(d) ==
  IF d.change > 0 /\ d.pool.proceeds < 0
  THEN [d EXCEPT !.change = @ + d.pool.proceeds, !.pool.proceeds = 0]
  ELSE d

\* update_rex_pool
Updated(rp, bs) ==
  IF ~rp.exists \/ now <= rp.last_dist_time
  THEN [pool |-> rp, buckets |-> bs, change |-> 0]
  ELSE Capped(Dropped(Distributed(rp, bs)))

ReturnedBy(d) == returned + IF d.change > 0 THEN d.change ELSE 0

\* Any REX action, and rexexec by anybody.
UpdateRexPool ==
  LET d == Updated(pool, buckets)
  IN  /\ pool' = d.pool
      /\ buckets' = d.buckets
      /\ returned' = ReturnedBy(d)
      /\ UNCHANGED <<now, fees>>

\* The end of the present bucket's time.
BucketEnd == (now \div IntervalsPerBucket + 1) * IntervalsPerBucket

\* add_to_rex_return_pool
AddToRexReturnPool(fee) ==
  LET d == Updated(pool, buckets)
  IN  /\ pool' =
           [d.pool EXCEPT
              !.exists = TRUE,
              !.last_dist_time = IF d.pool.exists THEN @ ELSE BucketEnd,
              !.pending_bucket_proceeds = @ + fee,
              !.proceeds = @ + fee,
              !.pending_bucket_time = IF @ = None THEN BucketEnd ELSE @]
      /\ buckets' = d.buckets
      /\ returned' = ReturnedBy(d)
      /\ fees' = fees + fee
      /\ UNCHANGED now

Fee == now <= LastFee /\ \E fee \in 1 .. MaxFees - fees : AddToRexReturnPool(fee)

NextInterval ==
  /\ now < LastTime
  /\ now' = now + 1
  /\ UNCHANGED <<pool, buckets, returned, fees>>

Next == UpdateRexPool \/ Fee \/ NextInterval

Spec == Init /\ [][Next]_vars

-----------------------------------------------------------------------------

TypeOK ==
  /\ now \in TotalIntervals .. LastTime
  /\ pool \in [exists : BOOLEAN, last_dist_time : Nat, pending_bucket_time : Nat \union {None},
               oldest_bucket_time : Nat, pending_bucket_proceeds : Nat,
               current_rate_of_increase : Nat, proceeds : Nat]
  /\ DOMAIN buckets \subseteq Nat /\ \A t \in DOMAIN buckets : buckets[t] \in Nat
  /\ returned \in Nat /\ fees \in Nat

\* What came in was returned or is still in the pool: nothing is lost or
\* returned twice, however late the pool is looked at.
FeesAreKept == fees = returned + pool.proceeds

\* The pool holds exactly what its buckets have still to return.
ProceedsAreInBuckets ==
  pool.proceeds = pool.pending_bucket_proceeds +
    SumOf([t \in DOMAIN buckets |-> buckets[t] * (t + TotalIntervals - pool.last_dist_time)])

\* The one rate by which returns flow is that of the buckets, and the cached
\* time of the oldest is never too late to notice that it expires.
RateIsBuckets ==
  /\ pool.current_rate_of_increase = SumOf(buckets)
  /\ \A t \in DOMAIN buckets : pool.oldest_bucket_time <= t

\* However late and however often the pool is looked at, it neither loses nor
\* doubles a fee, in sum and bucket by bucket.
ReturnsAddUp == FeesAreKept /\ ProceedsAreInBuckets /\ RateIsBuckets
==============================================================================

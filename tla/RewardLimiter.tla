---------------------------- MODULE RewardLimiter ----------------------------
(***************************************************************************)
(* The rate-limited reward loop of verl/experimental/reward/reward_loop/   *)
(* limited.py: the requests of one batch, each a coroutine of one event    *)
(* loop, pass a bucket of requests per second, a bucket of tokens per      *)
(* second and a semaphore, and then call compute_score under a timeout.    *)
(* An asynchronous compute_score is a coroutine that the timeout cancels;  *)
(* a synchronous one runs in a thread of the default executor, which the   *)
(* timeout does not reach.                                                 *)
(*                                                                         *)
(* Time is a clock of ticks of the loop: a sleep or a timeout ends at the  *)
(* tick it is due, and the clock moves when no coroutine can.  Amounts are *)
(* multiples of a unit that makes rates whole numbers per tick.            *)
(***************************************************************************)
EXTENDS Integers, Sequences, FiniteSets

CONSTANTS
  Requests,        (* the data items of process_batch                         *)
  RateLimits,      (* settings: a function from limiters to rate and cost     *)
  MaxConcurrent,   (* the semaphore                                           *)
  Timeout,         (* in ticks                                                *)
  PoolSize,        (* workers of the default executor                         *)
  LastDecoded      (* the executor has decoded every response by this tick    *)

(* A limiter left out of the domain is one configured as None.  Requests   *)
(* beyond the capacity are measured in what a tick refills, so that their  *)
(* sleeps end at ticks.                                                    *)
ASSUME LimiterAssumption ==
  /\ IsFiniteSet(Requests)
  /\ \A s \in RateLimits :
       /\ DOMAIN s \subseteq {"rpm", "tpm"}
       /\ \A l \in DOMAIN s : s[l].rate \in Nat \ {0} /\ s[l].cost \in Nat \ {0}
                                /\ (s[l].cost > s[l].rate => s[l].rate = 1)
  /\ {MaxConcurrent, Timeout, PoolSize} \subseteq Nat \ {0}
  /\ LastDecoded \in Nat

VARIABLES
  setting, asynchronous,   (* rate limits, and the kind of compute_score         *)
  clock,
  bucket,          (* tokens and last_update of each AsyncTokenBucket           *)
  stage,           (* how far run_single is for each request                    *)
  wake,            (* when the sleep or the timeout of a request ends           *)
  passed,          (* history: when a request got through a limiter            *)
  waiters,         (* the requests queued for the semaphore, in order           *)
  submitted,       (* the executor's queue of calls not started yet             *)
  calls,           (* the API calls under way: coroutines or threads            *)
  reward           (* "score", or "zero" after a timeout or an error            *)

limVars == <<setting, asynchronous, clock, bucket, stage, wake, passed, waiters, submitted,
             calls, reward>>

Limiters == DOMAIN setting
Capacity(l) == setting[l].rate
NotYet == -1
CeilDivide(a, b) == (a + b - 1) \div b
Least(a, b) == IF a < b THEN a ELSE b

(* max_tokens is the rate: the buckets of this class start full and hold   *)
(* one second's worth.                                                     *)
LimInit ==
  /\ setting \in RateLimits
  /\ asynchronous \in BOOLEAN
  /\ clock = 0
  /\ bucket = [l \in Limiters |-> [tokens |-> Capacity(l), last |-> 0]]
  /\ stage = [r \in Requests |-> "decoding"]
  /\ wake = [r \in Requests |-> 0]
  /\ passed = [l \in Limiters |-> [r \in Requests |-> NotYet]]
  /\ waiters = <<>> /\ submitted = <<>>
  /\ calls = {}
  /\ reward = [r \in Requests |-> "none"]

(* The layers in their order; a limiter that is None is passed over.       *)
After(l) == IF l = "rpm" /\ "tpm" \in Limiters THEN "tpm" ELSE "semaphore"
AfterDecoding == IF "rpm" \in Limiters THEN "rpm" ELSE After("rpm")
Queued(r, next) == IF next = "semaphore" THEN Append(waiters, r) ELSE waiters

Decoded(r) ==
  /\ stage[r] = "decoding"
  /\ stage' = [stage EXCEPT ![r] = AfterDecoding]
  /\ waiters' = Queued(r, AfterDecoding)
  /\ UNCHANGED <<setting, asynchronous, clock, bucket, wake, passed, submitted, calls, reward>>

-------------------------------------------------------------------------------
(* AsyncTokenBucket.acquire; nothing is awaited under its lock.            *)
Refilled(l) ==
  Least(Capacity(l), bucket[l].tokens + (clock - bucket[l].last) * setting[l].rate)
SleepFor(l, tokens) == clock + CeilDivide(setting[l].cost - tokens, setting[l].rate)

Passes(r, l, at) ==
  /\ stage' = [stage EXCEPT ![r] = After(l)]
  /\ waiters' = Queued(r, After(l))
  /\ passed' = [passed EXCEPT ![l][r] = at]

(* A request within the capacity takes its tokens, or sleeps and retries.  *)
AcquireStandard(r, l) ==
  /\ stage[r] = l /\ wake[r] <= clock
  /\ setting[l].cost <= Capacity(l)
  /\ IF Refilled(l) >= setting[l].cost
     THEN /\ bucket' = [bucket EXCEPT ![l] = [tokens |-> Refilled(l) - setting[l].cost,
                                              last |-> clock]]
          /\ Passes(r, l, clock)
          /\ UNCHANGED wake
     ELSE /\ bucket' = [bucket EXCEPT ![l] = [tokens |-> Refilled(l), last |-> clock]]
          /\ wake' = [wake EXCEPT ![r] = SleepFor(l, Refilled(l))]
          /\ UNCHANGED <<stage, waiters, passed>>
  /\ UNCHANGED <<setting, asynchronous, clock, submitted, calls, reward>>

Reserved(l) == IF l = "rpm" THEN "rpm_reserved" ELSE "tpm_reserved"

(* One beyond the capacity takes them at once, below zero, and sleeps.     *)
(* Mutant: the debt is forgiven. *)
DebitMutant(l) == [tokens |-> 0, last |-> clock]
Debit(l) == [tokens |-> Refilled(l) - setting[l].cost, last |-> clock]
AcquireLarge(r, l) ==
  /\ stage[r] = l /\ wake[r] <= clock
  /\ setting[l].cost > Capacity(l)
  /\ bucket' = [bucket EXCEPT ![l] = Debit(l)]
  /\ wake' = [wake EXCEPT ![r] = SleepFor(l, Refilled(l))]
  /\ stage' = [stage EXCEPT ![r] = Reserved(l)]
  /\ UNCHANGED <<setting, asynchronous, clock, passed, waiters, submitted, calls, reward>>
LargeAcquired(r, l) ==
  /\ stage[r] = Reserved(l) /\ wake[r] <= clock
  /\ Passes(r, l, clock)
  /\ UNCHANGED <<setting, asynchronous, clock, bucket, wake, submitted, calls, reward>>

-------------------------------------------------------------------------------
(* The semaphore and the call. *)
Holders == {r \in Requests : stage[r] = "computing"}

(* async with self._semaphore, then compute_score is called or submitted.  *)
EnterSemaphore ==
  /\ waiters # <<>> /\ Cardinality(Holders) < MaxConcurrent
  /\ LET r == Head(waiters)
     IN /\ stage' = [stage EXCEPT ![r] = "computing"]
        /\ wake' = [wake EXCEPT ![r] = clock + Timeout]
        /\ IF asynchronous
           THEN calls' = calls \cup {r} /\ UNCHANGED submitted
           ELSE submitted' = Append(submitted, r) /\ UNCHANGED calls
  /\ waiters' = Tail(waiters)
  /\ UNCHANGED <<setting, asynchronous, clock, bucket, passed, reward>>

ThreadStarts ==
  /\ submitted # <<>> /\ Cardinality(calls) < PoolSize
  /\ calls' = calls \cup {Head(submitted)}
  /\ submitted' = Tail(submitted)
  /\ UNCHANGED <<setting, asynchronous, clock, bucket, stage, wake, passed, waiters, reward>>

(* A call returns or raises; a thread whose request has timed out returns  *)
(* to nobody.                                                              *)
CallEnds(r) ==
  /\ r \in calls
  /\ calls' = calls \ {r}
  /\ IF stage[r] = "computing"
     THEN /\ stage' = [stage EXCEPT ![r] = "done"]
          /\ \E v \in {"score", "zero"} : reward' = [reward EXCEPT ![r] = v]
     ELSE UNCHANGED <<stage, reward>>
  /\ UNCHANGED <<setting, asynchronous, clock, bucket, wake, passed, waiters, submitted>>

(* wait_for cancels a coroutine, and a call the executor has not begun.    *)
Cancelled(r) == IF asynchronous THEN calls \ {r} ELSE calls
Withdrawn(r) ==
  LET at == CHOOSE k \in DOMAIN submitted : submitted[k] = r
  IN IF \E k \in DOMAIN submitted : submitted[k] = r
     THEN SubSeq(submitted, 1, at - 1) \o SubSeq(submitted, at + 1, Len(submitted))
     ELSE submitted
TimedOut(r) ==
  /\ stage[r] = "computing" /\ wake[r] <= clock
  /\ calls' = Cancelled(r)
  /\ submitted' = Withdrawn(r)
  /\ stage' = [stage EXCEPT ![r] = "done"]
  /\ reward' = [reward EXCEPT ![r] = "zero"]
  /\ UNCHANGED <<setting, asynchronous, clock, bucket, wake, passed, waiters>>

(* The loop sleeps until the next tick when nothing is due.                *)
Due(r) == stage[r] \notin {"decoding", "semaphore", "done"} /\ wake[r] <= clock
Tick ==
  /\ \E r \in Requests : stage[r] # "done"
  /\ ~\E r \in Requests : Due(r)
  /\ waiters = <<>> \/ Cardinality(Holders) = MaxConcurrent
  /\ submitted = <<>> \/ Cardinality(calls) = PoolSize
  /\ clock >= LastDecoded => \A r \in Requests : stage[r] # "decoding"
  /\ clock' = clock + 1
  /\ UNCHANGED <<setting, asynchronous, bucket, stage, wake, passed, waiters, submitted, calls,
                 reward>>

LimFinished == (\A r \in Requests : stage[r] = "done") /\ UNCHANGED limVars

RunSingle(r) ==
  \/ Decoded(r)
  \/ \E l \in Limiters : AcquireStandard(r, l) \/ AcquireLarge(r, l) \/ LargeAcquired(r, l)
  \/ TimedOut(r)
LoopRuns == (\E r \in Requests : RunSingle(r)) \/ EnterSemaphore \/ ThreadStarts \/ Tick

LimNext ==
  \/ LoopRuns
  \/ \E r \in Requests : CallEnds(r)
  \/ LimFinished

LimSpec == LimInit /\ [][LimNext]_limVars
(* The event loop runs, the executor has decoded every response at last    *)
(* and starts what it has a thread for; a call may never return.           *)
LimFairSpec == LimSpec /\ WF_limVars(LoopRuns)

-------------------------------------------------------------------------------
Stages == {"decoding", "rpm", "rpm_reserved", "tpm", "tpm_reserved", "semaphore",
           "computing", "done"}
LimTypeOK ==
  /\ setting \in RateLimits /\ asynchronous \in BOOLEAN /\ clock \in Nat
  /\ \A l \in Limiters : bucket[l].tokens \in Int /\ bucket[l].tokens <= Capacity(l)
                         /\ bucket[l].last \in 0..clock
  /\ stage \in [Requests -> Stages] /\ wake \in [Requests -> Nat]
  /\ passed \in [Limiters -> [Requests -> NotYet..clock]]
  /\ waiters \in Seq(Requests) /\ submitted \in Seq(Requests) /\ calls \subseteq Requests
  /\ reward \in [Requests -> {"none", "score", "zero"}]

(* The rate limiter's promise: between any two moments a limiter lets      *)
(* through no more than one burst (a second's worth, or one request that   *)
(* exceeds it) and the rate times the time between.                        *)
Burst(l) == IF setting[l].cost > Capacity(l) THEN setting[l].cost ELSE Capacity(l)
LetThrough(l, from, to) ==
  setting[l].cost * Cardinality({r \in Requests : passed[l][r] \in from..to})
RateKept ==
  \A l \in Limiters : \A from, to \in 0..clock :
    from <= to => LetThrough(l, from, to) <= Burst(l) + setting[l].rate * (to - from)

(* An asynchronous compute_score is called at most max_concurrent times at *)
(* once, timeouts included; threads only stay within the executor's pool.  *)
ConcurrencyKept ==
  Cardinality(calls) <= IF asynchronous THEN MaxConcurrent ELSE PoolSize

(* All three layers hold together: none is undermined by requests that     *)
(* sleep, time out or give up while others pass.                           *)
LimitsKept == LimTypeOK /\ RateKept /\ ConcurrencyKept

(* Every request gets a reward, though calls may hang and other requests   *)
(* compete for the tokens.                                                 *)
AllScored == <>(\A r \in Requests : reward[r] # "none")
===============================================================================

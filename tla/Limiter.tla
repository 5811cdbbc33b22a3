------------------------------ MODULE Limiter -------------------------------
(***************************************************************************)
(* ProviderLimiter (crates/runtime/src/limiter.rs) with the two loops that *)
(* drive it, run_with_retry and LimitedBackend::chat (agent.rs), for one   *)
(* provider.  A gate is a shared pause window, a token bucket and a        *)
(* semaphore; each is behind a lock of its own, so callers interleave      *)
(* between any two of them.                                                *)
(*                                                                         *)
(* Time is counted in ticks.  pause is what is left of pause_until; it     *)
(* runs down with the clock, as do the callers' sleeps.                    *)
(***************************************************************************)
EXTENDS Integers, Sequences, FiniteSets

CONSTANTS
  Callers,       \* agents calling this provider
  CallsEach,     \* how many chat calls each one makes (bound)
  MaxInFlight,   \* max_in_flight
  Burst, Rate,   \* token bucket: burst, and tokens refilled per tick
  BaseBackoff, MaxBackoff, MaxRetries,
  PollDelay,     \* the sleep when no token is ready
  Horizon        \* ticks counted before `elapsed` saturates (bound)

LimiterAssumption ==
  /\ IsFiniteSet(Callers)
  /\ CallsEach \in Nat
  /\ MaxInFlight \in Nat \ {0}
  /\ Burst \in Nat \ {0} /\ Rate \in Nat \ {0}
  /\ BaseBackoff \in Nat \ {0} /\ MaxBackoff \in Nat \ {0}
  /\ MaxRetries \in Nat /\ PollDelay \in Nat \ {0} /\ Horizon \in Nat

VARIABLES
  phase,      \* where each caller is
  timer,      \* what is left of each caller's sleep
  attempt,    \* attempts already failed in the current call
  callsLeft,  \* calls each caller still has to make
  pause,      \* ticks until pause_until
  streak,     \* consecutive_failures
  tokens,     \* TokenBucket.tokens
  permits,    \* free permits of the semaphore
  slotQueue,  \* its FIFO wait list
  issued,     \* history: calls sent so far
  elapsed,    \* history: ticks so far, saturating at Horizon
  stragglers  \* history: callers that issued a call in the current pause

callVars == <<phase, timer, attempt, callsLeft>>
gateVars == <<pause, streak, stragglers>>
paceVars == <<tokens, issued, elapsed>>
semVars  == <<permits, slotQueue>>
limiterVars == <<phase, timer, attempt, callsLeft, pause, streak, tokens, permits, slotQueue,
                 issued, elapsed, stragglers>>

LInit ==
  /\ phase = [a \in Callers |-> "idle"]
  /\ timer = [a \in Callers |-> 0]
  /\ attempt = [a \in Callers |-> 0]
  /\ callsLeft = [a \in Callers |-> CallsEach]
  /\ pause = 0 /\ streak = 0
  /\ tokens = Burst
  /\ permits = MaxInFlight /\ slotQueue = <<>>
  /\ issued = 0 /\ elapsed = 0 /\ stragglers = {}

To(a, ph) == phase' = [phase EXCEPT ![a] = ph]
Sleep(a, n) == To(a, "asleep") /\ timer' = [timer EXCEPT ![a] = n]
Least(a, b) == IF a <= b THEN a ELSE b

-----------------------------------------------------------------------------
(* acquire()                                                               *)

BeginCall(a) ==
  /\ phase[a] = "idle" /\ callsLeft[a] > 0
  /\ To(a, "gate")
  /\ callsLeft' = [callsLeft EXCEPT ![a] = @ - 1]
  /\ attempt' = [attempt EXCEPT ![a] = 0]
  /\ UNCHANGED <<timer, gateVars, paceVars, semVars>>

(* Read pause_until: sleep out what is left of it, or go on to the bucket. *)
ObservePause(a) ==
  /\ phase[a] = "gate"
  /\ \/ pause > 0 /\ Sleep(a, pause)
     \/ pause = 0 /\ To(a, "pace") /\ UNCHANGED timer
  /\ UNCHANGED <<attempt, callsLeft, gateVars, paceVars, semVars>>

(* Mutant: after the sleep the window is not looked at again. *)
Wake_unchecked(a) ==
  /\ phase[a] = "asleep" /\ timer[a] = 0
  /\ To(a, "pace")
  /\ UNCHANGED <<timer, attempt, callsLeft, gateVars, paceVars, semVars>>

(* Every sleep is followed by another round of the loop. *)
Wake(a) ==
  /\ phase[a] = "asleep" /\ timer[a] = 0
  /\ To(a, "gate")
  /\ UNCHANGED <<timer, attempt, callsLeft, gateVars, paceVars, semVars>>

ConsumeToken(a) ==
  /\ phase[a] = "pace" /\ tokens >= 1
  /\ tokens' = tokens - 1
  /\ To(a, "slot")
  /\ slotQueue' = Append(slotQueue, a)
  /\ UNCHANGED <<timer, attempt, callsLeft, gateVars, issued, elapsed, permits>>

NoTokenReady(a) ==
  /\ phase[a] = "pace" /\ tokens < 1
  /\ Sleep(a, PollDelay)
  /\ UNCHANGED <<attempt, callsLeft, gateVars, paceVars, semVars>>

(* The semaphore grants its permits in order; the call goes out at once.   *)
Issue(a) ==
  /\ phase[a] = "slot"
  /\ permits > 0 /\ slotQueue # <<>> /\ a = Head(slotQueue)
  /\ permits' = permits - 1
  /\ slotQueue' = Tail(slotQueue)
  /\ To(a, "call")
  /\ issued' = issued + 1
  /\ stragglers' = IF pause > 0 THEN stragglers \cup {a} ELSE stragglers
  /\ UNCHANGED <<timer, attempt, callsLeft, pause, streak, tokens, elapsed>>

-----------------------------------------------------------------------------
(* The outcome of a call.                                                  *)

(* A new value of pause_until; a window that is over forgets its stragglers. *)
SetPause(n) ==
  /\ pause' = n
  /\ stragglers' = IF n = 0 THEN {} ELSE stragglers

(* Ok: note_success, then the permit is dropped on return. *)
CallSucceeds(a) ==
  /\ phase[a] = "call"
  /\ SetPause(0)
  /\ streak' = 0
  /\ To(a, "succeeded")
  /\ UNCHANGED <<timer, attempt, callsLeft, paceVars, semVars>>

(* Mutant: the permit outlives the failed attempt. *)
CallRetryable_keepsSlot(a) ==
  /\ phase[a] = "call" /\ attempt[a] < MaxRetries
  /\ To(a, "failing")
  /\ UNCHANGED <<timer, attempt, callsLeft, gateVars, paceVars, semVars>>

(* A retryable error with attempts left: the permit goes first ...         *)
CallRetryable(a) ==
  /\ phase[a] = "call" /\ attempt[a] < MaxRetries
  /\ permits' = permits + 1
  /\ To(a, "failing")
  /\ UNCHANGED <<timer, attempt, callsLeft, gateVars, paceVars, slotQueue>>

(* backoff_for: full jitter below the capped exponential step. *)
BackoffSpan(failures) == Least(BaseBackoff * 2 ^ Least(failures - 1, 16), MaxBackoff)

(* Mutant: a retry goes for a slot at once, past the pause and the bucket. *)
NoteFailure_unpaced(a) ==
  /\ phase[a] = "failing"
  /\ streak' = streak + 1
  /\ \E jitter \in 0..(BackoffSpan(streak') - 1) : SetPause(jitter)
  /\ attempt' = [attempt EXCEPT ![a] = @ + 1]
  /\ To(a, "slot")
  /\ slotQueue' = Append(slotQueue, a)
  /\ UNCHANGED <<timer, callsLeft, paceVars, permits>>

(* ... then note_failure moves the shared window, and the loop goes on.    *)
NoteFailure(a) ==
  /\ phase[a] = "failing"
  /\ streak' = streak + 1
  /\ \E jitter \in 0..(BackoffSpan(streak') - 1) : SetPause(jitter)
  /\ attempt' = [attempt EXCEPT ![a] = @ + 1]
  /\ To(a, "gate")
  /\ UNCHANGED <<timer, callsLeft, paceVars, semVars>>

(* Any other error, or the retries are used up: the error is returned. *)
CallFails(a) ==
  /\ phase[a] = "call"
  /\ To(a, "failed")
  /\ UNCHANGED <<timer, attempt, callsLeft, gateVars, paceVars, semVars>>

(* InFlight is dropped as the call returns to the agent loop. *)
Return(a) ==
  /\ phase[a] \in {"succeeded", "failed"}
  /\ permits' = permits + 1
  /\ To(a, "idle")
  /\ UNCHANGED <<timer, attempt, callsLeft, gateVars, paceVars, slotQueue>>

-----------------------------------------------------------------------------
CountDown(n) == IF n > 0 THEN n - 1 ELSE 0

(* TokenBucket refill: rate times the elapsed time, clamped to the burst.  *)
Refill == Least(tokens + Rate, Burst)

Tick ==
  /\ pause > 0 \/ tokens < Burst \/ \E a \in Callers : timer[a] > 0
  /\ SetPause(CountDown(pause))
  /\ timer' = [a \in Callers |-> CountDown(timer[a])]
  /\ tokens' = Refill
  /\ elapsed' = Least(elapsed + 1, Horizon)
  /\ UNCHANGED <<phase, attempt, callsLeft, streak, semVars, issued>>

CallEnds(a) == CallSucceeds(a) \/ CallRetryable(a) \/ CallFails(a)

CallerStep(a) ==
  \/ ObservePause(a) \/ Wake(a) \/ ConsumeToken(a) \/ NoTokenReady(a)
  \/ Issue(a) \/ NoteFailure(a) \/ Return(a) \/ CallEnds(a)

(* All calls are made: nothing is left to limit. *)
Drained ==
  /\ \A a \in Callers : phase[a] = "idle" /\ callsLeft[a] = 0
  /\ UNCHANGED limiterVars

LNext ==
  \/ \E a \in Callers : BeginCall(a) \/ CallerStep(a)
  \/ Tick
  \/ Drained

LSpec == LInit /\ [][LNext]_limiterVars

-----------------------------------------------------------------------------
Holding == {a \in Callers : phase[a] \in {"call", "succeeded", "failed"}}

(* No outcome of a call leaks or mints an in-flight slot, so at most       *)
(* max_in_flight calls are out at any time.                                *)
SlotsConserved == permits + Cardinality(Holding) = MaxInFlight

(* Pacing survives retries and the wait for a slot: the calls sent so far, *)
(* first attempts and retries alike, fit in the burst plus what the rate   *)
(* allows for the time gone by.                                            *)
Paced == elapsed < Horizon => issued <= Burst + Rate * elapsed

(* What keeps it so: whoever waits for a slot has paid for its call.       *)
Paid == {a \in Callers : phase[a] = "slot"}
Budget ==
  elapsed < Horizon => issued + Cardinality(Paid) + tokens <= Burst + Rate * elapsed

(* limiter.rs 79: pause_until is "until when no agent on this provider may *)
(* issue a call".                                                          *)
NoCallDuringPause ==
  [][\A a \in Callers : phase[a] # "call" /\ phase'[a] = "call" => pause = 0]_limiterVars

(* A second call of one caller in one pause window. *)
SecondStraggler ==
  \E a \in stragglers : phase[a] # "call" /\ phase'[a] = "call" /\ pause > 0

(* What the gate does guarantee: in one pause window a caller gets at most *)
(* one call out, one that was past the gate when the window opened; its    *)
(* retry, and everyone who looked at the window, waits.                    *)
OneStragglerPerPause == [][~SecondStraggler]_limiterVars

(* No caller is in the middle of a call.                                   *)
AllReturned == \A a \in Callers : phase[a] = "idle"
=============================================================================

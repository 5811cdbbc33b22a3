------------------------------ MODULE CallProofs ----------------------------
(***************************************************************************)
(* What an agent's call to a model relies on: its provider's gate, for any *)
(* number of callers, slots, tokens, retries and any backoff; the memory   *)
(* watchdog, for any floor, hysteresis and readings; and the streamed      *)
(* answer, for any lines, chunks and retries.                              *)
(***************************************************************************)
EXTENDS Limiter, Hysteresis, Stream, FiniteSetTheorems, SequenceTheorems,
        WellFoundedInduction, TLAPS

Phases == {"idle", "gate", "asleep", "pace", "slot", "call", "succeeded", "failing", "failed"}

GateTypeOK ==
  /\ phase \in [Callers -> Phases]
  /\ permits \in Int
  /\ pause \in Nat /\ stragglers \subseteq Callers
  /\ tokens \in Nat /\ issued \in Nat /\ elapsed \in Nat

LEMMA LeastIsNat == \A a, b \in Nat : Least(a, b) \in Nat /\ Least(a, b) <= a /\ Least(a, b) <= b
BY SMT DEF Least

LEMMA GateTypeInit == LimiterAssumption /\ LInit => GateTypeOK
BY SMT DEF LimiterAssumption, LInit, GateTypeOK, Phases

(* A new pause is a natural number, and one of zero has no stragglers.     *)
LEMMA PauseIsSet ==
  ASSUME GateTypeOK, NEW n \in Nat, SetPause(n)
  PROVE  /\ pause' \in Nat
         /\ stragglers' \subseteq stragglers
         /\ pause' = 0 => stragglers' = {}
BY SMT DEF SetPause, GateTypeOK

LEMMA GateTypeNext == LimiterAssumption /\ GateTypeOK /\ [LNext]_limiterVars => GateTypeOK'
<1> SUFFICES ASSUME LimiterAssumption, GateTypeOK, [LNext]_limiterVars PROVE GateTypeOK'
  OBVIOUS
<1>1. ASSUME NEW a \in Callers, BeginCall(a) \/ CallerStep(a) PROVE GateTypeOK'
  <2>1. CASE BeginCall(a) \/ ObservePause(a) \/ Wake(a) \/ NoTokenReady(a) \/ CallFails(a)
    BY <2>1, SMT DEF BeginCall, ObservePause, Wake, NoTokenReady, CallFails, To, Sleep,
      gateVars, paceVars, semVars, GateTypeOK, Phases
  <2>2. CASE ConsumeToken(a)
    BY <2>2, SMT DEF ConsumeToken, To, gateVars, GateTypeOK, Phases
  <2>3. CASE Issue(a)
    BY <2>3, SMT DEF Issue, To, paceVars, GateTypeOK, Phases
  <2>4. CASE CallRetryable(a) \/ Return(a)
    BY <2>4, SMT DEF CallRetryable, Return, To, gateVars, paceVars, GateTypeOK, Phases
  <2>5. CASE CallSucceeds(a)
    BY <2>5, PauseIsSet, SMT DEF CallSucceeds, To, paceVars, semVars, GateTypeOK, Phases
  <2>6. CASE NoteFailure(a)
    <3>1. PICK jitter \in 0..(BackoffSpan(streak') - 1) : SetPause(jitter)
      BY <2>6 DEF NoteFailure
    <3>2. jitter \in Nat
      BY <3>1, SMT
    <3> QED
      BY <2>6, <3>1, <3>2, PauseIsSet, SMT DEF NoteFailure, To, paceVars, semVars, GateTypeOK, Phases
  <2> QED
    BY <1>1, <2>1, <2>2, <2>3, <2>4, <2>5, <2>6 DEF CallerStep, CallEnds
<1>2. CASE Tick
  <2>1. CountDown(pause) \in Nat
    BY SMT DEF CountDown, GateTypeOK
  <2>2. tokens' \in Nat /\ elapsed' \in Nat
    BY <1>2, LeastIsNat, SMT DEF Tick, Refill, GateTypeOK, LimiterAssumption
  <2> QED
    BY <1>2, <2>1, <2>2, PauseIsSet, SMT DEF Tick, semVars, GateTypeOK
<1>3. CASE Drained \/ UNCHANGED limiterVars
  BY <1>3 DEF Drained, limiterVars, GateTypeOK
<1> QED
  BY <1>1, <1>2, <1>3 DEF LNext

LEMMA GateTypeCorrect == ASSUME LimiterAssumption PROVE LSpec => []GateTypeOK
<1>1. LInit => GateTypeOK
  BY GateTypeInit
<1>2. GateTypeOK /\ [LNext]_limiterVars => GateTypeOK'
  BY GateTypeNext
<1> QED
  BY <1>1, <1>2, PTL DEF LSpec

-----------------------------------------------------------------------------
(* In-flight slots.                                                        *)

HolderPhases == {"call", "succeeded", "failed"}

LEMMA SlotsInit == LimiterAssumption /\ LInit => SlotsConserved
<1> SUFFICES ASSUME LimiterAssumption, LInit PROVE SlotsConserved
  OBVIOUS
<1>1. Holding = {}
  BY DEF LInit, Holding
<1> QED
  BY <1>1, FS_EmptySet, SMT DEF LInit, SlotsConserved, LimiterAssumption

(* A step of one caller adds it to the holders and takes a permit, takes   *)
(* it from them and gives one back, or does neither.                       *)
LEMMA SlotsNext ==
  LimiterAssumption /\ GateTypeOK /\ SlotsConserved /\ [LNext]_limiterVars => SlotsConserved'
<1> SUFFICES ASSUME LimiterAssumption, GateTypeOK, SlotsConserved, [LNext]_limiterVars
             PROVE  SlotsConserved'
  OBVIOUS
<1>1. IsFiniteSet(Holding)
  BY FS_Subset DEF Holding, LimiterAssumption
<1>2. Cardinality(Holding) \in Nat
  BY <1>1, FS_CardinalityType
<1>3. ASSUME NEW a \in Callers, BeginCall(a) \/ CallerStep(a) PROVE SlotsConserved'
  <2> DEFINE Moves(from, to) == phase[a] \in from /\ \E p \in to : phase' = [phase EXCEPT ![a] = p]
  <2>1. ASSUME Moves(Phases \ HolderPhases, Phases \ HolderPhases) \/ Moves(HolderPhases, HolderPhases),
               permits' = permits
        PROVE  SlotsConserved'
    <3>1. Holding' = Holding
      BY <2>1, SMT DEF Holding, HolderPhases, GateTypeOK, Phases
    <3> QED
      BY <2>1, <3>1 DEF SlotsConserved
  <2>2. CASE BeginCall(a) \/ ObservePause(a) \/ Wake(a) \/ ConsumeToken(a) \/ NoTokenReady(a)
             \/ NoteFailure(a) \/ CallSucceeds(a) \/ CallFails(a)
    BY <2>2, <2>1, SMT DEF BeginCall, ObservePause, Wake, ConsumeToken, NoTokenReady, NoteFailure,
      CallSucceeds, CallFails, To, Sleep, semVars, Phases, HolderPhases
  <2>3. CASE Issue(a)
    <3>1. a \notin Holding /\ Holding' = Holding \cup {a}
      BY <2>3, SMT DEF Issue, To, Holding, GateTypeOK, Phases
    <3>2. Cardinality(Holding') = Cardinality(Holding) + 1
      BY <1>1, <3>1, FS_AddElement
    <3> QED
      BY <2>3, <1>2, <3>2, SMT DEF Issue, SlotsConserved, GateTypeOK
  <2>4. CASE CallRetryable(a) \/ Return(a)
    <3>1. a \in Holding /\ Holding' = Holding \ {a}
      BY <2>4, SMT DEF CallRetryable, Return, To, Holding, GateTypeOK, Phases
    <3>2. Cardinality(Holding') = Cardinality(Holding) - 1
      BY <1>1, <3>1, FS_RemoveElement
    <3> QED
      BY <2>4, <1>2, <3>2, SMT DEF CallRetryable, Return, SlotsConserved, GateTypeOK
  <2> QED
    BY <1>3, <2>2, <2>3, <2>4 DEF CallerStep, CallEnds
<1>4. CASE Tick \/ Drained \/ UNCHANGED limiterVars
  BY <1>4 DEF Tick, Drained, limiterVars, semVars, SlotsConserved, Holding
<1> QED
  BY <1>3, <1>4 DEF LNext

(* limiter.rs 85-90 and 153-207: whatever a call comes to, its slot is     *)
(* given back once, for any number of callers and slots.                   *)
THEOREM SlotsNeverLeak == ASSUME LimiterAssumption PROVE LSpec => []SlotsConserved
<1>1. LInit => SlotsConserved
  BY SlotsInit
<1>2. GateTypeOK /\ SlotsConserved /\ [LNext]_limiterVars => SlotsConserved'
  BY SlotsNext
<1> QED
  BY GateTypeCorrect, <1>1, <1>2, PTL DEF LSpec

-----------------------------------------------------------------------------
(* Pacing.  Rate * elapsed is the only product; the rest is linear.        *)

LEMMA NextTickAllows ==
  ASSUME LimiterAssumption, NEW n \in Nat
  PROVE  Rate * n \in Nat /\ Rate * (n + 1) = Rate * n + Rate
BY SMT DEF LimiterAssumption

LEMMA BudgetGrows ==
  ASSUME NEW s \in Nat, NEW t \in Nat, NEW u \in Nat, NEW r \in Nat, NEW b \in Nat, NEW w \in Nat,
         s + t <= b + w, u <= t + r
  PROVE  s + u <= b + (w + r)
BY SMT

LEMMA PaidFinite == ASSUME LimiterAssumption PROVE IsFiniteSet(Paid) /\ Cardinality(Paid) \in Nat
  BY FS_Subset, FS_CardinalityType DEF Paid, LimiterAssumption

LEMMA BudgetInit == LimiterAssumption /\ LInit => Budget
<1> SUFFICES ASSUME LimiterAssumption, LInit PROVE Budget
  OBVIOUS
<1>1. Rate * 0 = 0
  BY SMT DEF LimiterAssumption
<1>2. Paid = {}
  BY DEF LInit, Paid
<1>3. Cardinality(Paid) = 0
  BY <1>2, FS_EmptySet
<1> QED
  BY <1>1, <1>3, SMT DEF LimiterAssumption, LInit, Budget

(* A token pays for a place in the queue for slots, that place for a call; *)
(* a tick adds no more than the rate.  Past the horizon nothing is claimed. *)
LEMMA BudgetNext == LimiterAssumption /\ GateTypeOK /\ Budget /\ [LNext]_limiterVars => Budget'
<1> SUFFICES ASSUME LimiterAssumption, GateTypeOK, Budget, [LNext]_limiterVars PROVE Budget'
  OBVIOUS
<1>1. ASSUME NEW a \in Callers, ConsumeToken(a) PROVE Budget'
  <2>1. /\ tokens \in Nat /\ issued \in Nat /\ tokens' = tokens - 1
        /\ issued' = issued /\ elapsed' = elapsed
    BY <1>1 DEF ConsumeToken, GateTypeOK
  <2>2. a \notin Paid /\ Paid' = Paid \cup {a}
    BY <1>1 DEF ConsumeToken, To, Paid, GateTypeOK
  <2>3. Cardinality(Paid') = Cardinality(Paid) + 1
    BY <2>2, PaidFinite, FS_AddElement
  <2>4. issued' + Cardinality(Paid') + tokens' = issued + Cardinality(Paid) + tokens
    BY <2>1, <2>3, PaidFinite
  <2> QED
    BY <2>1, <2>4 DEF Budget
<1>2. ASSUME NEW a \in Callers, Issue(a) PROVE Budget'
  <2>1. /\ tokens \in Nat /\ issued \in Nat /\ tokens' = tokens
        /\ issued' = issued + 1 /\ elapsed' = elapsed
    BY <1>2 DEF Issue, GateTypeOK
  <2>2. a \in Paid /\ Paid' = Paid \ {a}
    BY <1>2 DEF Issue, To, Paid, GateTypeOK
  <2>3. Cardinality(Paid') = Cardinality(Paid) - 1
    BY <2>2, PaidFinite, FS_RemoveElement
  <2>4. issued' + Cardinality(Paid') + tokens' = issued + Cardinality(Paid) + tokens
    BY <2>1, <2>3, PaidFinite
  <2> QED
    BY <2>1, <2>4 DEF Budget
<1>3. CASE Tick
  <2>1. elapsed' < Horizon => elapsed' = elapsed + 1 /\ elapsed < Horizon
    BY <1>3, SMT DEF Tick, Least, GateTypeOK, LimiterAssumption
  <2>2. issued' = issued /\ Paid' = Paid /\ tokens' <= tokens + Rate /\ tokens' \in Nat
    BY <1>3, SMT DEF Tick, Refill, Least, GateTypeOK, LimiterAssumption, Paid
  <2>3. Rate * elapsed \in Nat /\ Rate * (elapsed + 1) = Rate * elapsed + Rate
    BY NextTickAllows DEF GateTypeOK
  <2> DEFINE sent == issued + Cardinality(Paid)
  <2>4. ASSUME elapsed' < Horizon PROVE sent' + tokens' <= Burst + Rate * elapsed'
    <3>1. sent + tokens <= Burst + Rate * elapsed
      BY <2>1, <2>4 DEF Budget
    <3>2. /\ sent \in Nat /\ tokens \in Nat /\ tokens' \in Nat /\ Rate \in Nat /\ Burst \in Nat
          /\ tokens' <= tokens + Rate
      BY <2>2, PaidFinite, SMT DEF GateTypeOK, LimiterAssumption
    <3>3. sent' = sent
      BY <2>2
    <3> HIDE DEF sent
    <3>4. sent + tokens' <= Burst + (Rate * elapsed + Rate)
      BY <2>3, <3>1, <3>2, BudgetGrows
    <3> QED
      BY <2>1, <2>3, <2>4, <3>3, <3>4
  <2> QED
    BY <2>4 DEF Budget
<1>4. ASSUME NEW a \in Callers, (BeginCall(a) \/ CallerStep(a)) /\ ~ConsumeToken(a) /\ ~Issue(a)
      PROVE  Budget'
  <2>1. UNCHANGED paceVars
    BY <1>4 DEF CallerStep, CallEnds, BeginCall, ObservePause, Wake, NoTokenReady,
      NoteFailure, Return, CallSucceeds, CallRetryable, CallFails
  <2>2. phase[a] # "slot" /\ \E p \in Phases \ {"slot"} : phase' = [phase EXCEPT ![a] = p]
    BY <1>4, SMT DEF CallerStep, CallEnds, BeginCall, ObservePause, Wake, NoTokenReady,
      NoteFailure, Return, CallSucceeds, CallRetryable, CallFails, To, Sleep, Phases
  <2>3. Paid' = Paid
    BY <2>2 DEF Paid, GateTypeOK
  <2> QED
    BY <2>1, <2>3 DEF paceVars, Budget
<1>5. CASE Drained \/ UNCHANGED limiterVars
  BY <1>5 DEF Drained, limiterVars, Budget, Paid
<1> QED
  BY <1>1, <1>2, <1>3, <1>4, <1>5 DEF LNext

(* limiter.rs 133-207: over any history of retries, pauses and waits for a *)
(* slot, the calls sent fit in the burst and what the rate allowed since.  *)
THEOREM CallsArePaced == ASSUME LimiterAssumption PROVE LSpec => []Paced
<1>1. LInit => Budget
  BY BudgetInit
<1>2. GateTypeOK /\ Budget /\ [LNext]_limiterVars => Budget'
  BY BudgetNext
<1>3. GateTypeOK /\ Budget => Paced
  <2> SUFFICES ASSUME GateTypeOK, Budget, elapsed < Horizon
               PROVE  issued <= Burst + Rate * elapsed
    BY DEF Paced
  <2>1. Rate * elapsed \in Nat
    BY NextTickAllows DEF GateTypeOK
  <2> QED
    BY <2>1, PaidFinite DEF Budget, GateTypeOK, LimiterAssumption
<1> QED
  BY GateTypeCorrect, <1>1, <1>2, <1>3, PTL DEF LSpec

-----------------------------------------------------------------------------
(* Stragglers.                                                             *)

(* Who got a call out inside the pause is not past the gate again before   *)
(* it ends: retries and returns lead to the gate, and the gate to sleep.   *)
StragglersWait ==
  \A a \in stragglers : pause > 0 /\ phase[a] \notin {"pace", "slot"}

LEMMA StragglersNext ==
  LimiterAssumption /\ GateTypeOK /\ StragglersWait /\ [LNext]_limiterVars => StragglersWait'
<1> SUFFICES ASSUME LimiterAssumption, GateTypeOK, StragglersWait, [LNext]_limiterVars
             PROVE  StragglersWait'
  OBVIOUS
<1> USE DEF StragglersWait, GateTypeOK, Phases
<1>1. ASSUME NEW a \in Callers, BeginCall(a) \/ CallerStep(a) PROVE StragglersWait'
  <2>1. CASE BeginCall(a) \/ ObservePause(a) \/ Wake(a) \/ NoTokenReady(a) \/ CallFails(a)
    BY <2>1, SMT DEF BeginCall, ObservePause, Wake, NoTokenReady, CallFails, To, Sleep, gateVars
  <2>2. CASE ConsumeToken(a) \/ CallRetryable(a) \/ Return(a)
    BY <2>2, SMT DEF ConsumeToken, CallRetryable, Return, To, gateVars
  <2>3. CASE Issue(a)
    BY <2>3, SMT DEF Issue, To
  <2>4. CASE CallSucceeds(a)
    BY <2>4, SMT DEF CallSucceeds, SetPause, To
  <2>5. CASE NoteFailure(a)
    <3>1. PICK jitter \in 0..(BackoffSpan(streak') - 1) : SetPause(jitter)
      BY <2>5 DEF NoteFailure
    <3>2. jitter \in Nat
      BY <3>1, SMT
    <3> QED
      BY <2>5, <3>1, <3>2, SMT DEF NoteFailure, SetPause, To
  <2> QED
    BY <1>1, <2>1, <2>2, <2>3, <2>4, <2>5 DEF CallerStep, CallEnds
<1>2. CASE Tick
  BY <1>2, SMT DEF Tick, SetPause, CountDown
<1>3. CASE Drained \/ UNCHANGED limiterVars
  BY <1>3 DEF Drained, limiterVars
<1> QED
  BY <1>1, <1>2, <1>3 DEF LNext

(* limiter.rs 133-170: in one pause a caller gets at most one call out, one*)
(* that was past the gate when it began, for any number of callers and any *)
(* sequence of failures that make the pause longer or shorter.             *)
THEOREM OneStragglerEach == ASSUME LimiterAssumption PROVE LSpec => OneStragglerPerPause
<1>1. LInit => StragglersWait
  BY DEF LInit, StragglersWait
<1>2. GateTypeOK /\ StragglersWait /\ [LNext]_limiterVars => StragglersWait'
  BY StragglersNext
<1>3. GateTypeOK /\ StragglersWait /\ [LNext]_limiterVars => ~SecondStraggler
  <2> SUFFICES ASSUME GateTypeOK, StragglersWait, LNext, SecondStraggler PROVE FALSE
    BY DEF SecondStraggler, limiterVars
  <2> QED
    BY SMT DEF GateTypeOK, Phases, StragglersWait, SecondStraggler, LNext, BeginCall, CallerStep,
      ObservePause, Wake, ConsumeToken, NoTokenReady, Issue, NoteFailure, Return, CallEnds,
      CallSucceeds, CallRetryable, CallFails, To, Sleep, Tick, Drained, limiterVars
<1> QED
  BY GateTypeCorrect, <1>1, <1>2, <1>3, PTL DEF LSpec, OneStragglerPerPause

(* A caller that has the provider to itself is past the gate only outside  *)
(* of a pause, for nobody else can open one behind it.                     *)
OneCaller == \A a, b \in Callers : a = b

GateHolds == \A a \in Callers : phase[a] \in {"pace", "slot"} => pause = 0

LEMMA GateHoldsNext ==
  LimiterAssumption /\ OneCaller /\ GateTypeOK /\ GateHolds /\ [LNext]_limiterVars => GateHolds'
<1> SUFFICES ASSUME LimiterAssumption, OneCaller, GateTypeOK, GateHolds, [LNext]_limiterVars
             PROVE  GateHolds'
  OBVIOUS
<1> USE DEF OneCaller, GateHolds, GateTypeOK, Phases
<1>1. ASSUME NEW a \in Callers, BeginCall(a) \/ CallerStep(a) PROVE GateHolds'
  <2>1. CASE ObservePause(a) \/ ConsumeToken(a)
    BY <2>1, SMT DEF ObservePause, ConsumeToken, Sleep, To, gateVars
  <2>2. CASE BeginCall(a) \/ Wake(a) \/ NoTokenReady(a) \/ CallFails(a)
    BY <2>2, SMT DEF BeginCall, Wake, NoTokenReady, CallFails, To, Sleep, gateVars
  <2>3. CASE CallRetryable(a) \/ Return(a) \/ Issue(a)
    BY <2>3, SMT DEF CallRetryable, Return, Issue, To, gateVars
  <2>4. CASE CallSucceeds(a) \/ NoteFailure(a)
    BY <2>4, SMT DEF CallSucceeds, NoteFailure, To
  <2> QED
    BY <1>1, <2>1, <2>2, <2>3, <2>4 DEF CallerStep, CallEnds
<1>2. CASE Tick
  BY <1>2, SMT DEF Tick, SetPause, CountDown
<1>3. CASE Drained \/ UNCHANGED limiterVars
  BY <1>3 DEF Drained, limiterVars
<1> QED
  BY <1>1, <1>2, <1>3 DEF LNext

LEMMA GateHoldsIssue ==
  OneCaller /\ GateTypeOK /\ GateHolds /\ [LNext]_limiterVars =>
    \A a \in Callers : phase[a] # "call" /\ phase'[a] = "call" => pause = 0
<1> SUFFICES ASSUME OneCaller, GateTypeOK, GateHolds, [LNext]_limiterVars, NEW a \in Callers,
                    phase[a] # "call", phase'[a] = "call"
             PROVE  pause = 0
  OBVIOUS
<1>1. ASSUME NEW b \in Callers, BeginCall(b) \/ CallerStep(b), ~Issue(b) PROVE FALSE
  BY <1>1, SMT DEF CallerStep, CallEnds, BeginCall, ObservePause, Wake, ConsumeToken, NoTokenReady,
    NoteFailure, Return, CallSucceeds, CallRetryable, CallFails, Sleep, To, GateTypeOK, Phases
<1>2. ~Tick /\ ~Drained /\ ~UNCHANGED limiterVars
  BY DEF Tick, Drained, limiterVars
<1>3. ASSUME NEW b \in Callers, Issue(b) PROVE pause = 0
  BY <1>3, SMT DEF Issue, GateHolds
<1> QED
  BY <1>1, <1>2, <1>3 DEF LNext

(* limiter.rs 79: with one agent on a provider the sentence is true: no    *)
(* call goes out in a pause.  With two, one of them can open a pause while *)
(* the other is past the gate, and OneStragglerPerPause is what is left.   *)
THEOREM AloneNoCallInPause ==
  ASSUME LimiterAssumption, OneCaller PROVE LSpec => NoCallDuringPause
<1>1. LInit => GateHolds
  BY SMT DEF LInit, GateHolds
<1>2. GateTypeOK /\ GateHolds /\ [LNext]_limiterVars => GateHolds'
  BY GateHoldsNext
<1>3. GateTypeOK /\ GateHolds /\ [LNext]_limiterVars =>
        \A a \in Callers : phase[a] # "call" /\ phase'[a] = "call" => pause = 0
  BY GateHoldsIssue
<1> QED
  BY GateTypeCorrect, <1>1, <1>2, <1>3, PTL DEF LSpec, NoCallDuringPause

-----------------------------------------------------------------------------
(* The watchdog.  Its counter is the length of the run of low samples that *)
(* ends with the last one, as far back as they are remembered.             *)
StrikesInv ==
  /\ freeMb \in Nat /\ availableMb \in Nat /\ lowCount \in Nat
  /\ recent \in Seq(Nat) /\ Len(recent) <= Strikes
  /\ Len(recent) < Strikes => lowCount <= Len(recent)
  /\ \A i \in 1..Len(recent) : i > Len(recent) - lowCount => recent[i] < FloorMb
  /\ lowCount < Len(recent) => recent[Len(recent) - lowCount] >= FloorMb

LEMMA StrikesType ==
  Strikes \in Nat \ {0} /\ StrikeCap \in Nat /\ Strikes <= StrikeCap /\ FloorMb \in Nat
  /\ MemoryReadings \subseteq Nat
BY HysteresisAssumption, SMT DEF HysteresisAssumption, WatchdogAssumption, Strikes

(* What is remembered after one more sample.                               *)
LEMMA Remembered ==
  ASSUME StrikesInv, refreshDue, availableMb' \in Nat, Remember
  PROVE  /\ recent' \in Seq(Nat)
         /\ Len(recent') = IF Len(recent) < Strikes THEN Len(recent) + 1 ELSE Len(recent)
         /\ recent'[Len(recent')] = availableMb'
         /\ \A i \in 1..(Len(recent') - 1) :
              recent'[i] = IF Len(recent) < Strikes THEN recent[i] ELSE recent[i+1]
<1> DEFINE s == Append(recent, availableMb')
<1>1. recent \in Seq(Nat) /\ Len(recent) \in Nat /\ Strikes \in Nat \ {0} /\ Len(recent) <= Strikes
  BY StrikesType, LenProperties DEF StrikesInv
<1>2. /\ s \in Seq(Nat) /\ s # <<>> /\ Len(s) = Len(recent) + 1
      /\ \A i \in 1..Len(recent) : s[i] = recent[i]
      /\ s[Len(recent) + 1] = availableMb'
  BY <1>1, AppendProperties
<1>3. recent' = IF Len(s) > Strikes THEN Tail(s) ELSE s
  BY DEF Remember
<1> HIDE DEF s
<1>4. CASE Len(recent) < Strikes
  BY <1>1, <1>2, <1>3, <1>4, SMT
<1>5. CASE ~(Len(recent) < Strikes)
  <2>1. recent' = Tail(s) /\ Len(recent) = Strikes
    BY <1>1, <1>2, <1>3, <1>5, SMT
  <2>2. /\ Tail(s) \in Seq(Nat) /\ Len(Tail(s)) = Len(recent)
        /\ \A i \in 1..Len(recent) : Tail(s)[i] = s[i+1]
    BY <1>1, <1>2, HeadTailProperties, SMT
  <2> QED
    BY <1>1, <1>2, <1>5, <2>1, <2>2, SMT
<1> QED
  BY <1>4, <1>5

LEMMA StrikesNext == StrikesInv /\ [HNext]_watchedVars => StrikesInv'
<1> SUFFICES ASSUME StrikesInv, [HNext]_watchedVars PROVE StrikesInv'
  OBVIOUS
<1>1. ASSUME Sample, Remember, refreshDue, freeMb' = freeMb PROVE StrikesInv'
  <2> DEFINE L == Len(recent)
             M == Len(recent')
  <2>1. freeMb \in Nat /\ availableMb' = freeMb /\ lowCount' = NextStrikeCount(freeMb, lowCount)
    BY <1>1 DEF Sample, StrikesInv
  <2>2. /\ recent' \in Seq(Nat) /\ M = (IF L < Strikes THEN L + 1 ELSE L)
        /\ recent'[M] = freeMb
        /\ \A i \in 1..(M - 1) : recent'[i] = IF L < Strikes THEN recent[i] ELSE recent[i+1]
    BY <1>1, <2>1, Remembered
  <2>3. /\ L \in Nat /\ L <= Strikes /\ lowCount \in Nat
        /\ L < Strikes => lowCount <= L
        /\ \A i \in 1..L : i > L - lowCount => recent[i] < FloorMb
        /\ lowCount < L => recent[L - lowCount] >= FloorMb
        /\ \A i \in 1..L : recent[i] \in Nat
    BY LenProperties DEF StrikesInv
  <2> HIDE DEF L, M
  <2>4. CASE freeMb < FloorMb
    <3>1. lowCount' = IF lowCount < StrikeCap THEN lowCount + 1 ELSE lowCount
      BY <2>1, <2>4 DEF NextStrikeCount
    <3>2. lowCount' \in Nat /\ (M < Strikes => lowCount' <= M)
      BY <2>2, <2>3, <3>1, StrikesType, SMT
    <3>3. ASSUME NEW i \in 1..M, i > M - lowCount' PROVE recent'[i] < FloorMb
      <4>1. CASE i = M
        BY <2>2, <2>4, <4>1
      <4>2. CASE i # M /\ L < Strikes
        <5>1. i \in 1..L /\ i > L - lowCount /\ recent'[i] = recent[i]
          BY <2>2, <2>3, <3>1, <3>3, <4>2, StrikesType, SMT
        <5> QED
          BY <2>3, <5>1
      <4>3. CASE i # M /\ ~(L < Strikes)
        <5>1. i + 1 \in 1..L /\ i + 1 > L - lowCount /\ recent'[i] = recent[i+1]
          BY <2>2, <2>3, <3>1, <3>3, <4>3, StrikesType, SMT
        <5> QED
          BY <2>3, <5>1
      <4> QED
        BY <4>1, <4>2, <4>3
    <3>4. ASSUME lowCount' < M PROVE recent'[M - lowCount'] >= FloorMb
      <4>1. lowCount' = lowCount + 1 /\ lowCount < L
        BY <2>2, <2>3, <3>1, <3>4, StrikesType, SMT
      <4>2. M - lowCount' \in 1..(M - 1)
            /\ L - lowCount = IF L < Strikes THEN M - lowCount' ELSE M - lowCount' + 1
        BY <2>2, <2>3, <3>4, <4>1, StrikesType, SMT
      <4>3. recent'[M - lowCount'] = recent[L - lowCount]
        BY <2>2, <4>2
      <4> QED
        BY <2>3, <4>1, <4>3
    <3>5. M \in Nat /\ M <= Strikes
      BY <2>2, <2>3, StrikesType, SMT
    <3> QED
      BY <1>1, <2>1, <2>2, <3>2, <3>3, <3>4, <3>5 DEF StrikesInv, M
  <2>5. CASE ~(freeMb < FloorMb)
    <3>1. lowCount' = 0
      BY <2>1, <2>5 DEF NextStrikeCount
    <3>2. M \in Nat /\ M <= Strikes /\ M > 0
      BY <2>2, <2>3, StrikesType, SMT
    <3>3. recent'[M - lowCount'] >= FloorMb
      BY <2>1, <2>2, <2>5, <3>1, <3>2, StrikesType, SMT
    <3> QED
      BY <1>1, <2>1, <2>2, <3>1, <3>2, <3>3, SMT DEF StrikesInv, M
  <2> QED
    BY <2>4, <2>5
<1>2. ASSUME Sample, Remember, ~refreshDue, freeMb' = freeMb PROVE StrikesInv'
  BY <1>2 DEF Sample, Remember, StrikesInv
<1>3. CASE (Admit \/ Deny) /\ Remember
  BY <1>1, <1>2, <1>3 DEF Admit, Deny
<1>4. CASE (IntervalElapses \/ MemoryMoves) /\ UNCHANGED recent
  BY <1>4, StrikesType DEF IntervalElapses, MemoryMoves, StrikesInv
<1>5. CASE UNCHANGED watchedVars
  BY <1>5 DEF watchedVars, StrikesInv
<1> QED
  BY <1>3, <1>4, <1>5 DEF HNext

(* watchdog.rs 133-150 and 159-169: the gate is closed exactly while the   *)
(* last hysteresis_strikes samples were all below the floor, however the   *)
(* memory moves between and at the samples.                                *)
THEOREM GateFollowsLowRun == HSpec => []ClosedByLowRun
<1>1. HInit => StrikesInv
  BY StrikesType, EmptySeq, SMT DEF HInit, WatchdogInit, StrikesInv
<1>2. StrikesInv => ClosedByLowRun
  <2> SUFFICES ASSUME StrikesInv PROVE ClosedByLowRun
    OBVIOUS
  <2>1. Len(recent) \in Nat /\ \A i \in 1..Len(recent) : recent[i] \in Nat
    BY LenProperties DEF StrikesInv
  <2>2. CASE Denying
    <3>1. Len(recent) = Strikes /\ lowCount >= Len(recent)
      BY <2>1, <2>2, StrikesType, SMT DEF Denying, StrikesInv
    <3>2. \A i \in 1..Strikes : recent[i] < FloorMb
      BY <2>1, <3>1, SMT DEF StrikesInv
    <3> QED
      BY <2>2, <3>1, <3>2 DEF ClosedByLowRun
  <2>3. CASE ~Denying
    <3>1. SUFFICES ASSUME Len(recent) = Strikes PROVE \E i \in 1..Strikes : ~(recent[i] < FloorMb)
      BY <2>3 DEF ClosedByLowRun
    <3>2. lowCount < Len(recent) /\ Len(recent) - lowCount \in 1..Strikes
      BY <2>1, <2>3, <3>1, StrikesType, SMT DEF Denying, StrikesInv
    <3>3. recent[Len(recent) - lowCount] >= FloorMb /\ recent[Len(recent) - lowCount] \in Nat
      BY <2>1, <3>1, <3>2 DEF StrikesInv
    <3> QED
      BY <3>2, <3>3, StrikesType, SMT
  <2> QED
    BY <2>2, <2>3
<1> QED
  BY <1>1, <1>2, StrikesNext, PTL DEF HSpec

-----------------------------------------------------------------------------
(* The streamed answer.                                                    *)

(* Induction over the numbers, for a property given as a set.              *)
LEMMA InductionOverSet ==
  ASSUME NEW S, 0 \in S, \A n \in Nat : n \in S => n + 1 \in S
  PROVE  Nat \subseteq S
<1> SUFFICES ASSUME Nat \ S # {} PROVE FALSE
  OBVIOUS
<1>1. PICK n \in Nat \ S : \A k \in Nat \ S : ~(<<k, n>> \in OpToRel(<, Nat))
  BY NatLessThanWellFounded, WFMin, Nat \ S \subseteq Nat
<1>2. \A k \in Nat : k < n => k \in S
  BY <1>1 DEF OpToRel
<1>3. CASE n = 0
  BY <1>3
<1>4. CASE n # 0
  <2>1. n - 1 \in Nat /\ n - 1 < n /\ (n - 1) + 1 = n
    BY <1>4, SMT
  <2> QED
    BY <1>2, <2>1
<1> QED
  BY <1>3, <1>4

(* What the place of a byte among all says of its line, and of its place   *)
(* there: quotient and remainder by the bytes of a line.                   *)
LEMMA Division ==
  ASSUME NEW p \in Nat
  PROVE  /\ p \div Width \in Nat /\ p % Width \in Nat /\ p % Width < Width
         /\ p = Width * (p \div Width) + (p % Width)
BY StreamAssumption, SMT DEF StreamAssumption

LEMMA DivisionIs ==
  ASSUME NEW p \in Nat, NEW q \in Nat, NEW r \in Nat, r < Width, p = Width * q + r
  PROVE  p \div Width = q /\ p % Width = r
BY StreamAssumption, SMT DEF StreamAssumption

LEMMA DivisionGrows ==
  ASSUME NEW p \in Nat, NEW n \in Nat, p <= n
  PROVE  p \div Width <= n \div Width
BY StreamAssumption, SMT DEF StreamAssumption

LEMMA NextByte ==
  ASSUME NEW p \in Nat
  PROVE  /\ p % Width < Width - 1
            => (p + 1) \div Width = p \div Width /\ (p + 1) % Width = (p % Width) + 1
         /\ p % Width = Width - 1
            => (p + 1) \div Width = (p \div Width) + 1 /\ (p + 1) % Width = 0
BY StreamAssumption, SMT DEF StreamAssumption

LEMMA WithinScript ==
  ASSUME NEW L \in Nat, NEW p \in Nat, p < L * Width
  PROVE  p \div Width < L
BY StreamAssumption, SMT DEF StreamAssumption
-----------------------------------------------------------------------------
(* The accumulator, line by line.                                          *)

Fragments == [line : Nat, damaged : BOOLEAN]
Bytes == [line : Nat, at : Nat, damaged : BOOLEAN]
Walks == [rest : Seq(Bytes), text : Seq(Fragments), calls : Seq(Seq(Fragments)),
          heard : Seq(Fragments), end : {"no", "done", "bad"}]

(* What the answer is once n lines are in.                                 *)
Gathered(t, c, h, n, split) ==
  /\ Sent(t, Contents(UpTo(n)), split)
  /\ \A s \in DOMAIN c : Sent(c[s], CallParts(UpTo(n), s), split)
  /\ \A i \in UpTo(n) : script[i].kind = "call" => script[i].index \in DOMAIN c
  /\ EndsWith(h, t)

LEMMA SentNothing == \A split : Sent(<<>>, {}, split)
BY DEF Sent

LEMMA SentAppend ==
  ASSUME NEW fragments \in Seq(Fragments), NEW lines, NEW split, Sent(fragments, lines, split),
         NEW i \in Nat, \A l \in lines : l < i, NEW d \in BOOLEAN, d <=> i \in split
  PROVE  /\ Append(fragments, Fragment(i, d)) \in Seq(Fragments)
         /\ Sent(Append(fragments, Fragment(i, d)), lines \cup {i}, split)
<1> DEFINE f == Fragment(i, d)
           all == Append(fragments, f)
           n == Len(fragments)
<1>1. f \in Fragments /\ f.line = i /\ (f.damaged <=> i \in split)
  BY DEF Fragment, Fragments
<1>2. n \in Nat /\ DOMAIN fragments = 1..n
  BY LenProperties
<1>3. /\ all \in Seq(Fragments) /\ DOMAIN all = 1..(n + 1)
      /\ all[n + 1] = f /\ \A k \in 1..n : all[k] = fragments[k]
  BY <1>1, AppendProperties, LenProperties
<1> HIDE DEF f, all, n
<1>4. \A k \in 1..n : fragments[k].line \in lines /\ fragments[k].line < i
  BY <1>2 DEF Sent
<1>5. {all[k].line : k \in DOMAIN all} = lines \cup {i}
  <2>1. lines = {fragments[k].line : k \in 1..n}
    BY <1>2 DEF Sent
  <2>2. 1..(n + 1) = 1..n \cup {n + 1}
    BY <1>2, SMT
  <2> QED
    BY <1>1, <1>3, <2>1, <2>2
<1>6. ASSUME NEW k \in DOMAIN all, NEW l \in DOMAIN all, k < l
      PROVE  all[k].line < all[l].line
  <2>1. k \in 1..n /\ (l \in 1..n \/ l = n + 1)
    BY <1>2, <1>3, <1>6, SMT
  <2>2. CASE l \in 1..n
    BY <1>2, <1>3, <1>6, <2>1, <2>2 DEF Sent
  <2>3. CASE l = n + 1
    BY <1>1, <1>3, <1>4, <2>1, <2>3
  <2> QED
    BY <2>1, <2>2, <2>3
<1>7. ASSUME NEW k \in DOMAIN all
      PROVE  all[k].damaged <=> all[k].line \in split
  <2>1. k \in 1..n \/ k = n + 1
    BY <1>2, <1>3, <1>7, SMT
  <2> QED
    BY <1>1, <1>2, <1>3, <2>1 DEF Sent
<1> QED
  BY <1>3, <1>5, <1>6, <1>7 DEF Sent, all, f

LEMMA EndsWithAppend ==
  ASSUME NEW all \in Seq(Fragments), NEW last \in Seq(Fragments), EndsWith(all, last),
         NEW f \in Fragments
  PROVE  EndsWith(Append(all, f), Append(last, f))
<1> DEFINE a == Append(all, f)
           b == Append(last, f)
           m == Len(all)
           n == Len(last)
<1>1. m \in Nat /\ n \in Nat /\ n <= m /\ DOMAIN last = 1..n
  BY LenProperties DEF EndsWith
<1>2. /\ Len(a) = m + 1 /\ a[m + 1] = f /\ \A k \in 1..m : a[k] = all[k]
      /\ Len(b) = n + 1 /\ b[n + 1] = f /\ \A k \in 1..n : b[k] = last[k]
      /\ DOMAIN b = 1..(n + 1)
  BY AppendProperties, LenProperties
<1>3. \A k \in 1..n : last[k] = all[m - n + k]
  BY <1>1 DEF EndsWith
<1> HIDE DEF a, b, m, n
<1>4. ASSUME NEW k \in 1..(n + 1) PROVE b[k] = a[(m + 1) - (n + 1) + k]
  <2>1. CASE k = n + 1
    BY <1>1, <1>2, <2>1, (m + 1) - (n + 1) + (n + 1) = m + 1
  <2>2. CASE k # n + 1
    <3>1. k \in 1..n /\ (m + 1) - (n + 1) + k = m - n + k /\ m - n + k \in 1..m
      BY <1>1, <2>2, SMT
    <3> QED
      BY <1>2, <1>3, <3>1
  <2> QED
    BY <2>1, <2>2
<1>5. n + 1 <= m + 1
  BY <1>1
<1> QED
  BY <1>2, <1>4, <1>5 DEF EndsWith, a, b

LEMMA SlotIsThere ==
  ASSUME NEW acc \in Seq(Seq(Fragments)), NEW index \in Nat, index > 0
  PROVE  /\ Slot(acc, index) \in Seq(Seq(Fragments))
         /\ index \in DOMAIN Slot(acc, index) /\ DOMAIN acc \subseteq DOMAIN Slot(acc, index)
         /\ \A s \in DOMAIN Slot(acc, index) :
              Slot(acc, index)[s] = IF s \in DOMAIN acc THEN acc[s] ELSE <<>>
<1> DEFINE n == Len(acc)
           more == [k \in 1..(index - n) |-> <<>>]
<1>1. n \in Nat /\ DOMAIN acc = 1..n
  BY LenProperties
<1>2. CASE n >= index
  BY <1>1, <1>2, LenProperties DEF Slot
<1>3. CASE n < index
  <2>1. index - n \in Nat
    BY <1>1, <1>3
  <2>2. more \in Seq(Seq(Fragments)) /\ Len(more) = index - n
    BY <2>1, IsASeq, EmptySeq
  <2>3. Slot(acc, index) = acc \o more
    BY <1>1, <1>3 DEF Slot
  <2>4. /\ acc \o more \in Seq(Seq(Fragments)) /\ Len(acc \o more) = index
        /\ \A s \in 1..index : (acc \o more)[s] = IF s <= n THEN acc[s] ELSE more[s - n]
    BY <1>1, <2>1, <2>2, ConcatProperties
  <2>5. DOMAIN (acc \o more) = 1..index
    BY <2>4, LenProperties
  <2>6. \A s \in 1..index : s > n => s - n \in 1..(index - n) /\ more[s - n] = <<>>
    BY <1>1, <2>1, SMT
  <2> HIDE DEF n, more
  <2>7. index \in 1..index /\ 1..n \subseteq 1..index
    BY <1>1, <1>3, SMT
  <2>8. \A s \in 1..index :
          (acc \o more)[s] = IF s \in 1..n THEN acc[s] ELSE <<>>
    <3> SUFFICES ASSUME NEW s \in 1..index
                 PROVE  (acc \o more)[s] = IF s \in 1..n THEN acc[s] ELSE <<>>
      OBVIOUS
    <3>1. s \in 1..n <=> s <= n
      BY <1>1, SMT
    <3>2. (acc \o more)[s] = IF s <= n THEN acc[s] ELSE more[s - n]
      BY <2>4
    <3>3. ~(s <= n) => more[s - n] = <<>>
      BY <1>1, <2>6, SMT
    <3> QED
      BY <3>1, <3>2, <3>3, Zenon
  <2> QED
    BY <1>1, <2>3, <2>4, <2>5, <2>7, <2>8
<1> QED
  BY <1>1, <1>2, <1>3

LEMMA ScriptType ==
  ASSUME script \in Scripts
  PROVE  /\ script \in Seq(SseLine) /\ Len(script) \in Nat /\ DOMAIN script = 1..Len(script)
         /\ \A i \in 1..Len(script) :
              script[i] \in SseLine /\ (script[i].kind = "call" => script[i].index > 0)
BY StreamAssumption, LenProperties, ElementOfSeq DEF StreamAssumption

LEMMA UpToNext ==
  ASSUME NEW n \in Nat, \A i \in 1..n : script[i].kind # "done"
  PROVE  /\ UpTo(n) = 1..n
         /\ UpTo(n + 1) = IF script[n + 1].kind = "done" THEN UpTo(n) ELSE UpTo(n) \cup {n + 1}
         /\ \A i \in UpTo(n) : i \in Nat /\ i < n + 1
<1>1. UpTo(n) = 1..n
  BY SMT DEF UpTo
<1>2. 1..(n + 1) = 1..n \cup {n + 1}
  BY SMT
<1>3. \A i \in 1..n : 1..i \subseteq 1..n
  BY SMT
<1>4. n + 1 \in 1..(n + 1)
  BY SMT
<1>5. \A i \in 1..n : i # n + 1 /\ i \in Nat /\ i < n + 1
  BY SMT
<1>6. CASE script[n + 1].kind = "done"
  <2>1. n + 1 \notin UpTo(n + 1)
    BY <1>4, <1>6 DEF UpTo
  <2>2. \A i \in 1..n : i \in UpTo(n + 1)
    BY <1>2, <1>3 DEF UpTo
  <2> QED
    BY <1>1, <1>2, <1>5, <1>6, <2>1, <2>2 DEF UpTo
<1>7. CASE script[n + 1].kind # "done"
  <2>1. UpTo(n + 1) = 1..(n + 1)
    BY <1>2, <1>3, <1>7 DEF UpTo
  <2> QED
    BY <1>1, <1>2, <1>5, <1>7, <2>1
<1> QED
  BY <1>6, <1>7

(* A walk gathers the line it pushes.                                      *)
LEMMA PushGathers ==
  ASSUME script \in Scripts, NEW st \in Walks, st.end = "no", st.rest = <<>>,
         NEW n \in Nat, n < Len(script),
         \A i \in 1..n : script[i].kind \notin {"done", "bad"},
         NEW split, Gathered(st.text, st.calls, st.heard, n, split),
         NEW d \in BOOLEAN, d <=> n + 1 \in split
  PROVE  LET next == Push(st, n + 1, d)
         IN  /\ next \in Walks /\ next.rest = <<>>
             /\ next.end = "no" => script[n + 1].kind \notin {"done", "bad"}
             /\ next.end = "done" => script[n + 1].kind = "done"
             /\ next.end # "bad" => Gathered(next.text, next.calls, next.heard, n + 1, split)
<1> DEFINE line == script[n + 1]
           f == Fragment(n + 1, d)
           next == Push(st, n + 1, d)
           lines == UpTo(n)
           nowLines == UpTo(n + 1)
<1>1. /\ line \in SseLine /\ (line.kind = "call" => line.index \in Nat /\ line.index > 0)
      /\ line.kind \in {"content", "call", "usage", "done", "bad"}
  <2>1. n + 1 \in 1..Len(script)
    BY ScriptType, SMT
  <2> QED
    BY <2>1, ScriptType DEF SseLine
<1>2. f \in Fragments
  BY DEF Fragment, Fragments
<1>3. /\ st.text \in Seq(Fragments) /\ st.calls \in Seq(Seq(Fragments))
      /\ st.heard \in Seq(Fragments)
  BY DEF Walks
<1>4. /\ nowLines = IF line.kind = "done" THEN lines ELSE lines \cup {n + 1}
      /\ \A i \in lines : i \in Nat /\ i < n + 1
      /\ n + 1 \in Nat
  <2>1. \A i \in 1..n : script[i].kind # "done"
    OBVIOUS
  <2>2. n + 1 \in Nat
    BY SMT
  <2>3. /\ UpTo(n + 1) = IF script[n + 1].kind = "done" THEN UpTo(n) ELSE UpTo(n) \cup {n + 1}
        /\ \A i \in UpTo(n) : i \in Nat /\ i < n + 1
    BY ONLY n \in Nat, <2>1, UpToNext
  <2> QED
    BY <2>2, <2>3, Zenon
<1>5. /\ Sent(st.text, Contents(lines), split)
      /\ \A s \in DOMAIN st.calls : Sent(st.calls[s], CallParts(lines, s), split)
      /\ \A i \in lines : script[i].kind = "call" => script[i].index \in DOMAIN st.calls
      /\ EndsWith(st.heard, st.text)
  BY DEF Gathered
<1>6. line.kind # "content" => Contents(nowLines) = Contents(lines)
  BY <1>4 DEF Contents
<1>7. line.kind = "content" => Contents(nowLines) = Contents(lines) \cup {n + 1}
  BY <1>4 DEF Contents
<1>8. \A s : ~(line.kind = "call" /\ line.index = s) => CallParts(nowLines, s) = CallParts(lines, s)
  BY <1>4 DEF CallParts
<1>9. line.kind = "call" => CallParts(nowLines, line.index) = CallParts(lines, line.index) \cup {n + 1}
  BY <1>4 DEF CallParts
<1>10. line.kind # "call"
         => \A i \in nowLines : script[i].kind = "call" => script[i].index \in DOMAIN st.calls
  BY <1>4, <1>5
<1> HIDE DEF lines, nowLines, f
<1>11. CASE line.kind = "content"
  <2>1. next = [st EXCEPT !.text = Append(@, f), !.heard = Append(@, f)]
    BY <1>11 DEF Push, f
  <2>2. /\ next \in Walks /\ next.rest = <<>> /\ next.end = "no" /\ next.calls = st.calls
        /\ next.text = Append(st.text, f) /\ next.heard = Append(st.heard, f)
    <3>1. Append(st.text, f) \in Seq(Fragments) /\ Append(st.heard, f) \in Seq(Fragments)
      BY <1>2, <1>3, AppendProperties
    <3> QED
      BY <2>1, <3>1 DEF Walks
  <2>3. \A l \in Contents(lines) : l < n + 1
    BY <1>4 DEF Contents
  <2>4. Sent(next.text, Contents(nowLines), split)
    <3>1. Sent(Append(st.text, f), Contents(lines) \cup {n + 1}, split)
      BY <1>3, <1>4, <1>5, <2>3, SentAppend DEF f
    <3> QED
      BY <1>7, <1>11, <2>2, <3>1
  <2>5. EndsWith(next.heard, next.text)
    BY <1>2, <1>3, <1>5, <2>2, EndsWithAppend
  <2> QED
    BY <1>5, <1>8, <1>10, <1>11, <2>2, <2>4, <2>5 DEF Gathered, nowLines
<1>12. CASE line.kind = "call"
  <2> DEFINE slots == Slot(st.calls, line.index)
             old == slots[line.index]
             calls2 == [slots EXCEPT ![line.index] = Append(@, f)]
  <2>1. next = [st EXCEPT !.calls = calls2]
    BY <1>12 DEF Push, f
  <2>2. /\ slots \in Seq(Seq(Fragments)) /\ line.index \in DOMAIN slots
        /\ DOMAIN st.calls \subseteq DOMAIN slots
        /\ \A s \in DOMAIN slots : slots[s] = IF s \in DOMAIN st.calls THEN st.calls[s] ELSE <<>>
    BY <1>1, <1>3, <1>12, SlotIsThere
  <2> HIDE DEF slots
  <2>3. \A s \in DOMAIN slots : Sent(slots[s], CallParts(lines, s), split)
    <3>1. ASSUME NEW s, s \notin DOMAIN st.calls PROVE CallParts(lines, s) = {}
      BY <1>5, <3>1 DEF CallParts
    <3> QED
      BY <1>5, <2>2, <3>1, SentNothing
  <2>4. DOMAIN slots = 1..Len(slots) /\ slots \in [1..Len(slots) -> Seq(Fragments)]
    BY <2>2, LenProperties
  <2>5. old \in Seq(Fragments)
    BY <2>2, <2>4
  <2>6. /\ Append(old, f) \in Seq(Fragments)
        /\ Sent(Append(old, f), CallParts(nowLines, line.index), split)
    <3>1. \A l \in CallParts(lines, line.index) : l < n + 1
      BY <1>4 DEF CallParts
    <3> QED
      <4>1. Sent(old, CallParts(lines, line.index), split)
        BY <2>2, <2>3
      <4>2. /\ Append(old, f) \in Seq(Fragments)
            /\ Sent(Append(old, f), CallParts(lines, line.index) \cup {n + 1}, split)
        BY <1>4, <2>5, <3>1, <4>1, SentAppend DEF f
      <4> QED
        BY <1>9, <1>12, <4>2
  <2>7. /\ calls2 \in Seq(Seq(Fragments)) /\ DOMAIN calls2 = DOMAIN slots
        /\ calls2[line.index] = Append(old, f)
        /\ \A s \in DOMAIN slots : s # line.index => calls2[s] = slots[s]
    BY <2>2, <2>4, <2>6, ExceptSeq, LenProperties
  <2> HIDE DEF calls2
  <2>8. /\ next \in Walks /\ next.rest = <<>> /\ next.end = "no" /\ next.calls = calls2
        /\ next.text = st.text /\ next.heard = st.heard
    BY <2>1, <2>7 DEF Walks
  <2>9. \A s \in DOMAIN calls2 : Sent(calls2[s], CallParts(nowLines, s), split)
    BY <1>8, <2>3, <2>6, <2>7
  <2>10. \A i \in nowLines : script[i].kind = "call" => script[i].index \in DOMAIN calls2
    BY <1>4, <1>5, <1>12, <2>2, <2>7
  <2> QED
    BY <1>5, <1>6, <1>12, <2>8, <2>9, <2>10 DEF Gathered, nowLines
<1>13. CASE line.kind = "usage"
  <2>1. next = st
    BY <1>13 DEF Push
  <2> QED
    BY <1>5, <1>6, <1>8, <1>10, <1>13, <2>1 DEF Gathered, nowLines
<1>14. CASE line.kind = "done"
  <2>1. next = [st EXCEPT !.end = "done"]
    BY <1>14 DEF Push
  <2>2. /\ next \in Walks /\ next.rest = <<>> /\ next.end = "done" /\ next.calls = st.calls
        /\ next.text = st.text /\ next.heard = st.heard
    BY <2>1 DEF Walks
  <2> QED
    BY <1>5, <1>6, <1>8, <1>10, <1>14, <2>2 DEF Gathered, nowLines
<1>15. CASE line.kind = "bad"
  <2>1. next = [st EXCEPT !.end = "bad"]
    BY <1>15 DEF Push
  <2>2. next \in Walks /\ next.rest = <<>> /\ next.end = "bad"
    BY <2>1 DEF Walks
  <2> QED
    BY <2>2
<1> QED
  BY <1>1, <1>11, <1>12, <1>13, <1>14, <1>15
-----------------------------------------------------------------------------
(* The byte that comes after p others, and what is kept of a line then.    *)
ByteAfter(p, split) ==
  [line |-> (p \div Width) + 1, at |-> (p % Width) + 1,
   damaged |-> (p \div Width) + 1 \in split /\ (p % Width) + 1 <= 2]
Kept(p, split) ==
  [k \in 1..(p % Width) |->
     [line |-> (p \div Width) + 1, at |-> k, damaged |-> (p \div Width) + 1 \in split /\ k <= 2]]

WalkInv(st, p, split) ==
  /\ st \in Walks
  /\ st.end = "no" =>
       /\ st.rest = Kept(p, split)
       /\ \A i \in 1..(p \div Width) : script[i].kind \notin {"done", "bad"}
  /\ st.end = "done" => \E i \in 1..(p \div Width) : script[i].kind = "done"
  /\ st.end # "bad" => Gathered(st.text, st.calls, st.heard, p \div Width, split)

LEMMA KeptGrows ==
  ASSUME NEW p \in Nat, NEW split
  PROVE  /\ Kept(p, split) \in Seq(Bytes) /\ Len(Kept(p, split)) = p % Width
         /\ p % Width < Width - 1
              => Kept(p + 1, split) = Append(Kept(p, split), ByteAfter(p, split))
<1> DEFINE q == p \div Width
           r == p % Width
           byte(k) == [line |-> q + 1, at |-> k, damaged |-> q + 1 \in split /\ k <= 2]
<1>1. q \in Nat /\ r \in Nat
  BY Division
<1>2. ASSUME NEW n \in Nat
      PROVE  [k \in 1..n |-> byte(k)] \in Seq(Bytes) /\ Len([k \in 1..n |-> byte(k)]) = n
  <2>1. \A k \in 1..n : byte(k) \in Bytes
    BY <1>1 DEF Bytes
  <2> QED
    BY <2>1, IsASeq
<1>3. Kept(p, split) = [k \in 1..r |-> byte(k)]
  BY DEF Kept
<1>4. ASSUME r < Width - 1
      PROVE  Kept(p + 1, split) = Append(Kept(p, split), ByteAfter(p, split))
  <2>1. (p + 1) \div Width = q /\ (p + 1) % Width = r + 1
    BY <1>4, NextByte
  <2>2. Kept(p + 1, split) = [k \in 1..(r + 1) |-> byte(k)]
    BY <2>1 DEF Kept
  <2>3. ByteAfter(p, split) = byte(r + 1) /\ ByteAfter(p, split) \in Bytes
    BY <1>1 DEF ByteAfter, Bytes
  <2> DEFINE s == [k \in 1..r |-> byte(k)]
             t == [k \in 1..(r + 1) |-> byte(k)]
             u == Append(s, byte(r + 1))
  <2>4. s \in Seq(Bytes) /\ Len(s) = r /\ \A k \in 1..r : s[k] = byte(k)
    BY <1>1, <1>2
  <2>5. t \in Seq(Bytes) /\ Len(t) = r + 1 /\ \A k \in 1..(r + 1) : t[k] = byte(k)
    <3>1. r + 1 \in Nat
      BY <1>1
    <3>2. t \in Seq(Bytes) /\ Len(t) = r + 1
      BY <1>2, <3>1
    <3> QED
      BY <3>2
  <2>6. byte(r + 1) \in Bytes
    BY <2>3
  <2> HIDE DEF s, t, byte
  <2>7. u \in Seq(Bytes) /\ Len(u) = r + 1 /\ u[r + 1] = byte(r + 1) /\ \A k \in 1..r : u[k] = s[k]
    BY <2>4, <2>6, AppendProperties
  <2>8. \A k \in 1..(r + 1) : k \in 1..r \/ k = r + 1
    BY <1>1, SMT
  <2>9. \A k \in 1..(r + 1) : t[k] = u[k]
    BY <2>4, <2>5, <2>7, <2>8
  <2>10. t = u
    BY <2>5, <2>7, <2>9, SeqEqual
  <2> QED
    BY <1>3, <2>2, <2>3, <2>10 DEF s, t
<1> QED
  BY <1>1, <1>2, <1>3, <1>4

(* A line that is complete is pushed, damaged if it was split.             *)
LEMMA LineIsTaken ==
  ASSUME NEW p \in Nat, p % Width = Width - 1, NEW split, NEW st \in Walks,
         st.rest = Kept(p, split)
  PROVE  \E d \in BOOLEAN :
           /\ d <=> (p \div Width) + 1 \in split
           /\ TakeLine(st) = Push([st EXCEPT !.rest = <<>>], (p \div Width) + 1, d)
<1> DEFINE q == p \div Width
           bytes == Kept(p, split)
           d == \E k \in DOMAIN bytes : bytes[k].damaged
<1>1. q \in Nat /\ Width - 1 \in Nat /\ Width - 1 >= 2
  BY Division, StreamAssumption, SMT DEF StreamAssumption
<1>2. bytes \in Seq(Bytes) /\ Len(bytes) = Width - 1 /\ DOMAIN bytes = 1..(Width - 1)
  BY KeptGrows, LenProperties
<1>3. \A k \in 1..(Width - 1) :
        /\ bytes[k].line = q + 1 /\ bytes[k].at = k
        /\ bytes[k].damaged <=> q + 1 \in split /\ k <= 2
  BY DEF Kept
<1>4. 1 \in 1..(Width - 1) /\ 1 <= 2
  BY <1>1, SMT
<1>5. Head(bytes) = bytes[1] /\ bytes # <<>>
  BY <1>1, <1>2
<1> HIDE DEF bytes, q
<1>6. Head(bytes).at = 1 /\ Head(bytes).line = q + 1
  BY <1>3, <1>4, <1>5, Zenon
<1>7. d <=> q + 1 \in split
  BY <1>2, <1>3, <1>4, Zenon
<1>8. TakeLine(st) = Push([st EXCEPT !.rest = <<>>], q + 1, d)
  BY <1>2, <1>5, <1>6 DEF TakeLine, bytes
<1> QED
  BY <1>7, <1>8 DEF q

LEMMA UpToEnds ==
  ASSUME NEW n \in Nat, NEW m \in Nat, n <= m, \E i \in 1..n : script[i].kind = "done"
  PROVE  UpTo(m) = UpTo(n) /\ \E i \in 1..m : script[i].kind = "done"
<1>1. PICK i \in 1..n : script[i].kind = "done"
  OBVIOUS
<1>2. 1..n \subseteq 1..m /\ i \in 1..m
  BY SMT
<1>3. \A k \in 1..m : k \notin 1..n => i \in 1..k
  BY SMT
<1> QED
  BY <1>1, <1>2, <1>3 DEF UpTo

(* One byte more.                                                          *)
LEMMA ByteWalks ==
  ASSUME script \in Scripts, NEW p \in Nat, p < Total, NEW split, NEW st, WalkInv(st, p, split)
  PROVE  WalkInv(TakeByte(st, ByteAfter(p, split)), p + 1, split)
<1> DEFINE q == p \div Width
           r == p % Width
           b == ByteAfter(p, split)
           next == TakeByte(st, b)
<1>1. q \in Nat /\ r \in Nat /\ r < Width /\ p + 1 \in Nat
  BY Division
<1>2. st \in Walks /\ st.end \in {"no", "done", "bad"}
  BY DEF WalkInv, Walks
<1>3. b.at = r + 1 /\ b.line = q + 1 /\ b \in Bytes
  BY <1>1 DEF ByteAfter, Bytes
<1>4. CASE st.end = "bad"
  <2>1. next = st
    BY <1>4 DEF TakeByte
  <2> QED
    BY <1>2, <1>4, <2>1 DEF WalkInv
<1>5. CASE st.end = "done"
  <2>1. next = st
    BY <1>5 DEF TakeByte
  <2>2. q <= (p + 1) \div Width /\ (p + 1) \div Width \in Nat
    BY <1>1, DivisionGrows, Division
  <2>3. \E i \in 1..q : script[i].kind = "done"
    BY <1>5 DEF WalkInv
  <2>4. /\ UpTo((p + 1) \div Width) = UpTo(q)
        /\ \E i \in 1..((p + 1) \div Width) : script[i].kind = "done"
    BY <1>1, <2>2, <2>3, UpToEnds
  <2>5. Gathered(st.text, st.calls, st.heard, q, split)
    BY <1>5 DEF WalkInv
  <2> QED
    BY <1>2, <1>5, <2>1, <2>4, <2>5 DEF WalkInv, Gathered
<1>6. CASE st.end = "no" /\ r # Width - 1
  <2>1. r < Width - 1 /\ r + 1 # Width
    BY <1>1, <1>6, StreamAssumption, SMT DEF StreamAssumption
  <2>2. next = [st EXCEPT !.rest = Append(@, b)]
    BY <1>3, <1>6, <2>1 DEF TakeByte
  <2>3. st.rest = Kept(p, split) /\ st.rest \in Seq(Bytes)
    BY <1>2, <1>6 DEF WalkInv, Walks
  <2>4. Append(st.rest, b) = Kept(p + 1, split) /\ Append(st.rest, b) \in Seq(Bytes)
    BY <1>1, <2>1, <2>3, KeptGrows
  <2>5. (p + 1) \div Width = q
    BY <2>1, NextByte
  <2>6. /\ next \in Walks /\ next.rest = Append(st.rest, b) /\ next.end = "no"
        /\ next.text = st.text /\ next.calls = st.calls /\ next.heard = st.heard
    BY <1>2, <1>6, <2>2, <2>4 DEF Walks
  <2> QED
    BY <1>6, <2>4, <2>5, <2>6 DEF WalkInv
<1>7. CASE st.end = "no" /\ r = Width - 1
  <2> DEFINE clear == [st EXCEPT !.rest = <<>>]
  <2>1. r + 1 = Width
    BY <1>7, StreamAssumption, SMT DEF StreamAssumption
  <2>2. next = TakeLine(st)
    BY <1>3, <1>7, <2>1 DEF TakeByte
  <2>3. st.rest = Kept(p, split) /\ \A i \in 1..q : script[i].kind \notin {"done", "bad"}
    BY <1>7 DEF WalkInv
  <2>4. PICK d \in BOOLEAN : (d <=> q + 1 \in split) /\ next = Push(clear, q + 1, d)
    BY <1>2, <1>7, <2>2, <2>3, LineIsTaken
  <2>5. /\ clear \in Walks /\ clear.rest = <<>> /\ clear.end = "no"
        /\ clear.text = st.text /\ clear.calls = st.calls /\ clear.heard = st.heard
    BY <1>2, <1>7, EmptySeq DEF Walks
  <2>6. Gathered(clear.text, clear.calls, clear.heard, q, split)
    BY <1>7, <2>5 DEF WalkInv
  <2>7. q < Len(script)
    BY ScriptType, WithinScript DEF Total
  <2> HIDE DEF clear
  <2>8. /\ next \in Walks /\ next.rest = <<>>
        /\ next.end = "no" => script[q + 1].kind \notin {"done", "bad"}
        /\ next.end = "done" => script[q + 1].kind = "done"
        /\ next.end # "bad" => Gathered(next.text, next.calls, next.heard, q + 1, split)
    <3>1. LET then == Push(clear, q + 1, d)
          IN  /\ then \in Walks /\ then.rest = <<>>
              /\ then.end = "no" => script[q + 1].kind \notin {"done", "bad"}
              /\ then.end = "done" => script[q + 1].kind = "done"
              /\ then.end # "bad" => Gathered(then.text, then.calls, then.heard, q + 1, split)
      BY <1>1, <2>3, <2>4, <2>5, <2>6, <2>7, PushGathers
    <3> HIDE DEF next, q
    <3> QED
      BY <2>4, <3>1
  <2>9. (p + 1) \div Width = q + 1 /\ (p + 1) % Width = 0
    BY <1>7, NextByte
  <2>10. Kept(p + 1, split) = <<>>
    BY <2>9 DEF Kept
  <2>11. q + 1 \in 1..(q + 1) /\ \A i \in 1..(q + 1) : i \in 1..q \/ i = q + 1
    BY <1>1, SMT
  <2> QED
    BY <2>3, <2>8, <2>9, <2>10, <2>11 DEF WalkInv
<1> QED
  BY <1>2, <1>4, <1>5, <1>6, <1>7
-----------------------------------------------------------------------------
(* The walk over a chunk is what its definition says: it begins at st, and *)
(* each byte is taken in the state the bytes before it lead to.            *)
LEMMA WalkIs ==
  ASSUME NEW st, NEW chunk, Len(chunk) \in Nat
  PROVE  /\ Walk(st, chunk)[0] = st
         /\ \A k \in 1..Len(chunk) :
              Walk(st, chunk)[k] = TakeByte(Walk(st, chunk)[k - 1], chunk[k])
<1> DEFINE Is(f, n) == f = [k \in 0..n |-> IF k = 0 THEN st ELSE TakeByte(f[k - 1], chunk[k])]
           Lengths == {n \in Nat : \E f : Is(f, n)}
<1>1. 0 \in Lengths
  <2> DEFINE f == [k \in 0..0 |-> st]
  <2>1. Is(f, 0)
    BY \A k \in 0..0 : k = 0
  <2> QED
    BY <2>1, Zenon
<1>2. ASSUME NEW n \in Nat, n \in Lengths PROVE n + 1 \in Lengths
  <2>1. PICK f : Is(f, n)
    BY <1>2
  <2> DEFINE g == [k \in 0..(n + 1) |-> IF k \in 0..n THEN f[k] ELSE TakeByte(f[n], chunk[n + 1])]
  <2>2. \A k \in 0..n : g[k] = f[k] /\ f[k] = IF k = 0 THEN st ELSE TakeByte(f[k - 1], chunk[k])
    BY <2>1, SMT
  <2>3. g[n + 1] = TakeByte(f[n], chunk[n + 1])
    BY SMT
  <2>4. \A k \in 0..(n + 1) : g[k] = IF k = 0 THEN st ELSE TakeByte(g[k - 1], chunk[k])
    <3> HIDE DEF g
    <3> SUFFICES ASSUME NEW k \in 0..(n + 1)
                 PROVE  g[k] = IF k = 0 THEN st ELSE TakeByte(g[k - 1], chunk[k])
      OBVIOUS
    <3>1. CASE k = n + 1
      <4>1. k # 0 /\ k - 1 = n /\ n \in 0..n
        BY <3>1, SMT
      <4> QED
        BY <2>2, <2>3, <3>1, <4>1
    <3>2. CASE k # n + 1
      <4>1. k \in 0..n /\ (k # 0 => k - 1 \in 0..n)
        BY <3>2, SMT
      <4> QED
        BY <2>2, <4>1
    <3> QED
      BY <3>1, <3>2
  <2>5. Is(g, n + 1)
    BY <2>4, Zenon
  <2> QED
    BY <2>5, n + 1 \in Nat, Zenon
<1>3. \E f : Is(f, Len(chunk))
  BY <1>1, <1>2, InductionOverSet
<1>4. Is(Walk(st, chunk), Len(chunk))
  <2>1. Walk(st, chunk) = CHOOSE f : Is(f, Len(chunk))
    BY DEF Walk
  <2> QED
    BY <1>3, <2>1, Zenon
<1> DEFINE w == Walk(st, chunk)
<1> HIDE DEF w
<1>5. \A k \in 0..Len(chunk) : w[k] = IF k = 0 THEN st ELSE TakeByte(w[k - 1], chunk[k])
  BY <1>4, Zenon DEF w
<1>6. 0 \in 0..Len(chunk) /\ \A k \in 1..Len(chunk) : k \in 0..Len(chunk) /\ k # 0
  BY SMT
<1> QED
  BY <1>5, <1>6 DEF w

(* A chunk that carries on where p bytes ended.                            *)
LEMMA ChunkWalks ==
  ASSUME script \in Scripts, NEW p \in Nat, NEW chunk, Len(chunk) \in Nat,
         p + Len(chunk) <= Total, NEW split, NEW st, WalkInv(st, p, split),
         \A k \in 1..Len(chunk) : chunk[k] = ByteAfter(p + k - 1, split)
  PROVE  WalkInv(Walk(st, chunk)[Len(chunk)], p + Len(chunk), split)
<1> DEFINE n == Len(chunk)
           w == Walk(st, chunk)
           Good == {k \in Nat : k <= n => WalkInv(w[k], p + k, split)}
<1>1. w[0] = st /\ \A k \in 1..n : w[k] = TakeByte(w[k - 1], chunk[k])
  BY WalkIs
<1>2. Total \in Nat
  BY ScriptType, StreamAssumption, SMT DEF Total, StreamAssumption
<1> HIDE DEF n, w
<1>3. 0 \in Good
  BY <1>1, p + 0 = p
<1>4. ASSUME NEW k \in Nat, k \in Good PROVE k + 1 \in Good
  <2> SUFFICES ASSUME k + 1 <= n PROVE WalkInv(w[k + 1], p + (k + 1), split)
    BY k + 1 \in Nat
  <2>1. /\ k <= n /\ k + 1 \in 1..n /\ (k + 1) - 1 = k /\ p + (k + 1) - 1 = p + k
        /\ p + k \in Nat /\ p + k < Total /\ p + (k + 1) = (p + k) + 1
    BY <1>2, SMT DEF n
  <2>2. WalkInv(w[k], p + k, split)
    BY <1>4, <2>1
  <2>3. w[k + 1] = TakeByte(w[k], ByteAfter(p + k, split))
    BY <1>1, <2>1 DEF n
  <2> QED
    BY <2>1, <2>2, <2>3, ByteWalks
<1>5. n \in Good
  BY <1>3, <1>4, InductionOverSet DEF n
<1> QED
  BY <1>5 DEF n, w
-----------------------------------------------------------------------------
(* The stream, chunk by chunk.                                             *)

LEMMA SameLine ==
  ASSUME NEW p \in Nat, NEW b \in Nat, p <= b, p \div Width = b \div Width
  PROVE  b % Width = (p % Width) + (b - p)
<1> DEFINE whole == Width * (p \div Width)
<1>1. Width \in Nat /\ whole \in Int
  BY Division, StreamAssumption, SMT DEF StreamAssumption
<1>2. p = whole + (p % Width) /\ b = whole + (b % Width) /\ p % Width \in Nat /\ b % Width \in Nat
  BY Division
<1> HIDE DEF whole
<1> QED
  BY <1>1, <1>2, SMT

(* The byte p is the first of its line: it is followed by the second one.  *)
LEMMA FirstOfLine ==
  ASSUME NEW p \in Nat
  PROVE  /\ p > 0 /\ AtOf(p) = 1 => p % Width = 1 /\ LineOf(p) = (p \div Width) + 1
         /\ p % Width = 1 => p > 0 /\ AtOf(p) = 1 /\ LineOf(p) = (p \div Width) + 1
<1>1. Width \in Nat /\ Width > 2
  BY StreamAssumption DEF StreamAssumption
<1>2. ASSUME p > 0, AtOf(p) = 1
      PROVE  p % Width = 1 /\ LineOf(p) = (p \div Width) + 1
  <2>1. p - 1 \in Nat /\ (p - 1) + 1 = p
    BY <1>2, SMT
  <2>2. (p - 1) % Width = 0
    <3>1. (p - 1) % Width \in Nat
      BY <2>1, Division
    <3> QED
      BY <1>2, <3>1, SMT DEF AtOf
  <2>3. 0 < Width - 1
    BY <1>1, SMT
  <2>4. p \div Width = (p - 1) \div Width /\ p % Width = 0 + 1
    BY <2>1, <2>2, <2>3, NextByte
  <2> QED
    BY <2>4 DEF LineOf
<1>3. ASSUME p % Width = 1
      PROVE  p > 0 /\ AtOf(p) = 1 /\ LineOf(p) = (p \div Width) + 1
  <2> DEFINE q == p \div Width
  <2>1. q \in Nat /\ p = Width * q + 1
    BY <1>3, Division
  <2>2. Width * q \in Nat
    BY <1>1, <2>1, SMT
  <2> HIDE DEF q
  <2>3. p > 0 /\ p - 1 \in Nat /\ p - 1 = Width * q + 0
    BY <2>1, <2>2, SMT
  <2>4. (p - 1) \div Width = q /\ (p - 1) % Width = 0
    BY <1>1, <2>1, <2>3, DivisionIs
  <2> QED
    BY <2>3, <2>4 DEF AtOf, LineOf, q
<1> QED
  BY <1>2, <1>3

(* Where the lines that are split are: none beyond the one under way.      *)
SplitInv ==
  /\ cut \subseteq 1..((arrived \div Width) + 1)
  /\ (arrived \div Width) + 1 \in cut =>
       /\ arrived % Width > 0 /\ script[(arrived \div Width) + 1].wide
  /\ Splits(arrived) => LineOf(arrived) \in cut

(* While the stream is read the answer is that of the lines in full, none  *)
(* of which ended it, and what is kept is the beginning of the next.       *)
StreamInv ==
  /\ stream \in {"reading", "answered", "failed"}
  /\ script \in Scripts /\ arrived \in Nat /\ arrived <= Total
  /\ SplitInv
  /\ stream # "failed" => Gathered(text, calls, heard, arrived \div Width, cut)
  /\ stream = "reading" =>
       /\ text \in Seq(Fragments) /\ calls \in Seq(Seq(Fragments)) /\ heard \in Seq(Fragments)
       /\ buf = Kept(arrived, cut)
       /\ \A i \in 1..(arrived \div Width) : script[i].kind \notin {"done", "bad"}

LEMMA StreamInvInit == Start => StreamInv
<1> SUFFICES ASSUME Start PROVE StreamInv
  OBVIOUS
<1>1. 0 \div Width = 0 /\ 0 % Width = 0 /\ Total \in Nat
  BY ScriptType, StreamAssumption, SMT DEF Start, Total, StreamAssumption
<1>2. 1..0 = {}
  BY SMT
<1>3. UpTo(0) = {} /\ Contents(UpTo(0)) = {} /\ \A s : CallParts(UpTo(0), s) = {}
  BY <1>2 DEF UpTo, Contents, CallParts
<1>4. EndsWith(<<>>, <<>>)
  BY SMT DEF EndsWith
<1>5. Gathered(<<>>, <<>>, <<>>, 0, {})
  BY <1>3, <1>4, SentNothing DEF Gathered
<1>6. Kept(0, {}) = <<>>
  BY <1>1 DEF Kept
<1>7. ~Splits(0)
  BY <1>1, SMT DEF Splits
<1>8. arrived = 0 /\ cut = {} /\ text = <<>> /\ calls = <<>> /\ heard = <<>> /\ buf = <<>>
      /\ stream = "reading" /\ script \in Scripts
  BY DEF Start
<1> QED
  BY <1>1, <1>2, <1>5, <1>6, <1>7, <1>8, EmptySeq, SMT DEF StreamInv, SplitInv

(* The lines two chunks share: the one the chunk ends in joins them, and   *)
(* no line that is complete, or begun, does.                               *)
LEMMA SplitsGrow ==
  ASSUME StreamInv, NEW n \in Nat, n > 0, arrived + n <= Total,
         arrived' = arrived + n, script' = script,
         cut' = IF Splits(arrived + n) THEN cut \cup {LineOf(arrived + n)} ELSE cut
  PROVE  /\ \A l \in 1..(arrived \div Width) : l \in cut' <=> l \in cut
         /\ arrived % Width > 0 => ((arrived \div Width) + 1 \in cut' <=> (arrived \div Width) + 1 \in cut)
         /\ SplitInv'
<1> DEFINE p == arrived
           e == arrived + n
           q == arrived \div Width
<1>1. /\ p \in Nat /\ e \in Nat /\ e - 1 \in Nat /\ p <= e - 1 /\ p <= e /\ e > 0 /\ (e - 1) + 1 = e
  BY SMT DEF StreamInv
<1>2. /\ q \in Nat /\ p % Width \in Nat /\ e \div Width \in Nat /\ e % Width \in Nat
      /\ (e - 1) \div Width \in Nat /\ q <= (e - 1) \div Width /\ (e - 1) \div Width <= e \div Width
  BY <1>1, Division, DivisionGrows, SMT
<1>3. LineOf(e) = ((e - 1) \div Width) + 1
  BY DEF LineOf
<1>4. Splits(e) => /\ e % Width = 1 /\ LineOf(e) = (e \div Width) + 1
                   /\ (e - 1) % Width = 0 /\ script[LineOf(e)].wide
  <2>1. Splits(e) => AtOf(e) = 1 /\ script[LineOf(e)].wide
    BY DEF Splits
  <2>2. (e - 1) % Width \in Nat
    BY <1>1, Division
  <2>3. AtOf(e) = 1 => (e - 1) % Width = 0
    BY <2>2, SMT DEF AtOf
  <2> QED
    BY <1>1, <2>1, <2>3, FirstOfLine
<1>5. /\ cut \subseteq 1..(q + 1)
      /\ q + 1 \in cut => p % Width > 0 /\ script[q + 1].wide
  BY DEF StreamInv, SplitInv
<1> HIDE DEF p, e, q
<1>6. cut' = IF Splits(e) THEN cut \cup {LineOf(e)} ELSE cut
  BY DEF e
<1>7. ASSUME NEW l \in 1..q PROVE l \in cut' <=> l \in cut
  <2>1. l # LineOf(e)
    BY <1>2, <1>3, SMT
  <2> QED
    BY <1>6, <2>1
<1>8. ASSUME p % Width > 0 PROVE q + 1 \in cut' <=> q + 1 \in cut
  <2>1. ASSUME Splits(e), LineOf(e) = q + 1 PROVE FALSE
    <3>1. (e - 1) \div Width = q
      BY <1>2, <1>3, <2>1, SMT
    <3>2. (e - 1) % Width = (p % Width) + ((e - 1) - p)
      BY <1>1, <3>1, SameLine DEF q, p
    <3> QED
      BY <1>1, <1>2, <1>4, <1>8, <2>1, <3>2, SMT
  <2> QED
    BY <1>6, <2>1
<1>9. cut' \subseteq 1..((e \div Width) + 1)
  <2>1. 1..(q + 1) \subseteq 1..((e \div Width) + 1) /\ LineOf(e) \in 1..((e \div Width) + 1)
    BY <1>2, <1>3, SMT
  <2> QED
    BY <1>5, <1>6, <2>1
<1>10. ASSUME (e \div Width) + 1 \in cut'
       PROVE  e % Width > 0 /\ script[(e \div Width) + 1].wide
  <2>1. CASE (e \div Width) + 1 \in cut
    <3>1. (e \div Width) + 1 \in 1..(q + 1)
      BY <1>5, <2>1
    <3>2. e \div Width = q
      BY <1>2, <3>1, SMT
    <3>3. e % Width = (p % Width) + (e - p)
      BY <1>1, <3>2, SameLine DEF q, p
    <3>4. p % Width > 0 /\ script[q + 1].wide
      BY <1>5, <2>1, <3>2
    <3> QED
      BY <1>1, <1>2, <3>2, <3>3, <3>4, SMT
  <2>2. CASE (e \div Width) + 1 \notin cut
    <3>1. Splits(e) /\ (e \div Width) + 1 = LineOf(e)
      BY <1>6, <1>10, <2>2
    <3> QED
      BY <1>4, <3>1, SMT
  <2> QED
    BY <2>1, <2>2
<1>11. Splits(e) => LineOf(e) \in cut'
  BY <1>6
<1>12. arrived' = e /\ (Splits(arrived)' <=> Splits(e)) /\ LineOf(arrived)' = LineOf(e)
  BY DEF e, Splits, LineOf, AtOf, Total
<1> QED
  BY <1>7, <1>8, <1>9, <1>10, <1>11, <1>12 DEF SplitInv, q, p

(* The bytes of a chunk, each damaged just where two chunks share one.     *)
LEMMA ChunkIs ==
  ASSUME StreamInv, NEW n \in Nat, n > 0, arrived + n <= Total,
         cut' = IF Splits(arrived + n) THEN cut \cup {LineOf(arrived + n)} ELSE cut
  PROVE  /\ Len(Chunk(n)) = n
         /\ \A k \in 1..n : Chunk(n)[k] = ByteAfter(arrived + k - 1, cut')
<1> DEFINE p == arrived
           e == arrived + n
<1>1. p \in Nat /\ p <= Total /\ e \in Nat /\ e - 1 \in Nat /\ p \div Width \in Nat /\ p % Width \in Nat
  <2>1. p \in Nat /\ p <= Total
    BY DEF StreamInv
  <2>2. p \div Width \in Nat /\ p % Width \in Nat
    BY <2>1, Division
  <2>3. e \in Nat /\ e - 1 \in Nat
    BY <2>1, SMT
  <2> QED
    BY <2>1, <2>2, <2>3
<1>2. /\ cut \subseteq 1..((p \div Width) + 1)
      /\ (p \div Width) + 1 \in cut => p % Width > 0 /\ script[(p \div Width) + 1].wide
      /\ Splits(p) => LineOf(p) \in cut
  BY DEF StreamInv, SplitInv
<1>3. Len(Chunk(n)) = n
  BY DEF Chunk
<1>4. ASSUME NEW k \in 1..n PROVE Chunk(n)[k] = ByteAfter(p + k - 1, cut')
  <2> DEFINE o == p + k - 1
             b == p + k
             damaged == (k = n /\ Splits(b)) \/ (k = 1 /\ Splits(b - 1))
  <2>1. /\ k \in Nat /\ k >= 1 /\ o \in Nat /\ b \in Nat /\ b > 0 /\ p <= o /\ o <= e - 1
        /\ b - 1 = o /\ o \div Width \in Nat /\ o % Width \in Nat /\ o = p + (k - 1)
        /\ e - 1 = o + (n - k)
    <3>1. k \in Nat /\ k >= 1 /\ o \in Nat
      BY <1>1, SMT
    <3> QED
      BY <1>1, <3>1, Division, SMT
  <2>2. LineOf(b) = (o \div Width) + 1 /\ AtOf(b) = (o % Width) + 1
    BY <2>1 DEF LineOf, AtOf
  <2>3. Chunk(n)[k] = [line |-> LineOf(b), at |-> AtOf(b), damaged |-> damaged]
    BY DEF Chunk
  <2>4. cut' = IF Splits(e) THEN cut \cup {LineOf(e)} ELSE cut
    OBVIOUS
  <2> HIDE DEF p, e, o, b
  <2>5. ASSUME k = n, Splits(b)
        PROVE  (o \div Width) + 1 \in cut' /\ (o % Width) + 1 <= 2
    <3>1. b = e
      BY <2>5 DEF b, e, p
    <3>2. AtOf(b) = 1 /\ LineOf(b) \in cut'
      BY <2>4, <2>5, <3>1 DEF Splits
    <3> QED
      BY <2>2, <3>2, SMT
  <2>6. ASSUME k = 1, Splits(b - 1)
        PROVE  (o \div Width) + 1 \in cut' /\ (o % Width) + 1 <= 2
    <3>1. b - 1 = p /\ o = p
      BY <1>1, <2>1, <2>6, SMT
    <3>2. p > 0 /\ AtOf(p) = 1 /\ LineOf(p) \in cut
      BY <1>2, <2>6, <3>1, SMT DEF Splits
    <3>3. p % Width = 1 /\ LineOf(p) = (p \div Width) + 1
      BY <1>1, <3>2, FirstOfLine
    <3> QED
      BY <2>4, <3>1, <3>2, <3>3, SMT
  <2>7. ASSUME (o \div Width) + 1 \in cut', (o % Width) + 1 <= 2
        PROVE  damaged
    <3>1. CASE (o \div Width) + 1 \in cut
      <4>1. o \div Width = p \div Width
        <5>1. p \div Width <= o \div Width
          BY <1>1, <2>1, DivisionGrows
        <5>2. (o \div Width) + 1 \in 1..((p \div Width) + 1)
          BY <1>2, <3>1
        <5> QED
          BY <1>1, <2>1, <5>1, <5>2, SMT
      <4>2. p % Width > 0 /\ script[(p \div Width) + 1].wide
        BY <1>2, <3>1, <4>1
      <4>3. o % Width = (p % Width) + (o - p)
        BY <1>1, <2>1, <4>1, SameLine
      <4>4. k = 1 /\ p % Width = 1 /\ b - 1 = p
        BY <1>1, <2>1, <2>7, <4>2, <4>3, SMT
      <4>5. p > 0 /\ AtOf(p) = 1 /\ LineOf(p) = (p \div Width) + 1
        BY <1>1, <4>4, FirstOfLine
      <4>6. p \in 1..Total
        BY <1>1, <4>5, SMT
      <4>7. Splits(p)
        BY <4>2, <4>5, <4>6 DEF Splits
      <4> QED
        BY <4>4, <4>7
    <3>2. CASE (o \div Width) + 1 \notin cut
      <4>1. Splits(e) /\ (o \div Width) + 1 = LineOf(e)
        BY <2>4, <2>7, <3>2
      <4>2. LineOf(e) = ((e - 1) \div Width) + 1 /\ (e - 1) \div Width \in Nat
        BY <1>1, Division DEF LineOf
      <4>3. o \div Width = (e - 1) \div Width
        BY <2>1, <4>1, <4>2, SMT
      <4>4. (e - 1) % Width = (o % Width) + ((e - 1) - o)
        BY <1>1, <2>1, <4>3, SameLine
      <4>5. (e - 1) % Width = 0
        <5>1. AtOf(e) = 1 /\ (e - 1) % Width \in Nat
          BY <1>1, <4>1, Division DEF Splits
        <5> QED
          BY <5>1, SMT DEF AtOf
      <4>6. k = n
        BY <2>1, <4>4, <4>5, SMT
      <4>7. b = e
        BY <4>6 DEF b, e, p
      <4> QED
        BY <4>1, <4>6, <4>7
    <3> QED
      BY <3>1, <3>2
  <2>8. damaged <=> (o \div Width) + 1 \in cut' /\ (o % Width) + 1 <= 2
    BY <2>5, <2>6, <2>7
  <2>9. damaged \in BOOLEAN
    OBVIOUS
  <2> HIDE DEF damaged
  <2>10. damaged = ((o \div Width) + 1 \in cut' /\ (o % Width) + 1 <= 2)
    BY <2>8, <2>9
  <2> QED
    BY <2>2, <2>3, <2>10 DEF ByteAfter, o
<1> QED
  BY <1>3, <1>4 DEF p
LEMMA SentSameSplit ==
  ASSUME NEW fragments, NEW lines, NEW split, NEW other,
         \A l \in lines : l \in other <=> l \in split
  PROVE  Sent(fragments, lines, split) => Sent(fragments, lines, other)
BY DEF Sent

LEMMA ArriveKeeps ==
  ASSUME StreamInv, NEW n \in Nat, n > 0, Arrive(n)
  PROVE  StreamInv'
<1> DEFINE start == [rest |-> buf, text |-> text, calls |-> calls, heard |-> heard, end |-> "no"]
           chunk == Chunk(n)
           st == Drain(chunk)
           q == arrived \div Width
<1>1. /\ stream = "reading" /\ arrived + n <= Total /\ arrived \in Nat /\ arrived + n \in Nat
      /\ script \in Scripts /\ q \in Nat
  BY Division, SMT DEF Arrive, StreamInv
<1>2. /\ arrived' = arrived + n /\ script' = script
      /\ cut' = IF Splits(arrived + n) THEN cut \cup {LineOf(arrived + n)} ELSE cut
  BY DEF Arrive
<1>3. /\ buf' = st.rest /\ text' = st.text /\ calls' = st.calls /\ heard' = st.heard
      /\ stream' = CASE st.end = "done" -> "answered"
                     [] st.end = "bad" -> "failed"
                     [] st.end = "no" -> "reading"
  BY DEF Arrive
<1>4. /\ \A l \in 1..q : l \in cut' <=> l \in cut
      /\ arrived % Width > 0 => (q + 1 \in cut' <=> q + 1 \in cut)
      /\ SplitInv'
  BY <1>1, <1>2, SplitsGrow
<1>5. WalkInv(start, arrived, cut')
  <2>1. /\ text \in Seq(Fragments) /\ calls \in Seq(Seq(Fragments)) /\ heard \in Seq(Fragments)
        /\ buf = Kept(arrived, cut)
        /\ \A i \in 1..q : script[i].kind \notin {"done", "bad"}
        /\ Gathered(text, calls, heard, q, cut)
    BY <1>1 DEF StreamInv
  <2>2. Kept(arrived, cut') = Kept(arrived, cut)
    <3>1. CASE arrived % Width > 0
      BY <1>4, <3>1 DEF Kept
    <3>2. CASE ~(arrived % Width > 0)
      <4>1. 1..(arrived % Width) = {}
        BY <1>1, <3>2, Division, SMT
      <4> QED
        BY <4>1 DEF Kept
    <3> QED
      BY <3>1, <3>2
  <2>3. buf \in Seq(Bytes)
    BY <1>1, <2>1, KeptGrows
  <2>4. start \in Walks
    BY <2>1, <2>3 DEF Walks
  <2>5. Gathered(text, calls, heard, q, cut')
    <3>1. UpTo(q) \subseteq 1..q
      BY DEF UpTo
    <3>2. Contents(UpTo(q)) \subseteq 1..q /\ \A s : CallParts(UpTo(q), s) \subseteq 1..q
      BY <3>1 DEF Contents, CallParts
    <3>3. Sent(text, Contents(UpTo(q)), cut')
      <4>1. \A l \in Contents(UpTo(q)) : l \in cut' <=> l \in cut
        BY <1>4, <3>2
      <4>2. Sent(text, Contents(UpTo(q)), cut)
        BY <2>1 DEF Gathered
      <4> QED
        BY <4>1, <4>2, SentSameSplit
    <3>4. ASSUME NEW s \in DOMAIN calls PROVE Sent(calls[s], CallParts(UpTo(q), s), cut')
      <4>1. \A l \in CallParts(UpTo(q), s) : l \in cut' <=> l \in cut
        BY <1>4, <3>2
      <4>2. Sent(calls[s], CallParts(UpTo(q), s), cut)
        BY <2>1 DEF Gathered
      <4> QED
        BY <4>1, <4>2, SentSameSplit
    <3> QED
      BY <2>1, <3>3, <3>4 DEF Gathered
  <2> QED
    BY <2>1, <2>2, <2>4, <2>5 DEF WalkInv
<1>6. WalkInv(st, arrived + n, cut')
  <2>1. Len(chunk) = n /\ \A k \in 1..n : chunk[k] = ByteAfter(arrived + k - 1, cut')
    BY <1>1, <1>2, ChunkIs
  <2>2. st = Walk(start, chunk)[Len(chunk)]
    BY DEF Drain
  <2> HIDE DEF st, start, chunk
  <2> QED
    BY <1>1, <1>5, <2>1, <2>2, ChunkWalks
<1> HIDE DEF st, start, chunk, q
<1>7. /\ st \in Walks /\ st.end \in {"no", "done", "bad"}
      /\ st.end # "bad" => Gathered(st.text, st.calls, st.heard, arrived' \div Width, cut')
      /\ st.end = "no" => /\ st.rest = Kept(arrived', cut')
                          /\ \A i \in 1..(arrived' \div Width) : script'[i].kind \notin {"done", "bad"}
  BY <1>2, <1>6 DEF WalkInv, Walks
<1>8. /\ stream' \in {"reading", "answered", "failed"}
      /\ stream' # "failed" => st.end # "bad"
      /\ stream' = "reading" => st.end = "no"
  BY <1>3, <1>7
<1>9. /\ text' \in Seq(Fragments) /\ calls' \in Seq(Seq(Fragments)) /\ heard' \in Seq(Fragments)
  BY <1>3, <1>7 DEF Walks
<1>10. Gathered(text, calls, heard, arrived \div Width, cut)'
         <=> Gathered(text', calls', heard', arrived' \div Width, cut')
  BY <1>2 DEF Gathered, UpTo, Contents, CallParts
<1>11. Kept(arrived, cut)' = Kept(arrived', cut')
  BY DEF Kept
<1>12. arrived' \in Nat /\ arrived' <= Total'
  BY <1>1, <1>2 DEF Total
<1> QED
  BY <1>1, <1>2, <1>3, <1>4, <1>7, <1>8, <1>9, <1>10, <1>11, <1>12 DEF StreamInv

LEMMA StreamInvNext == StreamInv /\ [Flow]_streamVars => StreamInv'
<1> SUFFICES ASSUME StreamInv, [Flow]_streamVars PROVE StreamInv'
  OBVIOUS
<1>1. ASSUME NEW n \in 1..MaxChunk, Arrive(n) PROVE StreamInv'
  <2>1. n \in Nat /\ n > 0
    BY SMT
  <2> QED
    BY <1>1, <2>1, ArriveKeeps
<1>2. ASSUME UNCHANGED <<script, arrived, buf, text, calls, heard, cut>>,
             stream' \in {"answered", "failed", stream}, stream = "failed" => stream' = "failed"
      PROVE  StreamInv'
  BY <1>2 DEF StreamInv, SplitInv, Gathered, UpTo, Contents, CallParts, Kept, Total, Splits,
              LineOf, AtOf
<1>3. CASE StreamEnds \/ BreakOff
  BY <1>2, <1>3 DEF StreamEnds, BreakOff
<1>4. CASE ConnectionFails
  <2>1. CASE tries < MaxAttempts
    <3>1. /\ stream = "reading" /\ stream' = stream /\ script' \in Scripts
          /\ arrived' = 0 /\ buf' = <<>> /\ cut' = {}
          /\ text' = <<>> /\ calls' = <<>> /\ heard' = heard /\ heard \in Seq(Fragments)
      BY <1>4, <2>1 DEF ConnectionFails, StreamInv
    <3>2. 0 \div Width = 0 /\ 0 % Width = 0 /\ 1..0 = {}
      BY StreamAssumption, SMT DEF StreamAssumption
    <3>3. 0 <= Total'
      BY <3>1, StreamAssumption, LenProperties, SMT DEF Total, StreamAssumption
    <3>4. ~Splits(0)'
      BY <3>3, SMT DEF Splits
    <3>5. EndsWith(heard, <<>>)
      BY <3>1, LenProperties DEF EndsWith
    <3>6. Gathered(<<>>, <<>>, heard, 0, {})'
      BY <3>1, <3>2, <3>5, SentNothing DEF Gathered, UpTo, Contents, CallParts
    <3>7. Kept(0, {}) = <<>>
      BY <3>2 DEF Kept
    <3> QED
      BY <3>1, <3>2, <3>3, <3>4, <3>6, <3>7, EmptySeq DEF StreamInv, SplitInv
  <2>2. CASE ~(tries < MaxAttempts)
    BY <1>2, <1>4, <2>2 DEF ConnectionFails
  <2> QED
    BY <2>1, <2>2
<1>5. CASE Stop \/ AnswerOver \/ UNCHANGED streamVars
  BY <1>2, <1>5 DEF Stop, AnswerOver, streamVars, StreamInv
<1> QED
  BY <1>1, <1>3, <1>4, <1>5 DEF Flow

(* llm.rs 205-368, agent.rs 97-127: wherever the network cuts the bytes    *)
(* and however often the request is made again, the answer is what was     *)
(* sent, each call's fragments in its own slot, and ends what was heard.   *)
THEOREM AnswerIsTheOneSent == StreamSpec => []AnswerIsWhatWasSent
<1>1. StreamInv => AnswerIsWhatWasSent
  BY DEF StreamInv, AnswerIsWhatWasSent, Gathered, Received
<1> QED
  BY StreamInvInit, StreamInvNext, <1>1, PTL DEF StreamSpec
=============================================================================

------------------------------ MODULE Watchdog ------------------------------
(***************************************************************************)
(* MemoryWatchdog (crates/core/src/watchdog.rs): the live admission gate.  *)
(* It samples the host's available RAM at most once per refresh interval   *)
(* and denies admission after HysteresisStrikes consecutive samples below  *)
(* the floor.  The host's memory and the clock are the environment.        *)
(***************************************************************************)
EXTENDS Integers

CONSTANTS
  FloorMb,            \* floor_mb: the configured RAM floor
  HysteresisStrikes,  \* hysteresis_strikes as given to with_policy
  StrikeCap,          \* where consecutive_low saturates (u32::MAX in the code)
  MemoryReadings      \* the MiB values the host's available memory takes

Strikes == IF HysteresisStrikes = 0 THEN 1 ELSE HysteresisStrikes

WatchdogAssumption ==
  /\ FloorMb \in Nat
  /\ HysteresisStrikes \in Nat
  /\ StrikeCap \in Nat /\ Strikes <= StrikeCap
  /\ MemoryReadings \subseteq Nat /\ MemoryReadings # {}

VARIABLES
  freeMb,        \* what sysinfo would report now (environment)
  availableMb,   \* Inner.available_mb: the cached reading
  lowCount,      \* Inner.consecutive_low
  refreshDue     \* the refresh interval has elapsed since Inner.last_refresh

watchdogVars == <<freeMb, availableMb, lowCount, refreshDue>>

WatchdogInit ==
  /\ freeMb \in MemoryReadings
  /\ availableMb = freeMb
  /\ lowCount = 0
  /\ refreshDue = FALSE

(* Mutant: a sample below the floor takes two strikes.                     *)
NextStrikeCount_double(mb, low) ==
  IF mb < FloorMb THEN IF low + 1 < StrikeCap THEN low + 2 ELSE StrikeCap ELSE 0

(* next_strike_count *)
NextStrikeCount(mb, low) ==
  IF mb < FloorMb THEN IF low < StrikeCap THEN low + 1 ELSE low
                  ELSE 0

(* The throttled refresh at the head of admit. *)
Sample ==
  IF refreshDue
  THEN /\ availableMb' = freeMb
       /\ lowCount' = NextStrikeCount(freeMb, lowCount)
       /\ refreshDue' = FALSE
  ELSE UNCHANGED <<availableMb, lowCount, refreshDue>>

(* admit(), under the inner mutex: refresh, then judge the strikes. *)
Admit  == Sample /\ lowCount' < Strikes  /\ UNCHANGED freeMb
Deny   == Sample /\ lowCount' >= Strikes /\ UNCHANGED freeMb

(* The environment: the interval elapses; the host's memory moves. *)
IntervalElapses ==
  /\ ~refreshDue
  /\ refreshDue' = TRUE
  /\ UNCHANGED <<freeMb, availableMb, lowCount>>

MemoryMoves ==
  /\ freeMb' \in MemoryReadings \ {freeMb}
  /\ UNCHANGED <<availableMb, lowCount, refreshDue>>

-----------------------------------------------------------------------------
Denying == lowCount >= Strikes
=============================================================================

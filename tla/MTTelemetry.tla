----------------------------- MODULE MTTelemetry ------------------------------
(***************************************************************************)
(* mt_telemetry_tick: the application calls it with its tick counter,      *)
(* which wraps, as often as it likes; when a period has passed since the   *)
(* last line it calls mt_stats, whose fragmentation part is MTFrag, and    *)
(* writes a line.                                                          *)
(***************************************************************************)
EXTENDS MTFrag

CONSTANTS
  TickMax,  (* the largest tick count (UINT32_MAX) *)
  Period,   (* MT_TELEMETRY_PERIOD_TICKS *)
  MaxGap    (* bound: ticks of real time without a line *)

ASSUME MTTelemetryAssumption ==
  TickMax \in Nat /\ Period \in 1..TickMax /\ MaxGap \in Nat

VARIABLES
  now,         (* the counter of the application *)
  last_ticks,  (* g_telemetry_last_ticks *)
  telling,     (* mt_telemetry_tick is past its check of the time *)
  passed,      (* history: the time since the counter was last_ticks, not wrapped *)
  tick         (* history: what the last call found, and the value of passed then *)

tickVars == <<now, last_ticks, telling, passed, tick>>
telemetryVars == <<fragVars, tickVars>>

NoCall == [found |-> "none", after |-> 0]

(* Time passes between two calls. *)
TimePasses ==
  /\ ~telling /\ passed < MaxGap
  /\ now' = (now + 1) % (TickMax + 1)
  /\ passed' = passed + 1
  /\ tick' = NoCall
  /\ UNCHANGED <<fragVars, last_ticks, telling>>

(* Mutant of Delta: the difference is taken without wrapping *)
DeltaSigned == now - last_ticks

(* uint32_t delta *)
Delta == (now - last_ticks) % (TickMax + 1)

(* The call returns at once. *)
TickEarly ==
  /\ ~telling
  /\ Delta < Period
  /\ tick' = [found |-> "early", after |-> passed]
  /\ UNCHANGED <<fragVars, now, last_ticks, telling, passed>>

TickDue ==
  /\ ~telling
  /\ Delta >= Period
  /\ tick' = [found |-> "due", after |-> passed]
  /\ last_ticks' = now
  /\ passed' = 0
  /\ telling' = TRUE
  /\ UNCHANGED <<fragVars, now>>

(* A step of mt_stats, and of whoever uses the heap meanwhile *)
StatsStep ==
  /\ telling
  /\ ReadTotal \/ ReadLargest \/ PackResult \/ StoreStats \/ HeapMoves
  /\ UNCHANGED tickVars

(* The line is formatted from the statistics and written. *)
WriteLine ==
  /\ telling
  /\ Return
  /\ telling' = FALSE
  /\ UNCHANGED <<now, last_ticks, passed, tick>>

(* The first call may come at any count of ticks. *)
TelemetryInit ==
  /\ Init
  /\ now \in 0..TickMax
  /\ last_ticks = 0
  /\ telling = FALSE
  /\ passed = now
  /\ tick = NoCall

TelemetryNext ==
  TimePasses \/ TickEarly \/ TickDue \/ StatsStep \/ WriteLine

TelemetrySpec == TelemetryInit /\ [][TelemetryNext]_telemetryVars

-----------------------------------------------------------------------------
(* Properties *)

(* However the counter wraps, a line is written only when a period has      *)
(* really passed since the last one, and a call is put off only when it has *)
(* not, or when the counter has gone once round since the last line, which  *)
(* 32 bits cannot tell.                                                     *)
TelemetryPaced ==
  /\ tick.found = "due" => tick.after >= Period
  /\ tick.found = "early" => tick.after < Period \/ tick.after > TickMax
=============================================================================

------------------------- MODULE WorkflowScheduler -------------------------
(***************************************************************************)
(* The workflow scheduler (hades/scheduler.py): it wakes every Interval    *)
(* seconds, takes the current minute as the slot of a pass, and walks the  *)
(* jobs in order; a job that is due and was not launched for this slot is  *)
(* launched by a call to handle_intent, whose trace id names the job and   *)
(* the slot.                                                               *)
(*                                                                         *)
(* Time is counted in ticks and passes where the code spends it: in        *)
(* sleep, in calls, and while no scheduler runs.  Jobs are known by their  *)
(* place in the schedule; two jobs may carry one id.  The slots a schedule *)
(* matches are data, and so are the slots at which matching it raises: a   *)
(* list of alternatives is read only up to the first that matches.         *)
(***************************************************************************)
EXTENDS Integers, Sequences

CONSTANTS Jobs,        \* the loaded jobs, in order: id, slots due, slots at which matching raises
          MinuteTicks, \* ticks of a minute
          Interval,    \* interval of run_forever in ticks
          MaxCall,     \* a call of handle_intent takes at most this long
          MaxDown,     \* bound: no scheduler runs for at most this long
          LastSlot,    \* bound: passes start up to this slot
          MaxLives,    \* bound: scheduler processes
          NoSlot       \* a job that was not launched

JobNumbers == 1..Len(Jobs)
JobIds     == {Jobs[j].id : j \in JobNumbers}
Slots      == 0..LastSlot

ASSUME SchedulerAssumption ==
  /\ Len(Jobs) \in Nat
  /\ \A j \in JobNumbers : Jobs[j].due \subseteq Slots /\ Jobs[j].raises \subseteq Slots
  /\ MinuteTicks \in Nat \ {0}
  /\ Interval \in Nat \ {0}
  /\ MaxCall \in Nat
  /\ MaxDown \in Nat
  /\ LastSlot \in Nat
  /\ MaxLives \in Nat \ {0}
  /\ NoSlot = -1

VARIABLES clock,      \* the time
          phase,      \* "asleep", in a "pass", or "dead" by an exception
          slot,       \* the slot of the pass
          next,       \* the job the pass is at
          lastSlots,  \* _last_run_slots
          aliveSince, \* history: when the process started
          lives,      \* history: processes so far
          launches    \* history: launches by job and slot, of this process

schedVars == <<clock, phase, slot, next, lastSlots, aliveSince, lives, launches>>

Minute(t) == t \div MinuteTicks

\* The time at which a slot begins.
StartOf(s) == s * MinuteTicks

NoLaunches == [j \in JobNumbers |-> [s \in Slots |-> 0]]

SchedInit ==
  /\ clock = 0
  /\ phase = "asleep"
  /\ slot = 0
  /\ next = 1
  /\ lastSlots = [i \in JobIds |-> NoSlot]
  /\ aliveSince = 0
  /\ lives = 1
  /\ launches = NoLaunches

\* run_once begins: now is read once.
StartPass ==
  /\ phase = "asleep"
  /\ Minute(clock) \in Slots
  /\ phase' = "pass"
  /\ slot' = Minute(clock)
  /\ next' = 1
  /\ UNCHANGED <<clock, lastSlots, aliveSince, lives, launches>>

AtJob(j) == phase = "pass" /\ next = j

\* Mutant: a job that was launched once is not launched again.
DueOnceOnly(j) == slot \in Jobs[j].due /\ lastSlots[Jobs[j].id] = NoSlot

\* Mutant: the slot of the last launch is not looked at.
DueAlways(j) == slot \in Jobs[j].due

Due(j) == slot \in Jobs[j].due /\ lastSlots[Jobs[j].id] # slot

\* A schedule that does not match, or a job launched for this slot.
SkipJob(j) ==
  /\ AtJob(j)
  /\ slot \notin Jobs[j].raises
  /\ ~Due(j)
  /\ next' = j + 1
  /\ UNCHANGED <<clock, phase, slot, lastSlots, aliveSince, lives, launches>>

\* handle_intent returns, after which the slot is recorded.
LaunchJob(j, took) ==
  /\ AtJob(j)
  /\ slot \notin Jobs[j].raises
  /\ Due(j)
  /\ launches' = [launches EXCEPT ![j][slot] = @ + 1]
  /\ clock' = clock + took
  /\ lastSlots' = [lastSlots EXCEPT ![Jobs[j].id] = slot]
  /\ next' = j + 1
  /\ UNCHANGED <<phase, slot, aliveSince, lives>>

\* handle_intent raises: the slot is not recorded and the process ends, for
\* run_forever catches nothing.
LaunchRaises(j, took) ==
  /\ AtJob(j)
  /\ slot \notin Jobs[j].raises
  /\ Due(j)
  /\ launches' = [launches EXCEPT ![j][slot] = @ + 1]
  /\ clock' = clock + took
  /\ phase' = "dead"
  /\ UNCHANGED <<slot, next, lastSlots, aliveSince, lives>>

\* Matching the schedule raises: the process ends, whatever jobs are left.
ScheduleRaises(j) ==
  /\ AtJob(j)
  /\ slot \in Jobs[j].raises
  /\ phase' = "dead"
  /\ UNCHANGED <<clock, slot, next, lastSlots, aliveSince, lives, launches>>

\* run_once returns and run_forever sleeps.
EndPass ==
  /\ phase = "pass"
  /\ next = Len(Jobs) + 1
  /\ phase' = "asleep"
  /\ clock' = clock + Interval
  /\ UNCHANGED <<slot, next, lastSlots, aliveSince, lives, launches>>

\* The process is stopped at any time, or has died, and another is started.
RestartScheduler(down) ==
  /\ lives < MaxLives
  /\ lives' = lives + 1
  /\ clock' = clock + down
  /\ aliveSince' = clock + down
  /\ phase' = "asleep"
  /\ lastSlots' = [i \in JobIds |-> NoSlot]
  /\ launches' = NoLaunches
  /\ UNCHANGED <<slot, next>>

SchedNext ==
  \/ StartPass
  \/ EndPass
  \/ \E j \in JobNumbers : SkipJob(j) \/ ScheduleRaises(j)
  \/ \E j \in JobNumbers, took \in 0..MaxCall : LaunchJob(j, took) \/ LaunchRaises(j, took)
  \/ \E down \in 0..MaxDown : RestartScheduler(down)

SchedSpec == SchedInit /\ [][SchedNext]_schedVars

-----------------------------------------------------------------------------
(* Properties *)

\* Types.
SchedTypeOK ==
  /\ clock \in Nat
  /\ phase \in {"asleep", "pass", "dead"}
  /\ slot \in Slots
  /\ next \in 1..(Len(Jobs) + 1)
  /\ lastSlots \in [JobIds -> Slots \cup {NoSlot}]
  /\ aliveSince \in Nat
  /\ lives \in 1..MaxLives
  /\ launches \in [JobNumbers -> [Slots -> Nat]]

\* One process launches a job at most once for a slot, however often it wakes within
\* the minute and however long the calls of a pass take (run_once).
OncePerProcess == \A j \in JobNumbers, s \in Slots : launches[j][s] <= 1

\* Passes are short enough that one starts in every minute.
ShortPasses == Len(Jobs) * MaxCall + Interval <= MinuteTicks

DistinctIds == \A j, k \in JobNumbers : Jobs[j].id = Jobs[k].id => j = k

\* A process that runs from the start of a minute on leaves no job of that minute out,
\* once a pass of a later minute ends: given passes short enough and distinct ids
\* (run_once, run_forever).
NoSlotLeftOut ==
  ShortPasses /\ DistinctIds /\ phase = "asleep" =>
    \A j \in JobNumbers : \A s \in Jobs[j].due :
      aliveSince <= StartOf(s) /\ StartOf(s + 1) <= clock =>
        launches[j][s] = 1

=============================================================================

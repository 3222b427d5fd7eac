------------------------- MODULE KernelInputsProofs -------------------------
(***************************************************************************)
(* Theorems about what starts the kernel's graphs besides its users, the   *)
(* schedule and the signals; the two share nothing.                        *)
(*                                                                         *)
(* WorkflowScheduler: for every schedule, interval and length of the       *)
(* calls, a process launches a job at most once for a slot, and when the   *)
(* passes are short enough and the ids distinct it leaves no slot out that *)
(* begins while it runs.                                                   *)
(*                                                                         *)
(* SignalAggregator: for every set of rules, every memory and every order  *)
(* of the signals, a trigger rests on the evidence its rule names, and a   *)
(* rule is missed only for evidence that was pushed out.  Its scores are   *)
(* sums over sets, and the lemmas about sums come first.                   *)
(***************************************************************************)
EXTENDS WorkflowScheduler, SignalAggregator, FiniteSetTheorems, FunctionTheorems,
        SequenceTheorems, WellFoundedInduction, TLAPS


-----------------------------------------------------------------------------
(* Minutes *)

\* The minute of a time is the one it lies in.
LEMMA MinuteBounds ==
  ASSUME NEW t \in Nat
  PROVE  /\ Minute(t) \in Nat
         /\ Minute(t) * MinuteTicks <= t
         /\ t < (Minute(t) + 1) * MinuteTicks
<1>1. MinuteTicks \in Nat \ {0}
  BY SchedulerAssumption
<1> QED BY <1>1, SMTT(30) DEF Minute

\* A multiple of the minute that is below another has the lower factor.
LEMMA MultiplesOrder ==
  ASSUME NEW a \in Int, NEW b \in Int, a * MinuteTicks < b * MinuteTicks
  PROVE  a < b
<1>1. MinuteTicks \in Nat \ {0}
  BY SchedulerAssumption
<1>2. SUFFICES ASSUME b <= a PROVE FALSE
  OBVIOUS
<1>3. (a - b) * MinuteTicks >= 0
  BY <1>1, <1>2, SMTT(30)
<1>4. (a - b) * MinuteTicks = a * MinuteTicks - b * MinuteTicks
  BY <1>1, SMTT(30)
<1> QED BY <1>1, <1>3, <1>4, SMTT(30)

\* A later time does not lie in an earlier minute.
LEMMA MinuteMonotone ==
  ASSUME NEW t \in Nat, NEW u \in Nat, t <= u
  PROVE  Minute(t) <= Minute(u)
<1>1. MinuteTicks \in Nat \ {0}
  BY SchedulerAssumption
<1>2. Minute(t) \in Nat /\ Minute(u) \in Nat
  BY MinuteBounds
<1>3. Minute(t) * MinuteTicks < (Minute(u) + 1) * MinuteTicks
  <2>1. Minute(t) * MinuteTicks <= t /\ u < (Minute(u) + 1) * MinuteTicks
    BY MinuteBounds
  <2> DEFINE x == Minute(t) * MinuteTicks
             y == (Minute(u) + 1) * MinuteTicks
  <2>2. x \in Int /\ y \in Int
    BY <1>1, <1>2
  <2> HIDE DEF x, y
  <2>3. x <= t /\ u < y
    BY <2>1 DEF x, y
  <2>4. x < y
    BY <2>2, <2>3
  <2> QED BY <2>4 DEF x, y
<1>4. Minute(t) < Minute(u) + 1
  BY <1>2, <1>3, MultiplesOrder
<1> QED BY <1>2, <1>4

-----------------------------------------------------------------------------
(* The invariant *)

\* What was launched lies in the past, and the last launch of an id is the latest.
\* A launch that raised is not recorded, but its process launches nothing more.
SlotsPast ==
  /\ phase = "pass" => slot <= Minute(clock)
  /\ \A i \in JobIds : lastSlots[i] <= Minute(clock)
  /\ phase = "pass" => \A i \in JobIds : lastSlots[i] <= slot
  /\ phase # "dead" =>
       \A j \in JobNumbers, s \in Slots : launches[j][s] > 0 => s <= lastSlots[Jobs[j].id]

SchedInv == SchedTypeOK /\ SlotsPast /\ OncePerProcess

\* The id of a job, and the jobs themselves.
LEMMA JobFacts ==
  /\ Len(Jobs) \in Nat
  /\ \A j \in JobNumbers : Jobs[j].id \in JobIds /\ j \in 1..Len(Jobs)
  /\ \A s \in Slots : s \in Nat
  /\ NoSlot = -1
  BY SchedulerAssumption DEF JobNumbers, JobIds, Slots

\* The initial state satisfies the invariant.
LEMMA InitInv == SchedInit => SchedInv
<1> SUFFICES ASSUME SchedInit PROVE SchedInv
  OBVIOUS
<1>1. SchedTypeOK
  BY SchedulerAssumption, JobFacts DEF SchedInit, SchedTypeOK, NoLaunches, Slots
<1>2. Minute(0) \in Nat
  BY MinuteBounds
<1>3. SlotsPast
  BY <1>2, JobFacts DEF SchedInit, SlotsPast, NoLaunches
<1>4. OncePerProcess
  BY DEF SchedInit, OncePerProcess, NoLaunches
<1> QED BY <1>1, <1>3, <1>4 DEF SchedInv

\* The clock never goes back in a step.
LEMMA ClockAdvances ==
  ASSUME SchedTypeOK, [SchedNext]_schedVars
  PROVE  clock' \in Nat /\ clock <= clock' /\ aliveSince' \in Nat
  BY SchedulerAssumption
  DEF SchedTypeOK, SchedNext, schedVars, StartPass, EndPass, SkipJob, ScheduleRaises,
      LaunchJob, LaunchRaises, RestartScheduler

\* The facts of one job in a pass that both kinds of launch use.
LEMMA LaunchFacts ==
  ASSUME SchedInv, NEW j \in JobNumbers, AtJob(j), Due(j)
  PROVE  /\ slot \in Slots
         /\ launches[j][slot] = 0
         /\ lastSlots[Jobs[j].id] < slot
<1>1. slot \in Slots /\ phase = "pass" /\ slot \in Nat /\ Jobs[j].id \in JobIds
  BY JobFacts DEF SchedInv, SchedTypeOK, AtJob
<1>2. lastSlots[Jobs[j].id] \in Int /\ lastSlots[Jobs[j].id] <= slot
  <2>1. \A i \in JobIds : lastSlots[i] \in Int
    BY JobFacts DEF SchedInv, SchedTypeOK
  <2>2. \A i \in JobIds : lastSlots[i] <= slot
    BY <1>1 DEF SchedInv, SlotsPast
  <2> QED BY <1>1, <2>1, <2>2
<1>3. lastSlots[Jobs[j].id] < slot
  BY <1>1, <1>2 DEF Due
<1>4. launches[j][slot] \in Nat
  BY <1>1 DEF SchedInv, SchedTypeOK
<1>5. ~(launches[j][slot] > 0)
  BY <1>1, <1>2, <1>3 DEF SchedInv, SlotsPast
<1> QED BY <1>1, <1>3, <1>4, <1>5

\* Every step keeps the invariant.
LEMMA NextInv == SchedInv /\ [SchedNext]_schedVars => SchedInv'
<1> SUFFICES ASSUME SchedInv, [SchedNext]_schedVars PROVE SchedInv'
  OBVIOUS
<1> USE DEF SchedInv
<1>0. /\ clock \in Nat /\ clock' \in Nat /\ clock <= clock' /\ aliveSince' \in Nat
      /\ Minute(clock) \in Nat /\ Minute(clock') \in Nat
      /\ Minute(clock) <= Minute(clock')
  BY ClockAdvances, MinuteBounds, MinuteMonotone DEF SchedTypeOK
<1>1. CASE StartPass
  <2>1. SchedTypeOK'
    BY <1>0, <1>1, JobFacts DEF StartPass, SchedTypeOK
  <2>2. SlotsPast'
    BY <1>0, <1>1 DEF StartPass, SlotsPast, SchedTypeOK
  <2>3. OncePerProcess'
    BY <1>1 DEF StartPass, OncePerProcess
  <2> QED BY <2>1, <2>2, <2>3
<1>2. CASE EndPass
  <2>1. SchedTypeOK'
    BY <1>0, <1>2, JobFacts DEF EndPass, SchedTypeOK
  <2>2. SlotsPast'
    <3>1. \A i \in JobIds : lastSlots[i] \in Int /\ lastSlots[i] <= Minute(clock)
      BY JobFacts DEF SchedTypeOK, SlotsPast
    <3>2. \A i \in JobIds : lastSlots'[i] <= Minute(clock')
      BY <1>0, <1>2, <3>1 DEF EndPass
    <3> QED BY <1>2, <3>2 DEF EndPass, SlotsPast
  <2>3. OncePerProcess'
    BY <1>2 DEF EndPass, OncePerProcess
  <2> QED BY <2>1, <2>2, <2>3
<1>3. ASSUME NEW j \in JobNumbers, SkipJob(j) PROVE SchedInv'
  <2>1. SchedTypeOK'
    BY <1>3, JobFacts DEF SkipJob, AtJob, SchedTypeOK
  <2>2. SlotsPast'
    BY <1>3 DEF SkipJob, SlotsPast
  <2>3. OncePerProcess'
    BY <1>3 DEF SkipJob, OncePerProcess
  <2> QED BY <2>1, <2>2, <2>3
<1>4. ASSUME NEW j \in JobNumbers, ScheduleRaises(j) PROVE SchedInv'
  <2>1. SchedTypeOK'
    BY <1>4 DEF ScheduleRaises, SchedTypeOK
  <2>2. SlotsPast'
    BY <1>4 DEF ScheduleRaises, SlotsPast
  <2>3. OncePerProcess'
    BY <1>4 DEF ScheduleRaises, OncePerProcess
  <2> QED BY <2>1, <2>2, <2>3
<1>5. ASSUME NEW j \in JobNumbers, NEW took \in 0..MaxCall, LaunchJob(j, took) PROVE SchedInv'
  <2>0. slot \in Slots /\ slot \in Nat /\ launches[j][slot] = 0 /\ Jobs[j].id \in JobIds
    BY <1>5, LaunchFacts, JobFacts DEF LaunchJob
  <2>1. SchedTypeOK'
    BY <1>0, <1>5, <2>0, JobFacts DEF LaunchJob, AtJob, SchedTypeOK
  <2>2. SlotsPast'
    <3>1. \A i \in JobIds : lastSlots[i] \in Int /\ lastSlots[i] <= slot
      BY <1>5, JobFacts DEF LaunchJob, AtJob, SchedTypeOK, SlotsPast
    <3>2. slot <= Minute(clock')
      BY <1>0, <1>5, <2>0 DEF LaunchJob, AtJob, SlotsPast
    <3>3. \A i \in JobIds : lastSlots'[i] \in Int /\ lastSlots[i] <= lastSlots'[i] /\ lastSlots'[i] <= slot
      BY <1>5, <2>0, <3>1 DEF LaunchJob, SchedTypeOK
    <3>4. \A i \in JobIds : lastSlots'[i] <= Minute(clock')
      BY <1>0, <2>0, <3>2, <3>3
    <3>5. ASSUME NEW k \in JobNumbers, NEW s \in Slots, launches'[k][s] > 0
          PROVE  s <= lastSlots'[Jobs[k].id]
      <4>1. CASE k = j /\ s = slot
        BY <1>5, <2>0, <4>1 DEF LaunchJob, SchedTypeOK
      <4>2. CASE ~(k = j /\ s = slot)
        <5>1. launches'[k][s] = launches[k][s]
          BY <1>5, <4>2 DEF LaunchJob, SchedTypeOK
        <5>2. s <= lastSlots[Jobs[k].id] /\ Jobs[k].id \in JobIds /\ s \in Nat
          BY <1>5, <3>5, <5>1, JobFacts DEF LaunchJob, AtJob, SlotsPast
        <5> QED BY <3>1, <3>3, <5>2
      <4> QED BY <4>1, <4>2
    <3> QED BY <1>5, <3>2, <3>3, <3>4, <3>5 DEF LaunchJob, SlotsPast
  <2>3. OncePerProcess'
    BY <1>5, <2>0 DEF LaunchJob, OncePerProcess, SchedTypeOK
  <2> QED BY <2>1, <2>2, <2>3
<1>6. ASSUME NEW j \in JobNumbers, NEW took \in 0..MaxCall, LaunchRaises(j, took) PROVE SchedInv'
  <2>0. slot \in Slots /\ launches[j][slot] = 0
    BY <1>6, LaunchFacts DEF LaunchRaises
  <2>1. SchedTypeOK'
    BY <1>0, <1>6, <2>0 DEF LaunchRaises, SchedTypeOK
  <2>2. SlotsPast'
    <3>1. \A i \in JobIds : lastSlots[i] \in Int /\ lastSlots[i] <= Minute(clock)
      BY JobFacts DEF SchedTypeOK, SlotsPast
    <3>2. \A i \in JobIds : lastSlots'[i] <= Minute(clock')
      BY <1>0, <1>6, <3>1 DEF LaunchRaises
    <3> QED BY <1>6, <3>2 DEF LaunchRaises, SlotsPast
  <2>3. OncePerProcess'
    BY <1>6, <2>0 DEF LaunchRaises, OncePerProcess, SchedTypeOK
  <2> QED BY <2>1, <2>2, <2>3
<1>7. ASSUME NEW down \in 0..MaxDown, RestartScheduler(down) PROVE SchedInv'
  <2>1. SchedTypeOK'
    BY <1>0, <1>7, SchedulerAssumption DEF RestartScheduler, SchedTypeOK, NoLaunches
  <2>2. SlotsPast'
    BY <1>0, <1>7, JobFacts DEF RestartScheduler, SlotsPast, NoLaunches
  <2>3. OncePerProcess'
    BY <1>7 DEF RestartScheduler, OncePerProcess, NoLaunches
  <2> QED BY <2>1, <2>2, <2>3
<1>8. CASE UNCHANGED schedVars
  BY <1>8 DEF schedVars, SchedTypeOK, SlotsPast, OncePerProcess, Minute
<1> QED BY <1>1, <1>2, <1>3, <1>4, <1>5, <1>6, <1>7, <1>8 DEF SchedNext

\* The invariant holds always.
LEMMA AlwaysSchedInv == SchedSpec => []SchedInv
  BY InitInv, NextInv, PTL DEF SchedSpec

\* The scheduler's state stays well formed.
THEOREM SchedTypeCorrect == SchedSpec => []SchedTypeOK
<1>1. SchedInv => SchedTypeOK
  BY DEF SchedInv
<1> QED BY <1>1, AlwaysSchedInv, PTL

\* A process launches a job at most once for a slot (run_once), for any schedule, also
\* one with clashing ids, and for passes of any length.
THEOREM LaunchedOncePerProcess == SchedSpec => []OncePerProcess
<1>1. SchedInv => OncePerProcess
  BY DEF SchedInv
<1> QED BY <1>1, AlwaysSchedInv, PTL

-----------------------------------------------------------------------------
(* No slot is left out *)

\* The time that n calls may take.
CallTime(n) == n * MaxCall

\* A process that has passed a slot has launched what was due in it, and the time spent
\* since the slot began is bounded by the calls of the pass.
SlotsVisited ==
  /\ aliveSince <= clock
  /\ \A j \in JobNumbers, s \in Slots : lastSlots[Jobs[j].id] = s => launches[j][s] > 0
  /\ phase = "pass" =>
       /\ clock < StartOf(slot + 1) + CallTime(next - 1)
       /\ \A j \in JobNumbers : \A s \in Jobs[j].due :
            aliveSince <= StartOf(s) /\ (s < slot \/ (s = slot /\ j < next)) => launches[j][s] > 0
  /\ phase = "asleep" /\ clock # aliveSince =>
       /\ clock < StartOf(slot + 1) + CallTime(Len(Jobs)) + Interval
       /\ \A j \in JobNumbers : \A s \in Jobs[j].due :
            aliveSince <= StartOf(s) /\ s <= slot => launches[j][s] > 0

\* Slots begin in their order, a minute apart.
LEMMA StartOrder ==
  ASSUME NEW a \in Int, NEW b \in Int
  PROVE  /\ StartOf(a) \in Int
         /\ StartOf(a + 1) = StartOf(a) + MinuteTicks
         /\ StartOf(a) < StartOf(b) => a < b
<1>1. MinuteTicks \in Nat \ {0}
  BY SchedulerAssumption
<1>2. StartOf(a) \in Int /\ StartOf(a + 1) = StartOf(a) + MinuteTicks
  BY <1>1, SMTT(30) DEF StartOf
<1>3. StartOf(a) < StartOf(b) => a < b
  BY MultiplesOrder DEF StartOf
<1> QED BY <1>2, <1>3

\* One call more takes at most MaxCall more.
LEMMA CallTimes ==
  ASSUME NEW n \in Int
  PROVE  CallTime(n) \in Int /\ CallTime(n + 1) = CallTime(n) + MaxCall /\ CallTime(0) = 0
<1>1. MaxCall \in Nat
  BY SchedulerAssumption
<1>2. n * MaxCall \in Int
  BY <1>1
<1>3. (n + 1) * MaxCall = n * MaxCall + MaxCall
  BY <1>1, SMTT(30)
<1>4. 0 * MaxCall = 0
  BY <1>1
<1> QED BY <1>2, <1>3, <1>4 DEF CallTime

\* A job is due in slots.
LEMMA DueSlots == ASSUME NEW j \in JobNumbers PROVE Jobs[j].due \subseteq Slots
  BY SchedulerAssumption

\* When passes are short, the minutes between two passes of a process are none: a time
\* reached in the sleep after a pass lies in the slot of the pass or in the next one.
LEMMA NextMinute ==
  ASSUME ShortPasses, NEW t \in Nat, NEW u \in Nat, NEW s \in Int,
         t < StartOf(u + 1) + CallTime(Len(Jobs)) + Interval, StartOf(s) <= t
  PROVE  s <= u + 1
<1>1. MinuteTicks \in Nat /\ Interval \in Nat /\ Len(Jobs) \in Nat
  BY SchedulerAssumption, JobFacts
<1>2. CallTime(Len(Jobs)) \in Int /\ StartOf(u + 1) \in Int /\ StartOf(s) \in Int
  BY <1>1, CallTimes, StartOrder
<1>3. StartOf((u + 1) + 1) = StartOf(u + 1) + MinuteTicks
  BY StartOrder
<1>4. CallTime(Len(Jobs)) + Interval <= MinuteTicks
  BY DEF ShortPasses, CallTime
<1>5. StartOf(s) < StartOf((u + 1) + 1)
  BY <1>1, <1>2, <1>3, <1>4
<1>6. s < (u + 1) + 1
  BY <1>5, StartOrder
<1> QED BY <1>6

\* The initial state has passed no slot.
LEMMA InitVisited == SchedInit => SlotsVisited
  BY JobFacts DEF SchedInit, SlotsVisited, Slots

\* Every step keeps what has been visited, for short passes and distinct ids.
LEMMA NextVisited ==
  ASSUME ShortPasses, DistinctIds, SchedInv, SlotsVisited, [SchedNext]_schedVars
  PROVE  SlotsVisited'
<1>a. /\ \A j \in JobNumbers : j \in Nat
      /\ \A j \in JobNumbers : \A s \in Jobs[j].due : s \in Slots /\ s \in Nat
      /\ launches \in [JobNumbers -> [Slots -> Nat]]
  <2>1. \A j \in JobNumbers : \A s \in Jobs[j].due : s \in Slots /\ s \in Nat
    BY DueSlots, JobFacts
  <2> QED BY <2>1, JobFacts DEF SchedInv, SchedTypeOK
<1>b. clock \in Nat /\ slot \in Nat /\ slot \in Slots /\ next \in Nat /\ aliveSince \in Nat
  BY JobFacts DEF SchedInv, SchedTypeOK
<1>c. Interval \in Nat /\ Interval > 0 /\ MaxCall \in Nat /\ Len(Jobs) \in Nat
  BY SchedulerAssumption
<1>d. clock' \in Nat /\ clock <= clock' /\ aliveSince <= clock /\ Minute(clock) \in Nat
  <2>1. clock' \in Nat /\ clock <= clock'
    BY ClockAdvances DEF SchedInv
  <2>2. aliveSince <= clock
    BY DEF SlotsVisited
  <2>3. Minute(clock) \in Nat
    BY <1>b, MinuteBounds
  <2> QED BY <2>1, <2>2, <2>3
<1>0. /\ clock \in Nat /\ clock' \in Nat /\ clock <= clock' /\ aliveSince \in Nat
      /\ slot \in Nat /\ slot \in Slots /\ next \in Nat /\ aliveSince <= clock
      /\ Interval \in Nat /\ Interval > 0 /\ MaxCall \in Nat /\ Len(Jobs) \in Nat
      /\ Minute(clock) \in Nat
  BY <1>b, <1>c, <1>d
<1>1. CASE StartPass
  <2>1. clock < StartOf(Minute(clock) + 1) /\ StartOf(Minute(clock)) <= clock
    BY <1>0, MinuteBounds DEF StartOf
  <2>2. ASSUME NEW j \in JobNumbers, NEW s \in Jobs[j].due,
               aliveSince <= StartOf(s), s < Minute(clock)
        PROVE  launches[j][s] > 0
    <3>1. s \in Slots /\ s \in Nat
      BY <1>a
    <3>2. clock # aliveSince
      <4>1. StartOf(s) < StartOf(Minute(clock))
        <5>1. StartOf(Minute(clock)) \in Int /\ StartOf(s) \in Int
          BY <1>0, <3>1, StartOrder
        <5>2. StartOf(s + 1) <= StartOf(Minute(clock))
          <6>1. ~(StartOf(Minute(clock)) < StartOf(s + 1))
            BY <1>0, <2>2, <3>1, StartOrder
          <6>2. StartOf(Minute(clock)) \in Int /\ StartOf(s + 1) \in Int
            BY <1>0, <3>1, StartOrder
          <6> QED BY <6>1, <6>2
        <5>3. StartOf(s + 1) = StartOf(s) + MinuteTicks /\ MinuteTicks \in Nat \ {0}
          BY <3>1, StartOrder, SchedulerAssumption
        <5> QED BY <5>1, <5>2, <5>3
      <4>2. StartOf(s) \in Int /\ StartOf(Minute(clock)) \in Int
        BY <1>0, <3>1, StartOrder
      <4> QED BY <1>0, <2>1, <2>2, <4>1, <4>2
    <3>3. clock < StartOf(slot + 1) + CallTime(Len(Jobs)) + Interval
      BY <1>1, <3>2 DEF StartPass, SlotsVisited
    <3>4. Minute(clock) <= slot + 1
      BY <1>0, <2>1, <3>3, NextMinute
    <3>5. s <= slot
      BY <1>0, <2>2, <3>1, <3>4
    <3> QED BY <1>1, <2>2, <3>2, <3>5 DEF StartPass, SlotsVisited
  <2>3. CallTime(1 - 1) = 0
    BY CallTimes
  <2>4. clock' < StartOf(slot' + 1) + CallTime(next' - 1)
    <3>1. StartOf(Minute(clock) + 1) \in Int
      BY <1>0, StartOrder
    <3>2. StartOf(Minute(clock) + 1) + CallTime(1 - 1) = StartOf(Minute(clock) + 1)
      BY <2>3, <3>1
    <3> QED BY <1>1, <2>1, <3>2 DEF StartPass
  <2>5. \A j \in JobNumbers : \A s \in Jobs[j].due :
          aliveSince' <= StartOf(s) /\ (s < slot' \/ (s = slot' /\ j < next')) => launches'[j][s] > 0
    <3>1. \A j \in JobNumbers : ~(j < 1)
      BY JobFacts
    <3> QED BY <1>1, <2>2, <3>1 DEF StartPass
  <2> QED BY <1>1, <2>4, <2>5 DEF StartPass, SlotsVisited
<1>2. CASE EndPass
  <2>1. clock' < StartOf(slot' + 1) + CallTime(Len(Jobs)) + Interval
    <3>1. next - 1 = Len(Jobs) /\ clock < StartOf(slot + 1) + CallTime(next - 1)
      BY <1>0, <1>2 DEF EndPass, SlotsVisited
    <3>2. StartOf(slot + 1) \in Int /\ CallTime(Len(Jobs)) \in Int
      BY <1>0, StartOrder, CallTimes
    <3>3. clock + Interval < StartOf(slot + 1) + CallTime(Len(Jobs)) + Interval
      BY <1>0, <3>1, <3>2
    <3> QED BY <1>2, <3>3 DEF EndPass
  <2>2. ASSUME NEW j \in JobNumbers, NEW s \in Jobs[j].due,
               aliveSince' <= StartOf(s), s <= slot'
        PROVE  launches'[j][s] > 0
    <3>1. j < next /\ s \in Nat
      BY <1>a, <1>c, <1>2 DEF EndPass, JobNumbers
    <3>2. s < slot \/ (s = slot /\ j < next)
      BY <1>0, <1>2, <2>2, <3>1 DEF EndPass
    <3> QED BY <1>2, <2>2, <3>2 DEF EndPass, SlotsVisited
  <2>3. aliveSince' <= clock'
    BY <1>0, <1>2 DEF EndPass
  <2> QED BY <1>2, <2>1, <2>2, <2>3 DEF EndPass, SlotsVisited
<1>3. ASSUME NEW j \in JobNumbers, SkipJob(j) PROVE SlotsVisited'
  <2>1. phase = "pass" /\ next = j /\ next' = j + 1 /\ j \in Nat
    BY <1>a, <1>3 DEF SkipJob, AtJob
  <2>2. clock < StartOf(slot + 1) + CallTime(next' - 1)
    <3>1. next' - 1 = (next - 1) + 1 /\ next - 1 \in Int
      BY <2>1
    <3>2. CallTime(next' - 1) = CallTime(next - 1) + MaxCall
      BY <3>1, CallTimes
    <3>3. StartOf(slot + 1) \in Int /\ CallTime(next - 1) \in Int
      BY <1>0, <3>1, StartOrder, CallTimes
    <3>4. clock < StartOf(slot + 1) + CallTime(next - 1)
      BY <2>1 DEF SlotsVisited
    <3> QED BY <1>0, <3>2, <3>3, <3>4
  <2>3. slot \in Jobs[j].due => launches[j][slot] > 0
    BY <1>b, <1>3 DEF SkipJob, Due, SlotsVisited
  <2>4. ASSUME NEW k \in JobNumbers, NEW s \in Jobs[k].due,
               aliveSince <= StartOf(s), s < slot \/ (s = slot /\ k < j + 1)
        PROVE  launches[k][s] > 0
    <3>1. CASE k = j /\ s = slot
      BY <2>3, <3>1
    <3>2. CASE ~(k = j /\ s = slot)
      <4>1. s < slot \/ (s = slot /\ k < next)
        BY <1>a, <2>1, <2>4, <3>2
      <4> QED BY <2>1, <2>4, <4>1 DEF SlotsVisited
    <3> QED BY <3>1, <3>2
  <2> QED BY <1>3, <2>1, <2>2, <2>4 DEF SkipJob, SlotsVisited
<1>4. ASSUME NEW j \in JobNumbers, ScheduleRaises(j) PROVE SlotsVisited'
  BY <1>4 DEF ScheduleRaises, SlotsVisited
<1>5. ASSUME NEW j \in JobNumbers, NEW took \in 0..MaxCall, LaunchJob(j, took) PROVE SlotsVisited'
  <2>1. /\ phase = "pass" /\ next = j /\ next' = j + 1 /\ j \in Nat
        /\ clock' = clock + took /\ took \in Nat /\ took <= MaxCall
    BY <1>a, <1>c, <1>5 DEF LaunchJob, AtJob
  <2>2. clock' < StartOf(slot + 1) + CallTime(next' - 1)
    <3>1. next' - 1 = (next - 1) + 1 /\ next - 1 \in Int
      BY <2>1
    <3>2. CallTime(next' - 1) = CallTime(next - 1) + MaxCall
      BY <3>1, CallTimes
    <3>3. StartOf(slot + 1) \in Int /\ CallTime(next - 1) \in Int
      BY <1>0, <3>1, StartOrder, CallTimes
    <3>4. clock < StartOf(slot + 1) + CallTime(next - 1)
      BY <2>1 DEF SlotsVisited
    <3> QED BY <1>0, <2>1, <3>2, <3>3, <3>4
  <2>3. launches'[j][slot] > 0
    BY <1>a, <1>b, <1>5 DEF LaunchJob
  <2>4. \A k \in JobNumbers, s \in Slots : launches[k][s] > 0 => launches'[k][s] > 0
    BY <1>a, <1>b, <1>5 DEF LaunchJob
  <2>5. ASSUME NEW k \in JobNumbers, NEW s \in Slots, lastSlots'[Jobs[k].id] = s
        PROVE  launches'[k][s] > 0
    <3>1. CASE k = j
      BY <1>5, <2>3, <2>5, <3>1, JobFacts DEF LaunchJob, SchedInv, SchedTypeOK
    <3>2. CASE k # j
      <4>1. Jobs[k].id # Jobs[j].id
        BY <3>2 DEF DistinctIds
      <4>2. lastSlots'[Jobs[k].id] = lastSlots[Jobs[k].id]
        BY <1>5, <4>1, JobFacts DEF LaunchJob, SchedInv, SchedTypeOK
      <4> QED BY <2>4, <2>5, <4>2 DEF SlotsVisited
    <3> QED BY <3>1, <3>2
  <2>6. ASSUME NEW k \in JobNumbers, NEW s \in Jobs[k].due,
               aliveSince <= StartOf(s), s < slot \/ (s = slot /\ k < j + 1)
        PROVE  launches'[k][s] > 0
    <3>1. CASE k = j /\ s = slot
      BY <2>3, <3>1
    <3>2. CASE ~(k = j /\ s = slot)
      <4>1. s < slot \/ (s = slot /\ k < next)
        BY <1>a, <2>1, <2>6, <3>2
      <4>2. launches[k][s] > 0 /\ s \in Slots
        BY <1>a, <2>1, <2>6, <4>1 DEF SlotsVisited
      <4> QED BY <2>4, <4>2
    <3> QED BY <3>1, <3>2
  <2>7. aliveSince <= clock'
    BY <1>0, <2>1
  <2> QED BY <1>5, <2>1, <2>2, <2>5, <2>6, <2>7 DEF LaunchJob, SlotsVisited
<1>6. ASSUME NEW j \in JobNumbers, NEW took \in 0..MaxCall, LaunchRaises(j, took)
      PROVE  SlotsVisited'
  <2>1. \A k \in JobNumbers, s \in Slots : launches[k][s] > 0 => launches'[k][s] > 0
    BY <1>a, <1>b, <1>6 DEF LaunchRaises
  <2>2. aliveSince' <= clock'
    BY <1>0, <1>6 DEF LaunchRaises
  <2> QED BY <1>6, <2>1, <2>2 DEF LaunchRaises, SlotsVisited
<1>7. ASSUME NEW down \in 0..MaxDown, RestartScheduler(down) PROVE SlotsVisited'
  <2>1. \A i \in JobIds : lastSlots'[i] = -1
    BY <1>7, JobFacts DEF RestartScheduler
  <2>2. \A j \in JobNumbers, s \in Slots : lastSlots'[Jobs[j].id] # s
    <3>1. \A s \in Slots : s # -1
      BY JobFacts
    <3> QED BY <2>1, <3>1, JobFacts
  <2>3. aliveSince' = clock' /\ clock' \in Int /\ phase' = "asleep"
    BY <1>d, <1>7 DEF RestartScheduler
  <2> QED BY <2>2, <2>3 DEF SlotsVisited
<1>8. CASE UNCHANGED schedVars
  BY <1>8 DEF schedVars, SlotsVisited
<1> QED BY <1>1, <1>2, <1>3, <1>4, <1>5, <1>6, <1>7, <1>8 DEF SchedNext

\* What has been visited leaves no slot out.
LEMMA VisitedLeavesNone == SchedInv /\ (ShortPasses /\ DistinctIds => SlotsVisited) => NoSlotLeftOut
<1> SUFFICES ASSUME SchedInv, SlotsVisited, ShortPasses, DistinctIds, phase = "asleep",
                    NEW j \in JobNumbers, NEW s \in Jobs[j].due,
                    aliveSince <= StartOf(s), StartOf(s + 1) <= clock
             PROVE  launches[j][s] = 1
  BY DEF NoSlotLeftOut
<1>1. /\ s \in Slots /\ s \in Nat /\ clock \in Nat /\ aliveSince \in Nat /\ slot \in Nat
      /\ launches[j][s] \in Nat
  BY DueSlots, JobFacts DEF SchedInv, SchedTypeOK
<1>2. /\ StartOf(s) \in Int /\ StartOf(s + 1) = StartOf(s) + MinuteTicks
      /\ MinuteTicks \in Nat \ {0}
  BY <1>1, StartOrder, SchedulerAssumption
<1>3. clock # aliveSince
  BY <1>1, <1>2
<1>4. clock < StartOf(slot + 1) + CallTime(Len(Jobs)) + Interval
  BY <1>3 DEF SlotsVisited
<1>5. s + 1 <= slot + 1
  BY <1>1, <1>4, NextMinute
<1>6. s <= slot
  BY <1>1, <1>5
<1>7. launches[j][s] > 0
  BY <1>3, <1>6 DEF SlotsVisited
<1>8. launches[j][s] <= 1
  BY <1>1 DEF SchedInv, OncePerProcess
<1> QED BY <1>1, <1>7, <1>8

\* A process leaves no slot out that begins while it runs (run_once, run_forever), for any
\* interval and any number of jobs that let a pass and the sleep after it fit a minute.
THEOREM NoSlotIsLeftOut == SchedSpec => []NoSlotLeftOut
<1> DEFINE Visited == ShortPasses /\ DistinctIds => SlotsVisited
<1>1. SchedInit => Visited
  BY InitVisited
<1>2. SchedInv /\ Visited /\ [SchedNext]_schedVars => Visited'
  <2> SUFFICES ASSUME SchedInv, Visited, [SchedNext]_schedVars, ShortPasses, DistinctIds
               PROVE  SlotsVisited'
    BY DEF ShortPasses, DistinctIds, JobNumbers
  <2> QED BY NextVisited
<1>3. SchedInv /\ Visited => NoSlotLeftOut
  BY VisitedLeavesNone
<1> QED BY <1>1, <1>2, <1>3, AlwaysSchedInv, PTL DEF SchedSpec

-----------------------------------------------------------------------------
(* Sums over finite sets *)

\* The element a sum takes first, and what it makes of the sums of the smaller sets.
Any(s) == CHOOSE x \in s : TRUE

Added(sum, f, s) == IF s = {} THEN 0 ELSE f[Any(s)] + sum[s \ {Any(s)}]

IsSum(sum, f, S) == sum = [s \in SUBSET S |-> Added(sum, f, s)]

\* A set of natural numbers has a least one.
LEMMA LeastOf ==
  ASSUME NEW N \in SUBSET Nat, N # {}
  PROVE  \E i \in N : \A j \in N : i <= j
<1>1. PICK i \in N : \A j \in N : ~(<<j, i>> \in OpToRel(<, Nat))
  BY NatLessThanWellFounded, WFMin
<1>2. \A j \in N : ~(j < i)
  BY <1>1 DEF OpToRel
<1>3. i \in Nat /\ \A j \in N : j \in Nat
  OBVIOUS
<1>4. \A j \in N : i <= j
  BY <1>2, <1>3
<1> QED BY <1>4

\* Induction, for what a set of natural numbers can say.
LEMMA CountUp ==
  ASSUME NEW N, 0 \in N, \A n \in Nat : n \in N => n + 1 \in N
  PROVE  Nat \subseteq N
<1> SUFFICES ASSUME Nat \ N # {} PROVE FALSE
  OBVIOUS
<1>1. PICK i \in Nat \ N : \A j \in Nat \ N : i <= j
  BY LeastOf
<1>2. i # 0
  BY <1>1
<1>3. i - 1 \in Nat /\ ~(i <= i - 1) /\ (i - 1) + 1 = i
  BY <1>1, <1>2
<1>4. i - 1 \in N
  BY <1>1, <1>3
<1> QED BY <1>1, <1>3, <1>4

\* Induction over the subsets of a finite set.
LEMMA SubsetInduction ==
  ASSUME NEW S, IsFiniteSet(S), NEW B,
         \A s \in SUBSET S : (\A x \in s : s \ {x} \in B) => s \in B
  PROVE  SUBSET S \subseteq B
<1> DEFINE bad  == (SUBSET S) \ B
           size == {Cardinality(s) : s \in bad}
<1> SUFFICES ASSUME bad # {} PROVE FALSE
  OBVIOUS
<1>1. \A s \in SUBSET S : IsFiniteSet(s) /\ Cardinality(s) \in Nat
  BY FS_Subset, FS_CardinalityType
<1>2. size \in SUBSET Nat /\ size # {}
  BY <1>1
<1> HIDE DEF size
<1>3. PICK n \in size : \A m \in size : n <= m
  BY <1>2, LeastOf
<1>4. PICK s \in bad : Cardinality(s) = n
  BY <1>3 DEF size
<1>5. ASSUME NEW x \in s PROVE s \ {x} \in B
  <2>1. Cardinality(s \ {x}) = Cardinality(s) - 1
    BY <1>1, <1>4, FS_RemoveElement
  <2>2. Cardinality(s) \in Nat /\ ~(Cardinality(s) <= Cardinality(s) - 1)
    BY <1>1, <1>4
  <2>3. s \ {x} \notin bad
    <3>1. s \ {x} \in bad => Cardinality(s \ {x}) \in size
      BY DEF size
    <3> QED BY <1>3, <1>4, <2>1, <2>2, <3>1
  <2> QED BY <1>4, <2>3
<1> QED BY <1>4, <1>5

\* The recursion of a sum has a solution, so a sum is one.
LEMMA SumExists ==
  ASSUME NEW S, IsFiniteSet(S), NEW f, \A x \in S : f[x] \in Int
  PROVE  \E sum : IsSum(sum, f, S)
<1> DEFINE upto(sum, n) == \A s \in SUBSET S : Cardinality(s) <= n => sum[s] = Added(sum, f, s)
           N == {n \in Nat : \E sum \in [SUBSET S -> Int] : upto(sum, n)}
<1>1. \A s \in SUBSET S : IsFiniteSet(s) /\ Cardinality(s) \in Nat
  BY FS_Subset, FS_CardinalityType
<1>2. \A s \in SUBSET S : s # {} => /\ Any(s) \in s /\ s \ {Any(s)} \in SUBSET S
                                    /\ Cardinality(s \ {Any(s)}) = Cardinality(s) - 1
  BY <1>1, FS_RemoveElement DEF Any
<1>3. 0 \in N
  <2> DEFINE zero == [s \in SUBSET S |-> 0]
  <2>1. \A s \in SUBSET S : Cardinality(s) <= 0 => s = {}
    BY <1>1, FS_EmptySet
  <2>2. zero \in [SUBSET S -> Int] /\ upto(zero, 0)
    BY <2>1 DEF Added
  <2> QED BY <2>2
<1>4. ASSUME NEW n \in Nat, n \in N PROVE n + 1 \in N
  <2>1. PICK sum \in [SUBSET S -> Int] : upto(sum, n)
    BY <1>4
  <2> DEFINE more == [s \in SUBSET S |-> IF Cardinality(s) <= n THEN sum[s] ELSE Added(sum, f, s)]
  <2>2. \A s \in SUBSET S : Added(sum, f, s) \in Int
    BY <1>2 DEF Added
  <2>3. more \in [SUBSET S -> Int]
    BY <2>2
  <2>4. ASSUME NEW s \in SUBSET S, Cardinality(s) <= n + 1 PROVE more[s] = Added(more, f, s)
    <3>1. more[s] = Added(sum, f, s)
      BY <2>1
    <3>2. s # {} => more[s \ {Any(s)}] = sum[s \ {Any(s)}]
      <4>1. s # {} => Cardinality(s) - 1 <= n
        BY <1>1, <2>4
      <4> QED BY <1>2, <4>1
    <3> HIDE DEF more
    <3> QED BY <3>1, <3>2 DEF Added
  <2> HIDE DEF more
  <2>5. upto(more, n + 1)
    BY <2>4
  <2> QED BY <2>3, <2>5
<1> HIDE DEF N
<1>5. Cardinality(S) \in N
  BY <1>1, <1>3, <1>4, CountUp
<1>6. PICK sum \in [SUBSET S -> Int] : upto(sum, Cardinality(S))
  BY <1>5 DEF N
<1>7. \A s \in SUBSET S : Cardinality(s) <= Cardinality(S)
  BY FS_Subset
<1>8. \A s \in SUBSET S : sum[s] = Added(sum, f, s)
  BY <1>6, <1>7
<1> QED BY <1>6, <1>8 DEF IsSum

\* The sum of the library is the one that recursion has.
LEMMA SumOf ==
  ASSUME NEW S, IsFiniteSet(S), NEW f, \A x \in S : f[x] \in Int
  PROVE  \E sum : IsSum(sum, f, S) /\ SumFunctionOnSet(f, S) = sum[S]
<1> DEFINE sum == CHOOSE g : IsSum(g, f, S)
<1>1. IsSum(sum, f, S)
  BY SumExists
<1>2. SumFunctionOnSet(f, S) = sum[S]
  BY DEF SumFunctionOnSet, FoldFunctionOnSet, MapThenFoldSet, Any, Added, IsSum
<1> QED BY <1>1, <1>2

\* The sum of every subset is a number.
LEMMA SumTypes ==
  ASSUME NEW S, IsFiniteSet(S), NEW f, \A x \in S : f[x] \in Int, NEW sum, IsSum(sum, f, S)
  PROVE  \A s \in SUBSET S : sum[s] \in Int
<1> DEFINE B == {s \in SUBSET S : sum[s] \in Int}
<1>1. ASSUME NEW s \in SUBSET S, \A x \in s : s \ {x} \in B PROVE s \in B
  <2>1. sum[s] = Added(sum, f, s)
    BY DEF IsSum
  <2>2. CASE s = {}
    BY <2>1, <2>2 DEF Added
  <2>3. CASE s # {}
    <3>1. Any(s) \in s
      BY <2>3 DEF Any
    <3>2. f[Any(s)] \in Int /\ sum[s \ {Any(s)}] \in Int
      BY <1>1, <3>1
    <3>3. sum[s] = f[Any(s)] + sum[s \ {Any(s)}]
      BY <2>1, <2>3 DEF Added
    <3> QED BY <3>2, <3>3
  <2> QED BY <2>2, <2>3
<1> HIDE DEF B
<1>2. SUBSET S \subseteq B
  BY <1>1, SubsetInduction
<1> QED BY <1>2 DEF B

\* What a sum over a set is, without its recursion: any element may be taken first.
SplitsUp(sum, f, S) ==
  sum[{}] = 0 /\ \A s \in SUBSET S : \A x \in s : sum[s] = f[x] + sum[s \ {x}]

LEMMA SumSplits ==
  ASSUME NEW S, IsFiniteSet(S), NEW f, \A x \in S : f[x] \in Int, NEW sum, IsSum(sum, f, S)
  PROVE  SplitsUp(sum, f, S)
<1> DEFINE B == {s \in SUBSET S : \A x \in s : sum[s] = f[x] + sum[s \ {x}]}
<1>1. ASSUME NEW s \in SUBSET S, \A x \in s : s \ {x} \in B PROVE s \in B
  <2> SUFFICES ASSUME NEW x \in s PROVE sum[s] = f[x] + sum[s \ {x}]
    OBVIOUS
  <2> DEFINE y == Any(s)
  <2>1. y \in s
    BY DEF Any
  <2>2. sum[s] = f[y] + sum[s \ {y}]
    BY <2>1 DEF IsSum, Added
  <2> HIDE DEF y
  <2>3. CASE x = y
    BY <2>2, <2>3
  <2>4. CASE x # y
    <3>1. sum[s \ {y}] = f[x] + sum[(s \ {y}) \ {x}]
      BY <1>1, <2>1, <2>4
    <3>2. sum[s \ {x}] = f[y] + sum[(s \ {x}) \ {y}]
      BY <1>1, <2>1, <2>4
    <3>3. (s \ {y}) \ {x} = (s \ {x}) \ {y}
      OBVIOUS
    <3> DEFINE rest == sum[(s \ {x}) \ {y}]
    <3>4. rest \in Int /\ f[x] \in Int /\ f[y] \in Int
      BY <2>1, SumTypes
    <3>5. sum[s] = f[y] + (f[x] + rest) /\ sum[s \ {x}] = f[y] + rest
      BY <2>2, <3>1, <3>2, <3>3
    <3> HIDE DEF rest
    <3>6. f[y] + (f[x] + rest) = f[x] + (f[y] + rest)
      BY <3>4
    <3> QED BY <3>5, <3>6
  <2> QED BY <2>3, <2>4
<1> HIDE DEF B
<1>2. SUBSET S \subseteq B
  BY <1>1, SubsetInduction
<1>3. \A s \in SUBSET S : \A x \in s : sum[s] = f[x] + sum[s \ {x}]
  BY <1>2 DEF B
<1>4. sum[{}] = 0
  BY DEF IsSum, Added
<1> QED BY <1>3, <1>4 DEF SplitsUp

\* What the community module adds up is such a sum.
LEMMA SumIs ==
  ASSUME NEW S, IsFiniteSet(S), NEW f, \A x \in S : f[x] \in Int
  PROVE  \E sum : SplitsUp(sum, f, S) /\ SumFunctionOnSet(f, S) = sum[S]
<1> QED BY SumOf, SumSplits

\* An injection that keeps the values.
Carries(h, S, f, T, g) ==
  /\ h \in [S -> T]
  /\ \A x, y \in S : h[x] = h[y] => x = y
  /\ T = {h[x] : x \in S}
  /\ \A x \in S : f[x] \in Int /\ f[x] = g[h[x]]

\* A sum over a set is the sum over its image under an injection that keeps the values.
LEMMA SumMoves ==
  ASSUME NEW S, IsFiniteSet(S), NEW T, NEW f, NEW g, NEW h, Carries(h, S, f, T, g)
  PROVE  SumFunctionOnSet(f, S) = SumFunctionOnSet(g, T)
<1>1. IsFiniteSet(T)
  <2>1. h \in Surjection(S, T)
    BY DEF Carries, Surjection
  <2> QED BY <2>1, FS_Surjection
<1>2. (\A x \in S : f[x] \in Int) /\ (\A y \in T : g[y] \in Int)
  BY DEF Carries
<1>3. PICK a : SplitsUp(a, f, S) /\ SumFunctionOnSet(f, S) = a[S]
  BY <1>2, SumIs
<1>4. PICK b : SplitsUp(b, g, T) /\ SumFunctionOnSet(g, T) = b[T]
  BY <1>1, <1>2, SumIs
<1> DEFINE image(s) == {h[x] : x \in s}
           B == {s \in SUBSET S : a[s] = b[image(s)]}
<1>5. ASSUME NEW s \in SUBSET S, \A x \in s : s \ {x} \in B PROVE s \in B
  <2>1. CASE s = {}
    <3>1. a[{}] = 0 /\ b[{}] = 0
      BY <1>3, <1>4 DEF SplitsUp
    <3>2. image(s) = {}
      BY <2>1
    <3> QED BY <2>1, <3>1, <3>2
  <2>2. CASE s # {}
    <3>1. PICK x \in s : TRUE
      BY <2>2
    <3>2. a[s] = f[x] + a[s \ {x}]
      BY <1>3 DEF SplitsUp
    <3>3. a[s \ {x}] = b[image(s \ {x})]
      BY <1>5
    <3>4. image(s \ {x}) = image(s) \ {h[x]}
      BY DEF Carries
    <3>5. image(s) \in SUBSET T /\ h[x] \in image(s)
      BY DEF Carries
    <3> HIDE DEF image
    <3>6. b[image(s)] = g[h[x]] + b[image(s) \ {h[x]}]
      BY <1>4, <3>5 DEF SplitsUp
    <3>7. a[s] = b[image(s)]
      BY <3>2, <3>3, <3>4, <3>6 DEF Carries
    <3> QED BY <3>7
  <2> QED BY <2>1, <2>2
<1> HIDE DEF B
<1>6. S \in B
  BY <1>5, SubsetInduction
<1>7. a[S] = b[T]
  BY <1>6 DEF B, Carries
<1> QED BY <1>3, <1>4, <1>7

-----------------------------------------------------------------------------
(* The signal aggregator: places in the memory *)

RuleSet == [types : Seq(SignalTypes) \ {<<>>}, minScore : Int, within : Int]

\* Numbers up to a bound, if there are any, have a greatest one.
LEMMA GreatestOf ==
  ASSUME NEW n \in Nat, NEW S \in SUBSET (0..n), S # {}
  PROVE  Max(S) \in S /\ \A x \in S : x <= Max(S)
<1> DEFINE M == {n - x : x \in S}
<1>1. M \in SUBSET Nat /\ M # {}
  <2>1. \A x \in S : n - x \in Nat
    OBVIOUS
  <2>2. PICK x \in S : TRUE
    OBVIOUS
  <2>3. n - x \in M
    BY <2>2
  <2> QED BY <2>1, <2>3
<1>2. PICK m \in M : \A j \in M : m <= j
  <2> HIDE DEF M
  <2> QED BY <1>1, LeastOf
<1>3. PICK x \in S : m = n - x
  BY <1>2
<1>4. \A y \in S : x >= y
  BY <1>2, <1>3
<1> QED BY <1>3, <1>4 DEF Max

\* The minimum of a set of natural numbers is its least element.
LEMMA LeastIsMin ==
  ASSUME NEW S \in SUBSET Nat, S # {}
  PROVE  Min(S) \in S /\ \A x \in S : Min(S) <= x
BY LeastOf DEF Min

\* There are n numbers from 1 to n.
LEMMA OneTo ==
  ASSUME NEW n \in Nat
  PROVE  IsFiniteSet(1..n) /\ Cardinality(1..n) = n
BY FS_Interval

\* What the place of the last signal of a type in the window is.
LEMMA LatestIs ==
  ASSUME NEW memory \in Seq(Signals), NEW type, NEW start
  PROVE  LET p == LatestOf(memory, type, start)
             fits(i) == memory[i].type = type /\ memory[i].at >= start
         IN  /\ p \in 0..Len(memory)
             /\ p # 0 => fits(p)
             /\ \A i \in 1..Len(memory) : fits(i) => i <= p
<1> DEFINE found == {i \in 1..Len(memory) : memory[i].type = type /\ memory[i].at >= start}
<1>1. Len(memory) \in Nat
  OBVIOUS
<1>2. {0} \cup found \in SUBSET (0..Len(memory)) /\ {0} \cup found # {}
  BY <1>1
<1>3. LatestOf(memory, type, start) = Max({0} \cup found)
  BY DEF LatestOf
<1>4. /\ Max({0} \cup found) \in {0} \cup found
      /\ \A x \in {0} \cup found : x <= Max({0} \cup found)
  <2> HIDE DEF found
  <2> QED BY <1>1, <1>2, GreatestOf
<1> QED BY <1>1, <1>3, <1>4

\* A rule is matched when every type is found, and no type is named twice.
LEMMA MatchedWhole ==
  ASSUME NEW rule \in RuleSet, NEW matched \in SUBSET (1..Len(rule.types))
  PROVE  Cardinality({rule.types[k] : k \in matched}) = Len(rule.types)
           <=> matched = 1..Len(rule.types) /\ DistinctTypes(rule)
<1> DEFINE D == 1..Len(rule.types)
           image == {rule.types[k] : k \in matched}
           pick == [k \in matched |-> rule.types[k]]
<1>1. Len(rule.types) \in Nat
  BY DEF RuleSet
<1>2. IsFiniteSet(D) /\ Cardinality(D) = Len(rule.types)
  BY <1>1, OneTo
<1>3. /\ IsFiniteSet(matched) /\ Cardinality(matched) <= Len(rule.types)
      /\ Cardinality(matched) \in Nat
      /\ Cardinality(matched) = Len(rule.types) => matched = D
  BY <1>2, FS_Subset, FS_CardinalityType
<1>4. Cardinality(image) <= Cardinality(matched) /\ Cardinality(image) \in Nat
  <2>1. pick \in Surjection(matched, image)
    BY DEF Surjection
  <2> HIDE DEF pick, image
  <2> QED BY <1>3, <2>1, FS_Surjection, FS_CardinalityType
<1>5. matched = D => image = TypesOf(rule)
  BY DEF TypesOf
<1>6. Cardinality(image) = Len(rule.types) => matched = D
  BY <1>1, <1>3, <1>4
<1> HIDE DEF image
<1>7. Cardinality(image) = Len(rule.types) <=> matched = D /\ DistinctTypes(rule)
  BY <1>5, <1>6 DEF DistinctTypes
<1> QED BY <1>7 DEF image

\* In a rule whose types are distinct, two places have two types.
LEMMA DistinctPlaces ==
  ASSUME NEW rule \in RuleSet, DistinctTypes(rule),
         NEW i \in 1..Len(rule.types), NEW j \in 1..Len(rule.types),
         rule.types[i] = rule.types[j]
  PROVE  i = j
<1> DEFINE D == 1..Len(rule.types)
           pick == [k \in D |-> rule.types[k]]
<1>1. Len(rule.types) \in Nat
  BY DEF RuleSet
<1>2. IsFiniteSet(D) /\ Cardinality(D) = Len(rule.types)
  BY <1>1, OneTo
<1>3. pick \in Surjection(D, TypesOf(rule))
  BY DEF Surjection, TypesOf
<1>4. Cardinality(TypesOf(rule)) = Cardinality(D)
  BY <1>2 DEF DistinctTypes
<1>5. pick \in Injection(D, TypesOf(rule))
  <2> HIDE DEF pick, D
  <2> QED BY <1>2, <1>3, <1>4, FS_Surjection
<1> QED BY <1>5 DEF Injection, IsInjective


-----------------------------------------------------------------------------
(* What the memory holds of what was received *)

\* The history and the memory are sequences of signals, and a signal carries the number
\* of its arrival.
SignalTypesHold ==
  /\ received \in Seq(Signals)
  /\ events \in Seq(Signals)
  /\ Len(received) <= MaxReceived
  /\ \A i \in 1..Len(received) : received[i].n = i

\* The memory is the end of the history.
MemoryFits ==
  /\ Len(events) = IF Len(received) <= MaxEvents THEN Len(received) ELSE MaxEvents
  /\ \A i \in 1..Len(events) : events[i] = received[Len(received) - Len(events) + i]

\* The answer is the one of the memory, at the time of the last signal.
TriggerFits == trigger = IF received = <<>> THEN NoTrigger ELSE TriggerOf(events, Now)

SignalInv == SignalTypesHold /\ MemoryFits /\ TriggerFits

\* What was received is known by its number.
LEMMA ArrivedByNumber ==
  ASSUME SignalTypesHold, NEW s \in Arrived
  PROVE  s.n \in 1..Len(received) /\ s = received[s.n]
<1>1. PICK i \in 1..Len(received) : s = received[i]
  BY DEF Arrived
<1> QED BY <1>1 DEF SignalTypesHold

\* A signal of the memory has its place in the history.
LEMMA MemoryIsLast ==
  ASSUME SignalTypesHold, MemoryFits
  PROVE  LET off == Len(received) - Len(events)
         IN  /\ off \in Nat /\ Len(received) \in Nat /\ Len(events) \in Nat
             /\ off <= Len(received) - MaxEvents \/ off = 0
             /\ off >= Len(received) - MaxEvents
             /\ \A i \in 1..Len(events) : events[i] \in Arrived /\ events[i].n = off + i
             /\ \A j \in 1..Len(received) :
                  j > off => j - off \in 1..Len(events) /\ events[j - off] = received[j]
<1> DEFINE all == Len(received)
           off == Len(received) - Len(events)
<1>1. all \in Nat /\ Len(events) \in Nat /\ MaxEvents \in Nat \ {0}
  BY SignalAssumption DEF SignalTypesHold
<1>2. /\ off \in Nat
      /\ off <= all - MaxEvents \/ off = 0
      /\ off >= all - MaxEvents
  BY <1>1 DEF MemoryFits
<1>3. ASSUME NEW i \in 1..Len(events)
      PROVE  events[i] \in Arrived /\ events[i].n = off + i
  <2>1. off + i \in 1..all
    BY <1>1, <1>2
  <2>2. events[i] = received[off + i]
    BY DEF MemoryFits
  <2> QED BY <2>1, <2>2 DEF Arrived, SignalTypesHold
<1>4. ASSUME NEW j \in 1..all, j > off
      PROVE  j - off \in 1..Len(events) /\ events[j - off] = received[j]
  <2>1. j - off \in 1..Len(events) /\ off + (j - off) = j
    BY <1>1, <1>2, <1>4
  <2> QED BY <2>1 DEF MemoryFits
<1> QED BY <1>1, <1>2, <1>3, <1>4

\* What is found for a type is the last of what was received of it in the window.
LEMMA FoundIsLast ==
  ASSUME SignalTypesHold, MemoryFits, NEW type, NEW start,
         LatestOf(events, type, start) # 0
  PROVE  LET p == LatestOf(events, type, start)
         IN  /\ p \in 1..Len(events)
             /\ events[p] \in Arrived /\ events[p].type = type /\ events[p].at >= start
             /\ \A t \in Arrived : t.type = type /\ t.at >= start => t.n <= events[p].n
<1> DEFINE p   == LatestOf(events, type, start)
           off == Len(received) - Len(events)
<1>1. /\ p \in 0..Len(events)
      /\ p # 0 => events[p].type = type /\ events[p].at >= start
      /\ \A i \in 1..Len(events) : events[i].type = type /\ events[i].at >= start => i <= p
  BY LatestIs DEF SignalTypesHold
<1>2. /\ off \in Nat /\ Len(received) \in Nat /\ Len(events) \in Nat
      /\ \A i \in 1..Len(events) : events[i] \in Arrived /\ events[i].n = off + i
      /\ \A j \in 1..Len(received) :
           j > off => j - off \in 1..Len(events) /\ events[j - off] = received[j]
  BY MemoryIsLast
<1> HIDE DEF p, off
<1>3. p # 0
  BY DEF p
<1>4. p \in 1..Len(events) /\ events[p].n = off + p
  BY <1>1, <1>2, <1>3
<1>5. ASSUME NEW t \in Arrived, t.type = type, t.at >= start PROVE t.n <= events[p].n
  <2>1. t.n \in 1..Len(received) /\ t = received[t.n]
    BY ArrivedByNumber
  <2> DEFINE j == t.n
  <2>2. j > off => j - off <= p
    BY <1>1, <1>2, <1>5, <2>1
  <2> HIDE DEF j
  <2>3. j \in Nat /\ p \in Nat
    BY <1>4, <2>1 DEF j
  <2>4. j <= off + p
    BY <1>2, <2>2, <2>3
  <2> QED BY <1>4, <2>4 DEF j
<1> QED BY <1>1, <1>2, <1>3, <1>4, <1>5 DEF p

\* When every type of a rule is found, what is found is the rule's evidence.
LEMMA FoundIsEvidence ==
  ASSUME SignalTypesHold, MemoryFits, NEW rule \in RuleSet,
         NEW places, places = Places(events, rule, Now),
         \A k \in 1..Len(rule.types) : places[k] # 0
  PROVE  {events[places[k]] : k \in DOMAIN places} = Evidence(rule)
<1> DEFINE D     == 1..Len(rule.types)
           start == WindowStart(rule, Now)
           recent == {s \in Arrived : s.type \in TypesOf(rule) /\ s.at >= start}
<1>1. DOMAIN places = D /\ \A k \in D : places[k] = LatestOf(events, rule.types[k], start)
  BY DEF Places
<1> HIDE DEF start
<1>2. \A k \in D : /\ events[places[k]] \in Arrived
                   /\ events[places[k]].type = rule.types[k]
                   /\ events[places[k]].at >= start
                   /\ \A t \in Arrived :
                        t.type = rule.types[k] /\ t.at >= start => t.n <= events[places[k]].n
  BY <1>1, FoundIsLast
<1>3. Evidence(rule) = {s \in recent : \A t \in recent : t.type = s.type => t.n <= s.n}
  BY DEF Evidence, start
<1>4. \A k \in D : events[places[k]] \in recent
  BY <1>2 DEF TypesOf
<1>5. \A k \in D : events[places[k]] \in Evidence(rule)
  BY <1>2, <1>3, <1>4
<1>6. ASSUME NEW s \in Evidence(rule) PROVE \E k \in D : s = events[places[k]]
  <2>1. PICK k \in D : s.type = rule.types[k]
    BY <1>3 DEF TypesOf
  <2> DEFINE e == events[places[k]]
  <2>2. e \in recent /\ e.type = s.type /\ s \in Arrived /\ s.at >= start
    BY <1>2, <1>3, <1>4, <2>1
  <2>3. e.n <= s.n /\ s.n <= e.n
    BY <1>2, <1>3, <2>1, <2>2
  <2>4. /\ e.n \in 1..Len(received) /\ e = received[e.n]
        /\ s.n \in 1..Len(received) /\ s = received[s.n]
    BY <2>2, ArrivedByNumber
  <2> HIDE DEF e
  <2>5. e.n = s.n
    BY <2>3, <2>4
  <2>6. e = s
    BY <2>4, <2>5
  <2> QED BY <2>6 DEF e
<1> HIDE DEF recent
<1> QED BY <1>1, <1>5, <1>6

\* What was not pushed out of the memory is found.
LEMMA KeptIsFound ==
  ASSUME SignalTypesHold, MemoryFits, NEW rule \in RuleSet,
         NEW k \in 1..Len(rule.types),
         NEW s \in Evidence(rule), s.type = rule.types[k], s.n > Len(received) - MaxEvents
  PROVE  LatestOf(events, rule.types[k], WindowStart(rule, Now)) # 0
<1> DEFINE off == Len(received) - Len(events)
           type == rule.types[k]
           start == WindowStart(rule, Now)
<1>1. s \in Arrived /\ s.at >= start
  BY DEF Evidence
<1>2. s.n \in 1..Len(received) /\ s = received[s.n]
  BY <1>1, ArrivedByNumber
<1>3. /\ off \in Nat /\ Len(received) \in Nat /\ MaxEvents \in Nat
      /\ off <= Len(received) - MaxEvents \/ off = 0
      /\ \A j \in 1..Len(received) :
           j > off => j - off \in 1..Len(events) /\ events[j - off] = received[j]
  BY MemoryIsLast, SignalAssumption
<1> HIDE DEF off
<1>4. s.n > off
  BY <1>2, <1>3
<1>5. s.n - off \in 1..Len(events) /\ events[s.n - off] = s
  BY <1>2, <1>3, <1>4
<1>6. \A i \in 1..Len(events) :
        events[i].type = type /\ events[i].at >= start => i <= LatestOf(events, type, start)
  BY LatestIs DEF SignalTypesHold
<1>7. s.n - off <= LatestOf(events, type, start)
  BY <1>1, <1>5, <1>6
<1> QED BY <1>5, <1>7

\* Found for distinct types, the scores of the places add up to those of the signals.
LEMMA ScoresAddUp ==
  ASSUME SignalTypesHold, MemoryFits, NEW rule \in RuleSet, DistinctTypes(rule),
         NEW places, places = Places(events, rule, Now),
         \A k \in 1..Len(rule.types) : places[k] # 0
  PROVE  Total(events, places) = ScoreOf({events[places[k]] : k \in DOMAIN places})
<1> DEFINE D == 1..Len(rule.types)
           T == {events[places[k]] : k \in D}
           f == [k \in D |-> IF places[k] = 0 THEN 0 ELSE events[places[k]].score]
           g == [s \in T |-> s.score]
           h == [k \in D |-> events[places[k]]]
<1>1. DOMAIN places = D
      /\ \A k \in D : places[k] = LatestOf(events, rule.types[k], WindowStart(rule, Now))
  BY DEF Places
<1>2. \A k \in D : places[k] \in 1..Len(events) /\ events[places[k]].type = rule.types[k]
  BY <1>1, FoundIsLast
<1>3. \A k \in D : events[places[k]] \in Signals /\ events[places[k]].score \in Int
  <2>1. \A s \in Signals : s.score \in Int
    BY SignalAssumption DEF Signals
  <2>2. \A i \in 1..Len(events) : events[i] \in Signals
    BY DEF SignalTypesHold
  <2> QED BY <1>2, <2>1, <2>2
<1>4. \A i, j \in D : h[i] = h[j] => i = j
  BY <1>2, DistinctPlaces
<1>5. h \in [D -> T] /\ T = {h[k] : k \in D}
  OBVIOUS
<1>6. \A k \in D : f[k] \in Int /\ f[k] = g[h[k]]
  BY <1>3
<1>7. IsFiniteSet(D)
  <2>1. Len(rule.types) \in Nat
    BY DEF RuleSet
  <2> QED BY <2>1, OneTo
<1>8. Total(events, places) = SumFunctionOnSet(f, D)
  BY <1>1 DEF Total, SumFunction
<1>9. ScoreOf(T) = SumFunctionOnSet(g, T)
  BY DEF ScoreOf, SumFunction
<1>10. SumFunctionOnSet(f, D) = SumFunctionOnSet(g, T)
  <2> HIDE DEF D, T, f, g, h
  <2> QED BY <1>4, <1>5, <1>6, <1>7, SumMoves DEF Carries
<1> QED BY <1>1, <1>8, <1>9, <1>10


-----------------------------------------------------------------------------
(* The signal aggregator: a trigger and its evidence *)

\* A rule matches when its types are distinct, each of them is found, and the scores of
\* what is found reach its minimum.
LEMMA MatchIs ==
  ASSUME SignalTypesHold, NEW rule \in RuleSet, NEW now,
         NEW places, places = Places(events, rule, now)
  PROVE  _match_rule(events, rule, now) <=>
           /\ DistinctTypes(rule)
           /\ \A k \in 1..Len(rule.types) : places[k] # 0
           /\ Total(events, places) >= rule.minScore
<1> DEFINE D       == 1..Len(rule.types)
           matched == {k \in D : places[k] # 0}
<1>1. DOMAIN places = D
  BY DEF Places
<1>2. Cardinality({rule.types[k] : k \in matched}) = Len(rule.types)
        <=> matched = D /\ DistinctTypes(rule)
  BY MatchedWhole
<1>3. _match_rule(events, rule, now) <=>
        /\ Cardinality({rule.types[k] : k \in matched}) = Len(rule.types)
        /\ Total(events, places) >= rule.minScore
  BY <1>1 DEF _match_rule
<1>4. matched = D <=> \A k \in D : places[k] # 0
  OBVIOUS
<1> QED BY <1>2, <1>3, <1>4

\* The rule that answers is the first that matches.
LEMMA FirstIs ==
  ASSUME NEW memory, NEW now
  PROVE  LET r == FirstMatch(memory, now)
         IN  /\ r = 0 => \A q \in 1..Len(Rules) : ~_match_rule(memory, Rules[q], now)
             /\ r # 0 => /\ r \in 1..Len(Rules)
                         /\ _match_rule(memory, Rules[r], now)
                         /\ \A q \in 1..Len(Rules) :
                              _match_rule(memory, Rules[q], now) => r <= q
<1> DEFINE matching == {r \in 1..Len(Rules) : _match_rule(memory, Rules[r], now)}
           r == FirstMatch(memory, now)
<1>1. matching \in SUBSET Nat
  BY SignalAssumption
<1>2. r = IF matching = {} THEN 0 ELSE Min(matching)
  BY DEF FirstMatch
<1>3. CASE matching = {}
  BY <1>2, <1>3
<1>4. CASE matching # {}
  <2>1. r \in matching /\ \A q \in matching : r <= q
    <3> HIDE DEF matching
    <3> QED BY <1>1, <1>2, <1>4, LeastIsMin
  <2>2. 0 \notin matching
    BY SignalAssumption
  <2> QED BY <2>1, <2>2
<1> QED BY <1>3, <1>4

\* Each rule is one, with a number for its minimum.
LEMMA RulesTyped == \A r \in 1..Len(Rules) : Rules[r] \in RuleSet /\ Rules[r].minScore \in Int
<1>1. Rules \in Seq(RuleSet)
  BY SignalAssumption DEF RuleSet
<1>2. \A r \in 1..Len(Rules) : Rules[r] \in RuleSet
  BY <1>1
<1>3. \A rule \in RuleSet : rule.minScore \in Int
  BY DEF RuleSet
<1> QED BY <1>2, <1>3

\* The answer of the memory, when there is one.
LEMMA TriggerIs ==
  ASSUME SignalInv, received # <<>>
  PROVE  /\ trigger.rule = FirstMatch(events, Now)
         /\ trigger.rule # 0 =>
              LET places == Places(events, Rules[trigger.rule], Now)
              IN  /\ trigger.score = Total(events, places)
                  /\ trigger.signals = {events[places[k]] : k \in DOMAIN places}
BY DEF SignalInv, TriggerFits, TriggerOf, NoTrigger

\* In a state of the invariant a trigger rests on the evidence of its rule.
LEMMA EarnedByInv ==
  ASSUME SignalInv
  PROVE  TriggerIsEarned
<1> SUFFICES ASSUME trigger.rule # 0
             PROVE  /\ DistinctTypes(Rules[trigger.rule])
                    /\ trigger.signals = Evidence(Rules[trigger.rule])
                    /\ Suffices(Rules[trigger.rule], trigger.signals)
                    /\ trigger.score = ScoreOf(trigger.signals)
  BY DEF TriggerIsEarned
<1> DEFINE rule   == Rules[trigger.rule]
           places == Places(events, rule, Now)
           D      == 1..Len(rule.types)
<1>1. SignalTypesHold /\ MemoryFits
  BY DEF SignalInv
<1>2. received # <<>>
  BY DEF SignalInv, TriggerFits, NoTrigger
<1>3. /\ trigger.rule \in 1..Len(Rules)
      /\ _match_rule(events, rule, Now)
  BY <1>2, TriggerIs, FirstIs
<1>4. rule \in RuleSet
  BY <1>3, RulesTyped
<1>5. /\ trigger.score = Total(events, places)
      /\ trigger.signals = {events[places[k]] : k \in DOMAIN places}
  BY <1>2, TriggerIs
<1> HIDE DEF rule
<1>6. /\ DistinctTypes(rule)
      /\ \A k \in D : places[k] # 0
      /\ Total(events, places) >= rule.minScore
  BY <1>1, <1>3, <1>4, MatchIs
<1>7. DOMAIN places = D
      /\ \A k \in D : places[k] = LatestOf(events, rule.types[k], WindowStart(rule, Now))
  BY DEF Places
<1>8. \A k \in D : events[places[k]].type = rule.types[k]
  BY <1>1, <1>6, <1>7, FoundIsLast
<1> HIDE DEF places
<1>9. trigger.signals = Evidence(rule)
  BY <1>1, <1>4, <1>5, <1>6, FoundIsEvidence DEF places
<1>10. trigger.score = ScoreOf(trigger.signals)
  BY <1>1, <1>4, <1>5, <1>6, ScoresAddUp DEF places
<1>11. {s.type : s \in trigger.signals} = TypesOf(rule)
  BY <1>5, <1>7, <1>8 DEF TypesOf
<1>12. Suffices(rule, trigger.signals)
  BY <1>5, <1>6, <1>10, <1>11 DEF Suffices
<1> QED BY <1>6, <1>9, <1>10, <1>12 DEF rule

\* In a state of the invariant a rule that is missed has lost part of its evidence.
LEMMA MissedByInv ==
  ASSUME SignalInv
  PROVE  MissedOnlyEvicted
<1> SUFFICES ASSUME received # <<>>,
                    NEW r \in 1..Len(Rules),
                    DistinctTypes(Rules[r]), Suffices(Rules[r], Evidence(Rules[r])),
                    trigger.rule = 0 \/ r < trigger.rule,
                    \A s \in Evidence(Rules[r]) : ~(s.n <= Len(received) - MaxEvents)
             PROVE  FALSE
  BY DEF MissedOnlyEvicted
<1> DEFINE rule   == Rules[r]
           places == Places(events, rule, Now)
           D      == 1..Len(rule.types)
<1>1. SignalTypesHold /\ MemoryFits
  BY DEF SignalInv
<1>2. rule \in RuleSet
  BY RulesTyped
<1>3. ~_match_rule(events, rule, Now)
  <2>1. trigger.rule = FirstMatch(events, Now)
    BY TriggerIs
  <2>2. trigger.rule # 0 => trigger.rule \in 1..Len(Rules)
    BY <2>1, FirstIs
  <2>3. trigger.rule # 0 => ~(trigger.rule <= r)
    BY <2>2
  <2> QED BY <2>1, <2>3, FirstIs
<1>4. /\ {s.type : s \in Evidence(rule)} = TypesOf(rule)
      /\ ScoreOf(Evidence(rule)) >= rule.minScore
  BY DEF Suffices
<1>5. \A s \in Evidence(rule) : s.n > Len(received) - MaxEvents
  <2>1. Len(received) \in Int /\ MaxEvents \in Int
    BY <1>1, SignalAssumption DEF SignalTypesHold
  <2>2. \A s \in Evidence(rule) : s.n \in Int
    BY <1>1, ArrivedByNumber DEF Evidence
  <2> QED BY <2>1, <2>2
<1> HIDE DEF rule
<1>6. DOMAIN places = D
      /\ \A k \in D : places[k] = LatestOf(events, rule.types[k], WindowStart(rule, Now))
  BY DEF Places
<1>7. ASSUME NEW k \in D PROVE places[k] # 0
  <2>1. rule.types[k] \in TypesOf(rule)
    BY DEF TypesOf
  <2>2. PICK s \in Evidence(rule) : s.type = rule.types[k]
    BY <1>4, <2>1
  <2> QED BY <1>1, <1>2, <1>5, <1>6, <2>2, KeptIsFound
<1> HIDE DEF places
<1>8. {events[places[k]] : k \in DOMAIN places} = Evidence(rule)
  BY <1>1, <1>2, <1>7, FoundIsEvidence DEF places
<1>9. DistinctTypes(rule)
  BY DEF rule
<1>10. Total(events, places) = ScoreOf(Evidence(rule))
  BY <1>1, <1>2, <1>7, <1>8, <1>9, ScoresAddUp DEF places
<1>11. _match_rule(events, rule, Now)
  BY <1>1, <1>2, <1>4, <1>7, <1>9, <1>10, MatchIs DEF places
<1> QED BY <1>3, <1>11

-----------------------------------------------------------------------------
(* The signal aggregator: the invariant *)

\* The invariant holds at the start of a process.
LEMMA SignalInitInv ==
  ASSUME SignalInit
  PROVE  SignalInv
<1>1. Len(received) = 0 /\ Len(events) = 0
  BY DEF SignalInit
<1>2. SignalTypesHold
  BY <1>1, SignalAssumption DEF SignalInit, SignalTypesHold
<1>3. MemoryFits
  BY <1>1, SignalAssumption DEF MemoryFits
<1>4. TriggerFits
  BY DEF SignalInit, TriggerFits
<1> QED BY <1>2, <1>3, <1>4 DEF SignalInv

\* The end of a sequence, by its places.
LEMMA KeepIs ==
  ASSUME NEW memory \in Seq(Signals), memory # <<>>
  PROVE  /\ Keep(memory) \in Seq(Signals)
         /\ Len(Keep(memory)) = IF Len(memory) <= MaxEvents THEN Len(memory) ELSE MaxEvents
         /\ \A i \in 1..Len(Keep(memory)) :
              Keep(memory)[i] = memory[Len(memory) - Len(Keep(memory)) + i]
<1> DEFINE n    == Len(memory)
           from == IF n <= MaxEvents THEN 1 ELSE n - MaxEvents + 1
<1>1. n \in Nat /\ MaxEvents \in Nat \ {0} /\ n > 0
  BY SignalAssumption
<1>2. Max({1, n - MaxEvents + 1}) = from
  <2>1. from \in {1, n - MaxEvents + 1} /\ \A y \in {1, n - MaxEvents + 1} : from >= y
    BY <1>1
  <2>2. \A x, y \in {1, n - MaxEvents + 1} : x >= y /\ y >= x => x = y
    BY <1>1
  <2> HIDE DEF from
  <2> QED BY <2>1, <2>2 DEF Max
<1>3. Keep(memory) = SubSeq(memory, from, n)
  BY <1>2 DEF Keep
<1>4. from \in 1..n /\ n \in 1..n
  BY <1>1
<1>5. /\ SubSeq(memory, from, n) \in Seq(Signals)
      /\ Len(SubSeq(memory, from, n)) = n - from + 1
      /\ \A i \in 1..(n - from + 1) : SubSeq(memory, from, n)[i] = memory[from + i - 1]
  <2> HIDE DEF from
  <2> QED BY <1>1, <1>4, SubSeqProperties
<1>6. n - from + 1 = (IF n <= MaxEvents THEN n ELSE MaxEvents)
  BY <1>1
<1>7. \A i \in 1..(n - from + 1) : from + i - 1 = n - (n - from + 1) + i
  BY <1>1
<1> HIDE DEF from, n
<1>8. /\ Keep(memory) \in Seq(Signals)
      /\ Len(Keep(memory)) = IF n <= MaxEvents THEN n ELSE MaxEvents
      /\ \A i \in 1..Len(Keep(memory)) : Keep(memory)[i] = memory[n - Len(Keep(memory)) + i]
  BY <1>3, <1>5, <1>6, <1>7
<1> QED BY <1>8 DEF n

\* A signal that is taken in keeps the invariant.
LEMMA IngestKeepsInv ==
  ASSUME SignalInv, NEW signal \in Signals, signal.n = Len(received) + 1, ingest(signal)
  PROVE  SignalInv'
<1> DEFINE all == Len(received)
           had == Len(events)
           off == all - had
<1>1. /\ received \in Seq(Signals) /\ events \in Seq(Signals)
      /\ received' = Append(received, signal)
      /\ events' = Keep(Append(events, signal))
      /\ trigger' = TriggerOf(events', signal.at)
      /\ all \in Nat /\ had \in Nat /\ MaxReceived \in Nat /\ all < MaxReceived
      /\ MaxEvents \in Nat \ {0}
  BY SignalAssumption DEF SignalInv, SignalTypesHold, ingest
<1>2. /\ received' \in Seq(Signals) /\ Len(received') = all + 1
      /\ received'[all + 1] = signal
      /\ \A i \in 1..all : received'[i] = received[i]
  BY <1>1
<1>3. /\ Append(events, signal) \in Seq(Signals)
      /\ Append(events, signal) # <<>>
      /\ Len(Append(events, signal)) = had + 1
      /\ Append(events, signal)[had + 1] = signal
      /\ \A i \in 1..had : Append(events, signal)[i] = events[i]
  BY <1>1, AppendProperties
<1> DEFINE now == Len(events')
<1>4. /\ events' \in Seq(Signals)
      /\ now = IF had + 1 <= MaxEvents THEN had + 1 ELSE MaxEvents
      /\ \A i \in 1..now : events'[i] = Append(events, signal)[had + 1 - now + i]
  <2> DEFINE memory == Append(events, signal)
  <2>1. memory \in Seq(Signals) /\ memory # <<>> /\ Len(memory) = had + 1
    BY <1>3
  <2>2. events' = Keep(memory)
    BY <1>1
  <2> HIDE DEF memory
  <2>3. /\ Keep(memory) \in Seq(Signals)
        /\ Len(Keep(memory)) = IF Len(memory) <= MaxEvents THEN Len(memory) ELSE MaxEvents
        /\ \A i \in 1..Len(Keep(memory)) :
             Keep(memory)[i] = memory[Len(memory) - Len(Keep(memory)) + i]
    BY <2>1, KeepIs
  <2>4. events' \in Seq(Signals) /\ now = Len(Keep(memory))
    BY <2>2, <2>3
  <2>5. now = IF had + 1 <= MaxEvents THEN had + 1 ELSE MaxEvents
    BY <2>1, <2>3, <2>4
  <2>6. \A i \in 1..now : events'[i] = memory[had + 1 - now + i]
    <3> SUFFICES ASSUME NEW i \in 1..Len(Keep(memory)) PROVE events'[i] = memory[had + 1 - now + i]
      BY <2>4
    <3>1. Keep(memory)[i] = memory[Len(memory) - Len(Keep(memory)) + i]
      BY <2>3
    <3>2. Keep(memory)[i] = memory[had + 1 - now + i]
      BY <2>1, <2>4, <3>1
    <3> QED BY <2>2, <3>2
  <2> QED BY <2>4, <2>5, <2>6 DEF memory
<1>5. SignalTypesHold'
  <2>1. all + 1 <= MaxReceived
    BY <1>1
  <2>2. ASSUME NEW i \in 1..(all + 1) PROVE received'[i].n = i
    <3>1. CASE i = all + 1
      BY <1>2, <3>1
    <3>2. CASE i # all + 1
      <4>1. i \in 1..all
        BY <1>1, <3>2
      <4> QED BY <1>2, <4>1 DEF SignalInv, SignalTypesHold
    <3> QED BY <3>1, <3>2
  <2> QED BY <1>2, <1>4, <2>1, <2>2 DEF SignalTypesHold
<1>6. /\ had = IF all <= MaxEvents THEN all ELSE MaxEvents
      /\ \A i \in 1..had : events[i] = received[off + i]
  BY DEF SignalInv, MemoryFits
<1>7. MemoryFits'
  <2>1. now = IF all + 1 <= MaxEvents THEN all + 1 ELSE MaxEvents
    <3> HIDE DEF all, had, now
    <3> QED BY <1>1, <1>4, <1>6
  <2>2. ASSUME NEW i \in 1..now PROVE events'[i] = received'[all + 1 - now + i]
    <3> DEFINE j == had + 1 - now + i
    <3>1. j \in 1..(had + 1) /\ off + j = all + 1 - now + i
      <4> HIDE DEF all, had, now
      <4> QED BY <1>1, <1>4, <2>1
    <3>2. events'[i] = Append(events, signal)[j]
      BY <1>4
    <3> HIDE DEF j
    <3>3. CASE j = had + 1
      <4>1. off + j = all + 1
        BY <1>1, <3>3
      <4> QED BY <1>2, <1>3, <3>1, <3>2, <3>3, <4>1
    <3>4. CASE j # had + 1
      <4>1. j \in 1..had
        BY <1>1, <3>1, <3>4
      <4>2. off + j \in 1..all
        BY <1>1, <1>6, <4>1
      <4>3. events'[i] = received[off + j]
        BY <1>3, <1>6, <3>2, <4>1
      <4>4. events'[i] = received'[off + j]
        BY <1>2, <4>2, <4>3
      <4> QED BY <3>1, <4>4
    <3> QED BY <3>3, <3>4
  <2> QED BY <1>2, <2>1, <2>2 DEF MemoryFits
<1>8. TriggerFits'
  <2>1. Len(received') # 0
    BY <1>1, <1>2
  <2>2. received' # <<>>
    BY <2>1
  <2>3. Now' = signal.at
    BY <1>2 DEF Now
  <2> QED BY <1>1, <2>2, <2>3 DEF TriggerFits
<1> QED BY <1>5, <1>7, <1>8 DEF SignalInv

\* The aggregator's state stays well formed: the memory is the end of what was received,
\* and the answer is the one of the memory (ingest, __init__).
THEOREM SignalInvHolds == SignalSpec => []SignalInv
<1>1. SignalInit => SignalInv
  BY SignalInitInv
<1>2. SignalInv /\ [SignalNext]_signalVars => SignalInv'
  <2> SUFFICES ASSUME SignalInv, [SignalNext]_signalVars PROVE SignalInv'
    OBVIOUS
  <2>1. ASSUME NEW type \in SignalTypes, NEW at \in Times, NEW score \in Scores,
               ingest([type |-> type, at |-> at, score |-> score, n |-> Len(received) + 1])
        PROVE  SignalInv'
    <3> DEFINE signal == [type |-> type, at |-> at, score |-> score, n |-> Len(received) + 1]
    <3>1. Len(received) \in Nat /\ Len(received) < MaxReceived
      BY <2>1 DEF SignalInv, SignalTypesHold, ingest
    <3>2. signal \in Signals /\ signal.n = Len(received) + 1
      BY <3>1, SignalAssumption DEF Signals
    <3> HIDE DEF signal
    <3>3. ingest(signal)
      BY <2>1 DEF signal
    <3> QED BY <3>2, <3>3, IngestKeepsInv
  <2>2. ASSUME RestartAggregator PROVE SignalInv'
    <3>1. SignalInit'
      BY <2>2 DEF RestartAggregator, SignalInit
    <3>2. SignalInit' => SignalInv'
      BY SignalInitInv, PTL
    <3> QED BY <3>1, <3>2
  <2>3. ASSUME UNCHANGED signalVars PROVE SignalInv'
    BY <2>3 DEF signalVars, SignalInv, SignalTypesHold, MemoryFits, TriggerFits, Now
  <2> QED BY <2>1, <2>2, <2>3 DEF SignalNext
<1> QED BY <1>1, <1>2, PTL DEF SignalSpec

\* A trigger rests on the last signal of each of its types in the window, none counted
\* twice, and its score is the sum of theirs (ingest, _match_rule).
THEOREM TriggersAreEarned == SignalSpec => []TriggerIsEarned
BY SignalInvHolds, EarnedByInv, PTL

\* A rule that what was received satisfies is passed over only when part of its evidence
\* was pushed out of the memory (ingest).
THEOREM MissesAreEvictions == SignalSpec => []MissedOnlyEvicted
BY SignalInvHolds, MissedByInv, PTL

=============================================================================

------------------------------- MODULE Schedule -------------------------------
(* When a volunteer's machine contributes (scheduler_config.py and the node   *)
(* GUI's save_schedule): time slots entered in local time, kept in UTC, with  *)
(* a share of the GPU each. A day has DayLength moments, a week two days.     *)
EXTENDS Integers, Sequences, FiniteSetsExt

CONSTANTS DayLength, Offsets,     \* moments east of UTC, west being DayLength less some
          SlotTimes, Percents,    \* what the page lets one enter
          MaxSlots, MaxSaves      \* bounds the slots of a schedule and the saves

VARIABLES manager,       \* the process's ScheduleManager: offset and time_slots
          schedule_json, \* the file, or Garbled
          answer,        \* what the status page was last told
          saves
scheduleVars == <<manager, schedule_json, answer, saves>>

Moments == 0 .. DayLength - 1
ASSUME ScheduleAssumption == DayLength \in Nat \ {0} /\ Offsets \subseteq Moments /\ SlotTimes \subseteq Moments
Week == {0, 1}
Garbled == [timezone_offset |-> DayLength, time_slots |-> << >>]
Empty == [timezone_offset |-> 0, time_slots |-> << >>]
NoChange == 0
ScheduleInit == manager = Empty /\ schedule_json = Empty /\ answer = [gpu |-> 0, change |-> NoChange] /\ saves = 0

-----------------------------------------------------------------------------
\* The days are kept as entered; none at all means every day.
from_local(start, end, offset, days, gpu) ==
  [start_time |-> (start - offset) % DayLength, end_time |-> (end - offset) % DayLength,
   days_of_week |-> IF days = {} THEN Week ELSE days, gpu_percent |-> Max({0, Min({100, gpu})})]
to_local(t, offset) == (t + offset) % DayLength

\* (Daytime forgets that a slot may run over midnight.)
Daytime(slot, t) == slot.start_time <= t /\ t <= slot.end_time
Within(slot, t) ==
  IF slot.start_time > slot.end_time THEN t >= slot.start_time \/ t <= slot.end_time ELSE Daytime(slot, t)
is_active(slot, day, t) == day \in slot.days_of_week /\ Within(slot, t)

\* The largest share of the active slots; the default profile contributes nothing.
get_active_profile(day, t) ==
  Max({0} \cup {slot.gpu_percent : slot \in {s \in {manager.time_slots[i] : i \in DOMAIN manager.time_slots} :
                                             is_active(s, day, t)}})
\* In moments, looking less than a day ahead; NoChange stands for None.
get_time_until_change(day, t) ==
  LET At(n) == get_active_profile((day + (t + n) \div DayLength) % 2, (t + n) % DayLength)
      changes == {n \in 1 .. DayLength - 1 : At(n) # At(0)}
  IN IF changes = {} THEN NoChange ELSE Min(changes)

Requests ==
  [start : SlotTimes, end : SlotTimes, days : {{}, {0}}, gpu : Percents]
SlotOf(request, offset) == from_local(request.start, request.end, offset, request.days, request.gpu)

\* The page's schedule replaces the manager's field by field; a slot that does
\* not parse leaves the earlier ones in memory and the file as it was.
save_schedule(offset, requests, parsed) ==
  LET new == [timezone_offset |-> offset, time_slots |-> [i \in 1 .. parsed |-> SlotOf(requests[i], offset)]]
  IN /\ saves < MaxSaves /\ saves' = saves + 1 /\ manager' = new /\ UNCHANGED answer
     /\ schedule_json' = IF parsed = Len(requests) THEN new ELSE schedule_json
\* write_text truncates first: a process that dies there leaves no schedule.
DiesWhileSaving ==
  saves < MaxSaves /\ saves' = saves + 1 /\ schedule_json' = Garbled /\ manager' = Empty /\ UNCHANGED answer
\* A new process; a file that does not parse counts as none.
load == manager' = (IF schedule_json = Garbled THEN Empty ELSE schedule_json) /\ UNCHANGED <<schedule_json, answer, saves>>
Tell(day, t) ==
  answer' = [gpu |-> get_active_profile(day, t), change |-> get_time_until_change(day, t)]
  /\ UNCHANGED <<manager, schedule_json, saves>>

ScheduleNext ==
  \/ \E offset \in Offsets, n \in 0 .. MaxSlots : \E requests \in [1 .. n -> Requests], parsed \in 0 .. n :
       save_schedule(offset, requests, parsed)
  \/ DiesWhileSaving \/ load \/ \E day \in Week, t \in Moments : Tell(day, t)

-----------------------------------------------------------------------------
\* A slot that applies on every day is active exactly at the local times the page shows for it,
\* whatever the time zone and wherever midnight falls in either clock
\* (scheduler_config.py from_local, is_active, to_local_display).
ActiveWhenShown ==
  \A i \in DOMAIN manager.time_slots :
    LET slot == manager.time_slots[i]
        Local(t) == to_local(t, manager.timezone_offset)
        shown == [start_time |-> Local(slot.start_time), end_time |-> Local(slot.end_time)]
        InTheWindow(t) ==  \* going round the clock from start to end
          (Local(t) - shown.start_time) % DayLength <= (shown.end_time - shown.start_time) % DayLength
    IN slot.days_of_week = Week =>
         \A day \in Week, t \in Moments : is_active(slot, day, t) <=> InTheWindow(t)
=============================================================================

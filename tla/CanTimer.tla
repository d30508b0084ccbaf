------------------------------ MODULE CanTimer ------------------------------
(***************************************************************************)
(* The alarms of CanFestival (timer.c) on a hardware timer                  *)
(* (timer_rtthread.c): the timer thread, the other threads that set and     *)
(* delete alarms, one at a time under the mutex, and the interrupt.  An     *)
(* alarm's callback may set and delete alarms too.                          *)
(***************************************************************************)
EXTENDS HwTimer

CONSTANTS
  Rows,          \* MAX_NB_TIMER
  Delays,        \* the values alarms are set to
  Intervals,     \* their periods, 0 for none
  TIMEVAL_MAX,
  Width,         \* the values of a TIMEVAL: UNS32 is an unsigned long, of 64 bits
  MaxSets,       \* bounds of the model: alarms set in all,
  MaxNotices,    \* notices that wait while time passes, and
  MaxLost        \* ticks the counter stands still while an alarm waits

ASSUME RowsAssumption ==
  /\ Rows \in Nat \ {0} /\ Delays \subseteq Nat \ {0} /\ MaxSets \in Nat
  /\ TIMEVAL_MAX \in Nat \ {0} /\ \A v \in Delays : v < TIMEVAL_MAX
  /\ Intervals \subseteq 0 .. TIMEVAL_MAX
  /\ Width \in Nat /\ Width > TIMEVAL_MAX + MaxCnt /\ MaxLost \in Nat

FREE == "TIMER_FREE"
ARMED == "TIMER_ARMED"
TRIG == "TIMER_TRIG"
TRIG_PERIOD == "TIMER_TRIG_PERIOD"

Row == 1 .. Rows

VARIABLES
  timers, last_timer_raw, total_sleep_time,     \* timer.c
  last_timer_val, sem,            \* timer_rtthread.c
  holder, pc, draft, wake,        \* the mutex, its holder's place, its SetAlarm and setTimer
  woken                           \* the timer thread has taken the semaphore

\* History: the ticks each alarm still has, below 0 once its time is over, and those
\* of them during which the counter stood still; whether one went off before or
\* after its time and these; the alarms set; whether the counter no longer shows
\* all it counted since the last dispatch, whether a SetAlarm then read it, or read
\* a stale count, whether the counter ever counted within a call.
VARIABLES remain, lost, early, late, sets, hidden, astray, slow

table == <<timers, last_timer_raw, total_sleep_time>>
port == <<last_timer_val, sem>>
place == <<holder, pc, draft, wake>>
history == <<remain, lost, early, late, sets>>
causes == <<hidden, astray, slow>>
vars == <<hwtimer, table, port, place, woken, history, causes>>

Nothing == [row |-> 0, val |-> 0, interval |-> 0]

Asleep == [count |-> 0, free |-> FALSE]

Init ==
  /\ HwInit
  /\ timers = [r \in Row |-> [state |-> FREE, val |-> 0, interval |-> 0]]
  /\ last_timer_raw = 0 /\ total_sleep_time = TIMEVAL_MAX
  /\ last_timer_val = 0 /\ sem = 0
  /\ holder = "none" /\ pc = "out" /\ draft = Nothing /\ wake = Asleep /\ woken = FALSE
  /\ remain = [r \in Row |-> 0] /\ lost = [r \in Row |-> 0] /\ early = FALSE /\ late = FALSE /\ sets = 0
  /\ hidden = FALSE /\ astray = FALSE /\ slow = FALSE

Armed(r) == timers[r].state \in {ARMED, TRIG_PERIOD}

Pending == {r \in Row : timers[r].state = ARMED}

\* The time of an alarm runs.
Waits(r) == Armed(r) \/ draft.row = r

\* TIMEVAL_MAX is far from where a TIMEVAL wraps.
Wrapped(v) == v % Width

getElapsedTime == Wrapped(Elapsed - last_timer_val)

-----------------------------------------------------------------------------
(***************************************************************************)
(* The mutex, and what its holder calls.                                    *)
(***************************************************************************)
UserEnters ==
  /\ holder = "none"
  /\ holder' = "user" /\ pc' = "call"
  /\ UNCHANGED <<hwtimer, table, port, draft, wake, woken, history, causes>>

TimerWakes ==
  /\ ~woken /\ sem > 0
  /\ sem' = sem - 1 /\ woken' = TRUE
  /\ UNCHANGED <<hwtimer, table, last_timer_val, place, history, causes>>

TimerEnters ==
  /\ woken /\ holder = "none"
  /\ holder' = "timer" /\ pc' = "dispatch"
  /\ last_timer_val' = Elapsed
  /\ UNCHANGED <<hwtimer, table, sem, draft, wake, woken, history, causes>>

Returns ==
  /\ pc = "call"
  /\ IF holder = "user" THEN holder' = "none" /\ pc' = "out"
     ELSE holder' = holder /\ pc' = "trig"
  /\ UNCHANGED <<hwtimer, table, port, draft, wake, woken, history, causes>>

\* setTimer knows no timeout of 0: MIN_TIMER_TIMEOUT_US is less than a tick.
Timeout(value) == IF value = 0 THEN 1 ELSE value

\* The next wakeup is set anew for an alarm that comes before it.
Sooner(value) ==
  total_sleep_time > getElapsedTime /\ total_sleep_time - getElapsedTime > value

\* The first free row; the one behind the last is used when none is before.
FreeRows == {r \in Row : r <= last_timer_raw + 1 /\ timers[r].state = FREE}

SetAlarm(value, interval) ==
  /\ pc = "call" /\ sets < MaxSets
  /\ sets' = sets + 1
  /\ \E row \in FreeRows :
       /\ \A r \in FreeRows : row <= r
       /\ last_timer_raw' = IF row = last_timer_raw + 1 THEN row ELSE last_timer_raw
       /\ draft' = [row |-> row, val |-> Wrapped(value + getElapsedTime),
                   interval |-> interval]
       /\ remain' = [remain EXCEPT ![row] = value] /\ lost' = [lost EXCEPT ![row] = 0]
  /\ IF Sooner(value)
     THEN /\ total_sleep_time' = getElapsedTime + value
          /\ wake' = [Asleep EXCEPT !.count = Timeout(value)]
          /\ pc' = "disable"
          /\ hidden' = (hidden \/ getElapsedTime > 0)
     ELSE /\ pc' = "store"
          /\ UNCHANGED <<total_sleep_time, wake, hidden>>
  /\ astray' = (astray \/ hidden \/ Stale)
  /\ UNCHANGED <<hwtimer, timers, port, holder, woken, early, late, slow>>

Stores ==
  /\ pc = "store"
  /\ timers' = [timers EXCEPT ![draft.row] =
                  [state |-> ARMED, val |-> draft.val, interval |-> draft.interval]]
  /\ draft' = Nothing
  /\ pc' = "call"
  /\ UNCHANGED <<hwtimer, last_timer_raw, total_sleep_time, port, holder, wake, woken,
                 history, causes>>

\* Mutant of DelAlarm: any alarm that goes takes the end of the table along.
DelAlarmLowers(r) ==
  /\ pc = "call" /\ timers[r].state # FREE
  /\ timers' = [timers EXCEPT ![r].state = FREE]
  /\ last_timer_raw' = last_timer_raw - 1
  /\ UNCHANGED <<hwtimer, total_sleep_time, port, place, woken, history, causes>>

\* An alarm is deleted by its handle, which its owner forgets when it goes off.
DelAlarm(r) ==
  /\ pc = "call" /\ timers[r].state # FREE
  /\ timers' = [timers EXCEPT ![r].state = FREE]
  /\ last_timer_raw' = IF r = last_timer_raw THEN r - 1 ELSE last_timer_raw
  /\ UNCHANGED <<hwtimer, total_sleep_time, port, place, woken, history, causes>>

-----------------------------------------------------------------------------
(***************************************************************************)
(* setTimer: rt_hwtimer_write in steps, the interrupt between them.         *)
(***************************************************************************)
StopDisables ==
  /\ pc = "disable"
  /\ last_timer_val' = 0
  /\ Disable
  /\ pc' = "mask"
  /\ UNCHANGED <<line, periods, isr, table, sem, holder, draft, wake, woken, history, causes>>

StopMasks ==
  /\ pc = "mask"
  /\ Mask
  /\ pc' = "count"
  /\ UNCHANGED <<counter, periods, isr, table, port, holder, draft, wake, woken, history, causes>>

WriteCounts ==
  /\ pc = "count"
  /\ \E n \in Periods(wake.count) :
       /\ cycles' = n /\ reload' = n
       /\ wake' = [wake EXCEPT !.count = @ \div n]
  /\ pc' = "load"
  /\ UNCHANGED <<counter, line, isr, table, port, holder, draft, woken, history, causes>>

\* The mode depends on what cycles is by now.
StartLoads ==
  /\ pc = "load"
  /\ wake' = [wake EXCEPT !.free = cycles > 1]
  /\ Load(wake.count) /\ Unmask
  /\ pc' = "enable"
  /\ UNCHANGED <<periods, isr, table, port, holder, draft, woken, history, causes>>

StartEnables ==
  /\ pc = "enable"
  /\ Enable(wake.free)
  /\ wake' = Asleep
  /\ pc' = IF draft = Nothing THEN "trig" ELSE "store"
  /\ UNCHANGED <<line, periods, isr, table, port, holder, draft, woken, history, causes>>

-----------------------------------------------------------------------------
(***************************************************************************)
(* TimeDispatch.                                                            *)
(***************************************************************************)
\* What has passed since the timer was set, by the table's account.
Real == Wrapped(total_sleep_time + getElapsedTime)

Active(r) == r <= last_timer_raw /\ timers[r].state = ARMED

Due(r) == Active(r) /\ timers[r].val <= Real

\* The first run over the table.
Aged(r) ==
  LET t == timers[r] IN
  CASE ~Active(r) -> t
    [] Active(r) /\ ~Due(r) -> [t EXCEPT !.val = @ - Real]
    [] Due(r) /\ t.interval = 0 -> [t EXCEPT !.state = TRIG]
    [] Due(r) /\ t.interval > 0 ->
         [t EXCEPT !.state = TRIG_PERIOD, !.val = t.interval - (getElapsedTime % t.interval)]

Waiting == {r \in Row : Active(r) /\ Aged(r).state # TRIG}

\* The soonest of the alarms that wait, or TIMEVAL_MAX.
NextWakeup(v) ==
  /\ v \in {TIMEVAL_MAX} \cup {Aged(r).val : r \in Waiting}
  /\ v <= TIMEVAL_MAX /\ \A r \in Waiting : v <= Aged(r).val

TimeDispatch ==
  /\ pc = "dispatch"
  /\ timers' = [r \in Row |-> Aged(r)]
  /\ \E v \in 0 .. TIMEVAL_MAX :
       /\ NextWakeup(v)
       /\ total_sleep_time' = v
       /\ wake' = [Asleep EXCEPT !.count = Timeout(v)]
  /\ hidden' = FALSE
  /\ pc' = "disable"
  /\ early' = (early \/ \E r \in Row : Due(r) /\ remain[r] + lost[r] > 0)
  /\ late' = (late \/ \E r \in Row : Due(r) /\ remain[r] + lost[r] < 0)
  /\ remain' = [r \in Row |-> IF Due(r) /\ timers[r].interval > 0 THEN timers[r].interval
                              ELSE remain[r]]
  /\ lost' = [r \in Row |-> IF Due(r) THEN 0 ELSE lost[r]]
  /\ UNCHANGED <<hwtimer, last_timer_raw, port, holder, draft, woken, sets, astray, slow>>

Triggered == {r \in Row : r <= last_timer_raw /\ timers[r].state \in {TRIG, TRIG_PERIOD}}

\* Mutant of Trigger: the mark of a triggered alarm is not reset.
TriggerAgain ==
  /\ pc = "trig" /\ Triggered # {}
  /\ pc' = "call"
  /\ UNCHANGED <<hwtimer, table, port, holder, draft, wake, woken, history, causes>>

Trigger ==
  /\ pc = "trig"
  /\ \E r \in Triggered :
       /\ \A q \in Triggered : r <= q
       /\ timers' = [timers EXCEPT ![r].state = IF @ = TRIG THEN FREE ELSE ARMED]
  /\ pc' = "call"
  /\ UNCHANGED <<hwtimer, last_timer_raw, total_sleep_time, port, holder, draft, wake, woken,
                 history, causes>>

\* Mutant of TimerLeaves: the mutex is kept.
TimerKeeps ==
  /\ pc = "trig" /\ Triggered = {}
  /\ pc' = "out" /\ woken' = FALSE
  /\ UNCHANGED <<hwtimer, table, port, holder, draft, wake, history, causes>>

TimerLeaves ==
  /\ pc = "trig" /\ Triggered = {}
  /\ holder' = "none" /\ pc' = "out" /\ woken' = FALSE
  /\ UNCHANGED <<hwtimer, table, port, draft, wake, history, causes>>

-----------------------------------------------------------------------------
Interrupt ==
  \/ Isr /\ UNCHANGED <<table, port, place, woken, history, causes>>
  \/ /\ IsrNotifies
     /\ sem' = sem + 1
     /\ UNCHANGED <<table, last_timer_val, place, woken, history, causes>>

\* Ticks are noted until one is counted within a call.
Tick ==
  /\ Counts /\ sem < MaxNotices
  /\ slow' = (slow \/ pc \notin {"out", "call", "trig"})
  /\ remain' = [r \in Row |-> IF ~slow' /\ remain[r] >= -MaxLost /\ Waits(r) THEN remain[r] - 1
                              ELSE remain[r]]
  /\ hidden' = (hidden \/ (repeat /\ left = 1))
  /\ UNCHANGED <<table, port, place, woken, lost, early, late, sets, astray>>

\* Time goes by while the counter stands: from the end of a timeout until the timer
\* thread has got the mutex and set the next, and before the first.  It is noted as
\* long as nothing says that the counter cannot be trusted.
Stands ==
  /\ Standing /\ ~slow /\ ~astray /\ \A r \in Row : Waits(r) => lost[r] < MaxLost
  /\ remain' = [r \in Row |-> IF Waits(r) THEN remain[r] - 1 ELSE remain[r]]
  /\ lost' = [r \in Row |-> IF Waits(r) THEN lost[r] + 1 ELSE lost[r]]
  /\ UNCHANGED <<hwtimer, table, port, place, woken, early, late, sets, causes>>

setTimer == StopDisables \/ StopMasks \/ WriteCounts \/ StartLoads \/ StartEnables

Holder ==
  \/ \E value \in Delays, interval \in Intervals : SetAlarm(value, interval)
  \/ \E r \in Row : DelAlarm(r)
  \/ Returns \/ Stores \/ setTimer \/ TimeDispatch \/ Trigger \/ TimerLeaves

Next == UserEnters \/ TimerWakes \/ TimerEnters \/ Holder \/ Interrupt \/ Tick \/ Stands

Spec == Init /\ [][Next]_vars

FairSpec ==
  /\ Spec
  /\ WF_vars(Interrupt) /\ WF_vars(Tick) /\ WF_vars(TimerWakes) /\ WF_vars(Holder)
  /\ SF_vars(TimerEnters)

\* The table, the driver and the place of the mutex's holder fit together: a
\* timeout that is being set is one the timer takes, and only a holder is in a call.
TypeOK ==
  /\ en \in BOOLEAN /\ masked \in BOOLEAN /\ intstatus \in BOOLEAN /\ repeat \in BOOLEAN
  /\ left \in 0 .. load /\ load \in 0 .. MaxCnt
  /\ cycles \in 0 .. TIMEVAL_MAX /\ reload \in 0 .. TIMEVAL_MAX
  /\ isr \in {"off", "count", "disable", "mask", "notify", "clear"}
  /\ timers \in [Row -> [state : {FREE, ARMED, TRIG, TRIG_PERIOD}, val : 0 .. Width - 1, interval : Nat]]
  /\ last_timer_raw \in 0 .. Rows /\ total_sleep_time \in 0 .. TIMEVAL_MAX
  /\ last_timer_val \in 0 .. MaxCnt /\ sem \in Nat /\ woken \in BOOLEAN
  /\ holder \in {"none", "user", "timer"} /\ (holder = "none" <=> pc = "out")
  /\ pc \in {"disable", "mask", "count", "load", "enable"} => wake.count \in 1 .. TIMEVAL_MAX

\* No alarm is left without a wakeup: whenever an alarm waits and nobody holds
\* the mutex, the timer thread has been told, the interrupt is on its way to tell
\* it, or the counter counts and its interrupt can be taken - though the handler
\* that ran on another CPU may have stopped the timer in the midst of setTimer.
Wakes ==
  Pending # {} /\ pc = "out" =>
    \/ sem > 0 \/ woken
    \/ isr \in {"count", "disable", "mask", "notify"} \/ (intstatus /\ ~masked)
    \/ en /\ left > 0 /\ ~masked

\* Deleting alarms and setting others in any order, in callbacks too, leaves no
\* alarm behind the end of the table, where TimeDispatch does not look.
InScan == \A r \in Row : timers[r].state # FREE => r <= last_timer_raw

\* As long as the counter shows all it has counted since the last dispatch when an
\* alarm is set, and no tick is counted within a call, an alarm goes off neither
\* before its value, nor after it by more or less than the ticks during which the
\* counter stood still since it was set: from the end of a timeout until
\* TimeDispatch has set the next, time is not accounted for.
OnTheCount == ~slow /\ ~astray => ~early /\ ~late

\* The timer thread has read a stale count, and TimeDispatch reads a lower one: by
\* its account no time has passed, or less than none.
Backward == pc = "dispatch" /\ last_timer_val > Elapsed

\* An alarm that waits goes off or is deleted, unless the timer thread again and
\* again, for ever, gets the mutex between the notice and the end of a handler
\* during which another CPU has started the timer anew, and takes time back.
GoesOff == \A r \in Row : timers[r].state = ARMED ~> timers[r].state # ARMED \/ Backward

\* "Call the callback function at current time + value" (cf_timer.h): an alarm
\* is not dispatched after its value, but for the ticks during which the counter
\* stood still, when none is counted within a call.
AtItsValue == ~slow => ~late
=============================================================================

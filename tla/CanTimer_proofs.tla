-------------------------- MODULE CanTimer_proofs ---------------------------
(***************************************************************************)
(* Proofs about the alarms of CanFestival, for every number of rows, every  *)
(* delay and period, and every counter.                                     *)
(***************************************************************************)
EXTENDS CanTimer, TLAPS

\* The places of the holder: within setTimer once the counter is disabled, and
\* where the timer is set for the soonest alarm.
Setting == {"mask", "count", "load", "enable"}

Idle == {"out", "call", "store", "trig"}

\* What a row of the table, and the draft of one, may hold: a value is a sum and any
\* TIMEVAL, what setTimer is given ends at TIMEVAL_MAX.
Val == 0 .. Width - 1

Time == 0 .. TIMEVAL_MAX

RowType == [state : {FREE, ARMED, TRIG, TRIG_PERIOD}, val : Val, interval : Time]

DraftType == [row : 0 .. Rows, val : Val, interval : Time]

WakeType == [count : Time, free : BOOLEAN]

TypeInv ==
  /\ en \in BOOLEAN /\ masked \in BOOLEAN /\ intstatus \in BOOLEAN /\ repeat \in BOOLEAN
  /\ load \in 0 .. MaxCnt /\ left \in 0 .. load
  /\ cycles \in Time /\ reload \in Time
  /\ isr \in {"off", "count", "disable", "mask", "notify", "clear"}
  /\ timers \in [Row -> RowType]
  /\ last_timer_raw \in 0 .. Rows /\ total_sleep_time \in Time
  /\ last_timer_val \in 0 .. MaxCnt /\ sem \in Nat /\ woken \in BOOLEAN
  /\ holder \in {"none", "user", "timer"} /\ (holder = "none" <=> pc = "out")
  /\ pc \in Idle \cup Setting \cup {"dispatch", "disable"}
  /\ draft \in DraftType /\ wake \in WakeType
  /\ pc \in {"disable", "mask", "count", "load", "enable"} => wake.count > 0
  /\ pc = "load" => wake.count <= MaxCnt

USE DEF FREE, ARMED, TRIG, TRIG_PERIOD

\* What the facts of arithmetic say of a TIMEVAL.
LEMMA WrappedType == ASSUME NEW v \in Int PROVE Wrapped(v) \in Val
  BY RowsAssumption, MaxCntAssumption, SMT DEF Wrapped, Val

\* The periods of a timeout divide it and fit the counter.
LEMMA PeriodType ==
  ASSUME NEW c \in Nat \ {0}, NEW n \in Periods(c)
  PROVE  n \in 1 .. c /\ c \div n \in 1 .. c /\ c \div n <= MaxCnt
<1>1. n \in Nat /\ 1 <= n /\ n <= c /\ c <= n * MaxCnt /\ c % n = 0
  BY DEF Periods, Fitting
<1> DEFINE q == c \div n
<1>2. q \in Nat /\ c = n * q
  BY <1>1, SMT
<1>3. q >= 1
  BY <1>1, <1>2, SMT
<1>4. q <= c
  BY <1>1, <1>2, <1>3, SMT
<1>5. q <= MaxCnt
  <2> SUFFICES ASSUME q > MaxCnt PROVE FALSE
    BY <1>2, MaxCntAssumption
  <2> QED BY <1>1, <1>2, MaxCntAssumption, SMT
<1> QED BY <1>1, <1>2, <1>3, <1>4, <1>5

LEMMA InitType == Init => TypeInv
<1> SUFFICES ASSUME Init PROVE TypeInv
  OBVIOUS
<1>1. 0 \in Val /\ 0 \in 0 .. Rows /\ 0 \in 0 .. MaxCnt /\ 0 \in Time /\ TIMEVAL_MAX \in Time
  BY RowsAssumption, MaxCntAssumption DEF Val, Time
<1>2. timers \in [Row -> RowType] /\ draft \in DraftType /\ wake \in WakeType
  BY <1>1 DEF Init, RowType, DraftType, WakeType, Nothing, Asleep
<1>3. en \in BOOLEAN /\ masked \in BOOLEAN /\ intstatus \in BOOLEAN /\ repeat \in BOOLEAN /\ isr = "off"
  BY Zenon DEF Init, HwInit
<1>5. load \in 0 .. MaxCnt /\ left \in 0 .. load /\ cycles \in Time /\ reload \in Time
  BY <1>1 DEF Init, HwInit
<1>4. last_timer_raw \in 0 .. Rows /\ total_sleep_time \in Time /\ last_timer_val \in 0 .. MaxCnt
      /\ sem \in Nat /\ woken \in BOOLEAN /\ holder = "none" /\ pc = "out"
  BY <1>1 DEF Init
<1> QED BY <1>2, <1>3, <1>4, <1>5 DEF TypeInv, Idle, Setting

LEMMA ElapsedType == TypeInv => Elapsed \in 0 .. MaxCnt /\ getElapsedTime \in Val
<1> SUFFICES ASSUME TypeInv PROVE Elapsed \in 0 .. MaxCnt /\ getElapsedTime \in Val
  OBVIOUS
<1>1. load \in 0 .. MaxCnt /\ left \in 0 .. load /\ last_timer_val \in 0 .. MaxCnt
  BY DEF TypeInv
<1>2. Elapsed \in 0 .. MaxCnt
  BY <1>1, MaxCntAssumption DEF Elapsed, Count
<1>3. Elapsed - last_timer_val \in Int
  BY <1>1, <1>2, MaxCntAssumption
<1> QED BY <1>2, <1>3, WrappedType DEF getElapsedTime

\* Each step keeps the types; the table and the draft are those of a TIMEVAL.
LEMMA SetAlarmType ==
  ASSUME TypeInv, NEW value \in Delays, NEW interval \in Intervals, SetAlarm(value, interval)
  PROVE  TypeInv'
<1>1. getElapsedTime \in Val /\ value \in Time /\ interval \in Time /\ Wrapped(value + getElapsedTime) \in Val
  <2>1. value \in Time /\ interval \in Time /\ getElapsedTime \in Val
    BY RowsAssumption, ElapsedType DEF Time
  <2>2. value + getElapsedTime \in Int
    BY <2>1, RowsAssumption DEF Val, Time
  <2> QED BY <2>1, <2>2, WrappedType
<1>2. last_timer_raw' \in 0 .. Rows /\ draft' \in DraftType
  <2>1. PICK row \in FreeRows :
          /\ last_timer_raw' = IF row = last_timer_raw + 1 THEN row ELSE last_timer_raw
          /\ draft' = [row |-> row, val |-> Wrapped(value + getElapsedTime), interval |-> interval]
    BY DEF SetAlarm
  <2>2. row \in 0 .. Rows /\ last_timer_raw \in 0 .. Rows
    BY <2>1, RowsAssumption DEF FreeRows, Row, TypeInv
  <2> QED BY <1>1, <2>1, <2>2 DEF DraftType
<1>3. total_sleep_time' \in Time /\ wake' \in WakeType /\ pc' \in {"disable", "store"}
      /\ (pc' = "disable" => wake'.count > 0)
  <2>1. CASE Sooner(value)
    <3>1. getElapsedTime + value \in Time
      BY <1>1, <2>1, RowsAssumption DEF Sooner, TypeInv, Val, Time
    <3>2. Timeout(value) \in Time /\ Timeout(value) > 0
      BY <1>1, RowsAssumption DEF Timeout, Time
    <3> QED BY <1>1, <2>1, <3>1, <3>2 DEF SetAlarm, WakeType, Asleep
  <2>2. CASE ~Sooner(value)
    BY <2>2 DEF SetAlarm, TypeInv
  <2> QED BY <2>1, <2>2
<1>4. holder # "none"
  BY DEF SetAlarm, TypeInv
<1> QED BY <1>2, <1>3, <1>4 DEF SetAlarm, TypeInv, hwtimer, counter, line, periods, port, Idle, Setting

LEMMA RowKept ==
  ASSUME TypeInv, pc = "dispatch", NEW r \in Row
  PROVE  Aged(r) \in RowType
<1>1. timers[r] \in RowType /\ getElapsedTime \in Val /\ total_sleep_time \in Time
  BY ElapsedType DEF TypeInv
<1>2. Real \in Val
  BY <1>1, WrappedType, RowsAssumption, MaxCntAssumption DEF Real, Val, Time
<1>3. CASE ~Active(r)
  BY <1>1, <1>3 DEF Aged, Due
<1>4. CASE Active(r) /\ ~Due(r)
  BY <1>1, <1>2, <1>4, RowsAssumption, MaxCntAssumption DEF Aged, Due, RowType, Val, Time
<1>5. CASE Due(r) /\ timers[r].interval = 0
  BY <1>1, <1>5 DEF Aged, RowType, Due
<1>6. CASE Due(r) /\ timers[r].interval > 0
  <2>1. timers[r].interval - (getElapsedTime % timers[r].interval) \in Val
    BY <1>1, <1>6, RowsAssumption, MaxCntAssumption DEF RowType, Val, Time
  <2> QED BY <1>1, <1>6, <2>1 DEF Aged, RowType, Due
<1> QED BY <1>1, <1>3, <1>4, <1>5, <1>6 DEF RowType, Val, Time, Due

LEMMA TimeDispatchType == ASSUME TypeInv, TimeDispatch PROVE TypeInv'
<1>1. timers' \in [Row -> RowType]
  BY RowKept DEF TimeDispatch
<1>2. PICK v \in 0 .. TIMEVAL_MAX :
        total_sleep_time' = v /\ wake' = [Asleep EXCEPT !.count = Timeout(v)]
  BY DEF TimeDispatch
<1>3. Timeout(v) \in Time /\ Timeout(v) > 0
  BY <1>2, RowsAssumption DEF Timeout, Time
<1>4. wake' \in WakeType /\ wake'.count > 0 /\ total_sleep_time' \in Time
  BY <1>2, <1>3 DEF WakeType, Asleep, Time
<1> QED BY <1>1, <1>4 DEF TimeDispatch, TypeInv, hwtimer, counter, line, periods, port, Idle, Setting

LEMMA SetTimerType == ASSUME TypeInv, setTimer PROVE TypeInv'
<1> USE DEF hwtimer, counter, line, periods, table, port, history, causes, Idle, Setting
<1>1. CASE StopDisables
  <2>1. pc = "disable" /\ pc' = "mask" /\ wake' = wake /\ holder' = holder
    BY <1>1 DEF StopDisables
  <2>2. wake'.count > 0 /\ last_timer_val' \in 0 .. MaxCnt
    BY <1>1, <2>1, MaxCntAssumption DEF TypeInv, StopDisables
  <2> QED BY <1>1, <2>1, <2>2 DEF StopDisables, Disable, TypeInv
<1>2. CASE StopMasks
  BY <1>2 DEF StopMasks, Mask, TypeInv
<1>3. CASE WriteCounts
  <2>1. wake.count \in Nat \ {0} /\ wake.count <= TIMEVAL_MAX /\ wake \in WakeType
    BY <1>3, RowsAssumption DEF WriteCounts, TypeInv, WakeType, Time
  <2>2. PICK n \in Periods(wake.count) :
          cycles' = n /\ reload' = n /\ wake' = [wake EXCEPT !.count = @ \div n]
    BY <1>3 DEF WriteCounts
  <2>3. n \in 1 .. wake.count /\ wake.count \div n \in 1 .. wake.count /\ wake.count \div n <= MaxCnt
    BY <2>1, <2>2, PeriodType
  <2>4. cycles' \in Time /\ reload' \in Time /\ wake' \in WakeType /\ wake'.count > 0 /\ wake'.count <= MaxCnt
    BY <2>1, <2>2, <2>3, RowsAssumption DEF WakeType, Time
  <2> QED BY <1>3, <2>4 DEF WriteCounts, TypeInv
<1>4. CASE StartLoads
  <2>1. wake.count \in 0 .. MaxCnt
    BY <1>4, MaxCntAssumption, RowsAssumption DEF StartLoads, TypeInv, WakeType, Time
  <2>2. wake' \in WakeType
    <3>1. (cycles > 1) \in BOOLEAN /\ wake \in WakeType
      BY DEF TypeInv
    <3> QED BY <1>4, <3>1 DEF StartLoads, WakeType
  <2>3. load' \in 0 .. MaxCnt /\ left' \in 0 .. load'
    BY <1>4, <2>1, MaxCntAssumption DEF StartLoads, Load
  <2>4. pc' = "enable" /\ wake'.count > 0
    BY <1>4 DEF StartLoads, TypeInv, WakeType
  <2> QED BY <1>4, <2>2, <2>3, <2>4 DEF StartLoads, Load, Unmask, TypeInv
<1>5. CASE StartEnables
  BY <1>5, RowsAssumption DEF StartEnables, Enable, TypeInv, WakeType, Asleep, Time
<1> QED BY <1>1, <1>2, <1>3, <1>4, <1>5 DEF setTimer

LEMMA InterruptType == ASSUME TypeInv, Interrupt \/ Tick \/ Stands PROVE TypeInv'
<1> USE DEF table, port, place, history, causes, counter, line, periods
<1>1. CASE IsrBegins /\ UNCHANGED <<table, port, place, woken>>
  BY <1>1 DEF IsrBegins, TypeInv
<1>2. CASE IsrCounts /\ UNCHANGED <<table, port, place, woken>>
  <2>1. cycles' \in Time /\ isr' \in {"disable", "clear"}
    BY <1>2, RowsAssumption DEF IsrCounts, TypeInv, Time
  <2> QED BY <1>2, <2>1 DEF IsrCounts, TypeInv
<1>3. CASE IsrDisables /\ UNCHANGED <<table, port, place, woken>>
  BY <1>3 DEF IsrDisables, Disable, TypeInv
<1>4. CASE IsrMasks /\ UNCHANGED <<table, port, place, woken>>
  BY <1>4 DEF IsrMasks, Mask, TypeInv
<1>5. CASE IsrClears /\ UNCHANGED <<table, port, place, woken>>
  BY <1>5 DEF IsrClears, TypeInv
<1>6. CASE IsrNotifies /\ sem' = sem + 1 /\ UNCHANGED <<table, last_timer_val, place, woken>>
  BY <1>6 DEF IsrNotifies, TypeInv
<1>7. CASE Tick
  <2>1. left' \in 0 .. load
    BY <1>7, MaxCntAssumption DEF Tick, Counts, Counting, TypeInv
  <2>2. intstatus' \in BOOLEAN
    BY <1>7 DEF Tick, Counts, TypeInv
  <2> QED BY <1>7, <2>1, <2>2 DEF Tick, Counts, TypeInv
<1>8. CASE Stands
  BY <1>8 DEF Stands, TypeInv, hwtimer
<1> QED BY <1>1, <1>2, <1>3, <1>4, <1>5, <1>6, <1>7, <1>8 DEF Interrupt, Isr

LEMMA HolderType == ASSUME TypeInv, Holder \/ UserEnters \/ TimerWakes \/ TimerEnters PROVE TypeInv'
<1> USE DEF table, port, place, history, causes, hwtimer, counter, line, periods, Idle, Setting
<1>1. CASE UserEnters
  BY <1>1 DEF UserEnters, TypeInv
<1>2. CASE TimerWakes
  BY <1>2 DEF TimerWakes, TypeInv
<1>3. CASE TimerEnters
  BY <1>3, ElapsedType DEF TimerEnters, TypeInv
<1>4. ASSUME NEW value \in Delays, NEW interval \in Intervals, SetAlarm(value, interval)
      PROVE  TypeInv'
  BY <1>4, SetAlarmType
<1>5. ASSUME NEW r \in Row, DelAlarm(r) PROVE TypeInv'
  <2>1. timers' \in [Row -> RowType]
    BY <1>5 DEF DelAlarm, TypeInv, RowType
  <2>2. last_timer_raw' \in 0 .. Rows
    BY <1>5, RowsAssumption DEF DelAlarm, TypeInv, Row
  <2> QED BY <1>5, <2>1, <2>2 DEF DelAlarm, TypeInv
<1>6. CASE Returns
  BY <1>6 DEF Returns, TypeInv
<1>7. CASE Stores
  <2>1. timers' \in [Row -> RowType] /\ draft' \in DraftType
    <3>1. [state |-> ARMED, val |-> draft.val, interval |-> draft.interval] \in RowType
      BY DEF TypeInv, RowType, DraftType
    <3>2. Nothing \in DraftType
      BY RowsAssumption, MaxCntAssumption DEF Nothing, DraftType, Val, Time
    <3> QED BY <1>7, <3>1, <3>2 DEF Stores, TypeInv
  <2> QED BY <1>7, <2>1 DEF Stores, TypeInv
<1>8. CASE setTimer
  BY <1>8, SetTimerType
<1>9. CASE TimeDispatch
  BY <1>9, TimeDispatchType
<1>10. CASE Trigger
  <2>1. timers' \in [Row -> RowType]
    BY <1>10 DEF Trigger, Triggered, TypeInv, RowType
  <2> QED BY <1>10, <2>1 DEF Trigger, TypeInv
<1>11. CASE TimerLeaves
  BY <1>11 DEF TimerLeaves, TypeInv
<1> QED BY <1>1, <1>2, <1>3, <1>4, <1>5, <1>6, <1>7, <1>8, <1>9, <1>10, <1>11 DEF Holder

LEMMA StutterType == ASSUME TypeInv, UNCHANGED vars PROVE TypeInv'
  BY DEF TypeInv, vars, hwtimer, counter, line, periods, table, port, place

LEMMA TypeStep == ASSUME TypeInv, [Next]_vars PROVE TypeInv'
  BY InterruptType, HolderType, StutterType DEF Next

\* Every variable keeps its type, and setTimer is given a timeout that the
\* counter can hold in periods.
THEOREM TypeCorrect == Spec => []TypeOK
<1>1. Init => TypeInv
  BY InitType
<1>2. TypeInv /\ [Next]_vars => TypeInv'
  BY TypeStep
<1>3. TypeInv => TypeOK
  <2> SUFFICES ASSUME TypeInv PROVE TypeOK
    OBVIOUS
  <2>1. timers \in [Row -> [state : {FREE, ARMED, TRIG, TRIG_PERIOD}, val : 0 .. Width - 1, interval : Nat]]
    BY DEF TypeInv, RowType, Val, Time
  <2>2. pc \in {"disable", "mask", "count", "load", "enable"} => wake.count \in 1 .. TIMEVAL_MAX
    BY RowsAssumption DEF TypeInv, WakeType, Time
  <2> QED BY <2>1, <2>2 DEF TypeInv, TypeOK, Time
<1> QED BY <1>1, <1>2, <1>3, PTL DEF Spec

-----------------------------------------------------------------------------
(***************************************************************************)
(* No alarm behind the end of the table.                                    *)
(***************************************************************************)
\* A row that is being filled is within the table; nobody else has a draft.
ScanInv ==
  /\ InScan
  /\ IF pc \in {"out", "call", "trig", "dispatch"} THEN draft = Nothing
     ELSE draft.row <= last_timer_raw

LEMMA ScanStep == ASSUME TypeInv, ScanInv, [Next]_vars PROVE ScanInv'
<1> USE DEF ScanInv, InScan
<1>1. last_timer_raw \in 0 .. Rows /\ draft \in DraftType /\ timers \in [Row -> RowType]
  BY DEF TypeInv
<1>2. ASSUME NEW value \in Delays, NEW interval \in Intervals, SetAlarm(value, interval)
      PROVE  ScanInv'
  <2>1. timers' = timers /\ pc' \in {"disable", "store"}
    BY <1>2 DEF SetAlarm
  <2>2. last_timer_raw <= last_timer_raw' /\ draft'.row <= last_timer_raw' /\ last_timer_raw' \in Nat
    BY <1>1, <1>2 DEF SetAlarm, FreeRows, Row
  <2> QED BY <1>1, <2>1, <2>2 DEF Row
<1>3. ASSUME NEW r \in Row, DelAlarm(r) PROVE ScanInv'
  <2>1. draft' = draft /\ pc' = pc /\ pc = "call"
    BY <1>3 DEF DelAlarm, place
  <2>2. timers'[r].state = FREE /\ \A q \in Row : q # r => timers'[q] = timers[q]
    BY <1>1, <1>3 DEF DelAlarm, RowType
  <2>3. last_timer_raw' = (IF r = last_timer_raw THEN r - 1 ELSE last_timer_raw)
    BY <1>3 DEF DelAlarm
  <2> QED BY <1>1, <2>1, <2>2, <2>3 DEF Row
<1>4. CASE Stores
  <2>1. Nothing.row = 0 /\ draft.row \in Nat
    BY <1>1 DEF Nothing, DraftType
  <2> QED BY <1>1, <1>4, <2>1 DEF Stores, Row, RowType
<1>5. CASE TimeDispatch
  <2>1. \A r \in Row : Aged(r).state # FREE => timers[r].state # FREE
    BY <1>1 DEF Aged, Active, Due, RowType
  <2>2. draft' = Nothing /\ Nothing.row = 0
    BY <1>5 DEF TimeDispatch, Nothing
  <2> QED BY <1>1, <1>5, <2>1, <2>2 DEF TimeDispatch
<1>6. CASE Trigger
  BY <1>1, <1>6 DEF Trigger, Triggered, Row, RowType
<1>7. CASE setTimer
  BY <1>7 DEF setTimer, StopDisables, StopMasks, WriteCounts, StartLoads, StartEnables, table
<1>8. CASE UNCHANGED <<timers, last_timer_raw, draft>>
           /\ (UNCHANGED pc \/ {pc, pc'} \subseteq {"out", "call", "trig", "dispatch"})
  BY <1>8
<1>9. CASE Returns \/ TimerLeaves \/ TimerWakes \/ Interrupt \/ Tick \/ Stands \/ UNCHANGED vars
  BY <1>8, <1>9 DEF Returns, TimerLeaves, TimerWakes, Interrupt, Tick, Stands, vars, table, place
<1>10. CASE UserEnters \/ TimerEnters
  BY <1>8, <1>10 DEF UserEnters, TimerEnters, TypeInv, table
<1> QED BY <1>2, <1>3, <1>4, <1>5, <1>6, <1>7, <1>9, <1>10 DEF Next, Holder

\* Whatever alarms are set and deleted, none is behind the end of the table.
THEOREM AllInScan == Spec => []InScan
<1>1. Init => TypeInv /\ ScanInv
  BY InitType DEF Init, ScanInv, InScan
<1>2. TypeInv /\ ScanInv /\ [Next]_vars => (TypeInv /\ ScanInv)'
  BY TypeStep, ScanStep
<1>3. ScanInv => InScan
  BY DEF ScanInv
<1> QED BY <1>1, <1>2, <1>3, PTL DEF Spec

-----------------------------------------------------------------------------
(***************************************************************************)
(* No alarm without a wakeup.                                               *)
(***************************************************************************)
\* The timer thread will dispatch once more: it has a notice, or has taken one
\* and waits for the mutex, or the handler is about to send one.
Told ==
  \/ sem > 0
  \/ woken /\ holder # "timer"
  \/ isr \in {"disable", "mask", "notify"}

\* Nothing was ever set.
Virgin ==
  /\ load = 0 /\ last_timer_val = 0 /\ total_sleep_time = TIMEVAL_MAX
  /\ ~en /\ ~intstatus /\ isr = "off"
  /\ holder # "timer" /\ pc \in {"out", "call"}
  /\ \A r \in Row : timers[r].state = FREE

\* The next interrupt, or the one under way, tells the timer thread in the end:
\* a counter that stops by itself does so in its last period.
Covered ==
  /\ cycles <= 1 \/ repeat \/ Told
  /\ \/ Told
     \/ isr = "count" /\ cycles <= 1
     \/ isr = "off" /\ intstatus /\ ~masked /\ cycles <= 1
     \/ en /\ left > 0 /\ ~masked

\* The same before setTimer enables the counter again.
SetInv ==
  /\ pc \in Setting => ~en
  /\ repeat => left > 0
  /\ holder = "timer" => woken
  /\ pc = "trig" => holder = "timer"
  /\ holder = "user" /\ pc \in Setting \cup {"disable"} => draft # Nothing
  /\ pc = "dispatch" => holder = "timer"
  /\ pc = "enable" => left > 0 /\ (~masked \/ Told) /\ (cycles <= 1 \/ wake.free \/ Told)

WakeInv == SetInv /\ (pc \in Idle => Virgin \/ Covered)

LEMMA WakeInit == Init => WakeInv
  BY DEF Init, HwInit, WakeInv, SetInv, Virgin, Setting, Idle

LEMMA InterruptWakes == ASSUME TypeInv, WakeInv, Interrupt PROVE WakeInv'
<1> USE DEF WakeInv, SetInv, Virgin, Covered, Told, Setting, Idle,
        table, port, place, counter, line, periods
<1>0. /\ cycles \in Nat /\ reload \in Nat /\ sem \in Nat /\ woken \in BOOLEAN /\ load \in Nat
      /\ left \in 0 .. load /\ masked \in BOOLEAN
  BY RowsAssumption, MaxCntAssumption DEF TypeInv, Val, Time
<1>1. CASE IsrBegins /\ UNCHANGED <<table, port, place, woken>>
  BY <1>0, <1>1 DEF IsrBegins
<1>2. CASE IsrCounts /\ UNCHANGED <<table, port, place, woken>>
  BY <1>0, <1>2 DEF IsrCounts
<1>3. CASE IsrDisables /\ UNCHANGED <<table, port, place, woken>>
  BY <1>0, <1>3 DEF IsrDisables, Disable
<1>4. CASE IsrMasks /\ UNCHANGED <<table, port, place, woken>>
  BY <1>0, <1>4 DEF IsrMasks, Mask
<1>5. CASE IsrClears /\ UNCHANGED <<table, port, place, woken>>
  BY <1>0, <1>5 DEF IsrClears
<1>6. CASE IsrNotifies /\ sem' = sem + 1 /\ UNCHANGED <<table, last_timer_val, place, woken>>
  BY <1>0, <1>6 DEF IsrNotifies
<1> QED BY <1>1, <1>2, <1>3, <1>4, <1>5, <1>6 DEF Interrupt, Isr

LEMMA TickWakes == ASSUME TypeInv, WakeInv, Tick PROVE WakeInv'
<1> USE DEF WakeInv, SetInv, Virgin, Covered, Told, Setting, Idle, table, port, place, periods
<1>0. cycles \in Nat /\ sem \in Nat /\ load \in Nat /\ left \in 0 .. load
  BY RowsAssumption, MaxCntAssumption DEF TypeInv, Val, Time
<1>1. en /\ left > 0 /\ isr = "off"
  BY DEF Tick, Counts, Counting, Ticking
<1>2. left' > 0 \/ (~repeat /\ left' = 0 /\ intstatus')
  <2>1. CASE left > 1
    BY <1>0, <2>1 DEF Tick, Counts
  <2>2. CASE left = 1
    <3>1. intstatus'
      BY <2>2, Zenon DEF Tick, Counts
    <3>2. CASE repeat
      BY <1>0, <2>2, <3>2 DEF Tick, Counts
    <3>3. CASE ~repeat
      BY <1>0, <2>2, <3>1, <3>3 DEF Tick, Counts
    <3> QED BY <3>2, <3>3
  <2> QED BY <1>0, <1>1, <2>1, <2>2
<1>3. UNCHANGED <<en, load, repeat, masked, cycles, isr, pc, holder, draft, wake, sem, woken>>
  BY DEF Tick, Counts
<1>4. ~Virgin /\ pc \notin Setting
  BY <1>1
<1>5. SetInv'
  BY <1>0, <1>2, <1>3, <1>4
<1>6. ASSUME pc \in Idle PROVE Covered'
  <2>1. Covered
    BY <1>4, <1>6
  <2>2. CASE Told
    BY <1>3, <2>2
  <2>3. CASE ~Told
    <3>1. ~masked /\ (cycles <= 1 \/ repeat)
      BY <1>1, <2>1, <2>3
    <3> QED BY <1>1, <1>2, <1>3, <3>1
  <2> QED BY <2>2, <2>3
<1> QED BY <1>3, <1>5, <1>6

LEMMA SetTimerWakes == ASSUME TypeInv, WakeInv, setTimer PROVE WakeInv'
<1> USE DEF WakeInv, SetInv, Covered, Told, Setting, Idle, table, port, counter, line, periods
<1>0. /\ cycles \in Nat /\ sem \in Nat /\ woken \in BOOLEAN /\ wake \in WakeType
      /\ pc \in {"disable", "mask", "count", "load", "enable"} => wake.count > 0
  BY RowsAssumption DEF TypeInv, Val, Time
<1>1. CASE StopDisables
  BY <1>0, <1>1 DEF StopDisables, Disable
<1>2. CASE StopMasks
  BY <1>0, <1>2 DEF StopMasks, Mask
<1>3. CASE WriteCounts
  BY <1>0, <1>3 DEF WriteCounts
<1>4. CASE StartLoads
  <2>1. wake'.free = (cycles > 1) /\ left' > 0
    BY <1>0, <1>4 DEF StartLoads, Load, WakeType
  <2>2. cycles <= 1 \/ wake'.free
    <3>1. cycles > 1 => wake'.free
      BY <2>1, Zenon
    <3> QED BY <1>0, <3>1
  <2>3. ~masked' /\ ~en' /\ pc' = "enable"
    BY <1>4 DEF StartLoads, Load, Unmask
  <2> QED BY <1>4, <2>1, <2>2, <2>3 DEF StartLoads, Load, Unmask
<1>5. CASE StartEnables
  <2>1. left' > 0 /\ pc' \in {"trig", "store"} /\ (pc' = "trig" => holder' = "timer")
    BY <1>5 DEF StartEnables, Enable, TypeInv
  <2>2. Covered'
    BY <1>0, <1>5, <2>1 DEF StartEnables, Enable
  <2> QED BY <1>0, <1>5, <2>1, <2>2 DEF StartEnables, Enable
<1> QED BY <1>1, <1>2, <1>3, <1>4, <1>5 DEF setTimer

\* The first alarm of all sets the timer.
LEMMA SetAlarmWakes ==
  ASSUME TypeInv, WakeInv, NEW value \in Delays, NEW interval \in Intervals,
         SetAlarm(value, interval)
  PROVE  WakeInv'
<1> USE DEF WakeInv, SetInv, Covered, Told, Setting, Idle, port, hwtimer, counter, line, periods
<1>1. pc = "call" /\ holder' = holder /\ woken' = woken /\ pc' \in {"disable", "store"}
      /\ draft' # Nothing
  BY DEF SetAlarm, FreeRows, Row, Nothing
<1>2. CASE Virgin
  <2>1. getElapsedTime = 0
    BY <1>2, RowsAssumption, MaxCntAssumption DEF Virgin, TypeInv, getElapsedTime, Wrapped, Elapsed, Count
  <2>2. Sooner(value)
    BY <1>2, <2>1, RowsAssumption DEF Virgin, Sooner
  <2>3. pc' = "disable"
    BY <2>2 DEF SetAlarm
  <2> QED BY <1>1, <2>3 DEF SetAlarm
<1>3. CASE ~Virgin
  <2>1. Covered'
    BY <1>1, <1>3 DEF SetAlarm
  <2> QED BY <1>1, <2>1 DEF SetAlarm
<1> QED BY <1>2, <1>3

LEMMA HolderWakes ==
  ASSUME TypeInv, WakeInv, Holder \/ UserEnters \/ TimerWakes \/ TimerEnters
  PROVE  WakeInv'
<1> USE DEF WakeInv, SetInv, Virgin, Covered, Told, Setting, Idle, hwtimer, counter, line, periods,
        port, place, table
<1>0. sem \in Nat /\ cycles \in Nat /\ woken \in BOOLEAN
  BY RowsAssumption DEF TypeInv, Val, Time
<1>1. CASE UserEnters
  BY <1>1 DEF UserEnters, TypeInv
<1>2. CASE TimerWakes
  BY <1>0, <1>2 DEF TimerWakes
<1>3. CASE TimerEnters
  BY <1>3 DEF TimerEnters
<1>4. ASSUME NEW value \in Delays, NEW interval \in Intervals, SetAlarm(value, interval)
      PROVE  WakeInv'
  BY <1>4, SetAlarmWakes
<1>5. ASSUME NEW r \in Row, DelAlarm(r) PROVE WakeInv'
  BY <1>5 DEF DelAlarm
<1>6. CASE Returns
  BY <1>6 DEF Returns, TypeInv
<1>7. CASE Stores
  BY <1>7 DEF Stores
<1>8. CASE setTimer
  BY <1>8, SetTimerWakes
<1>9. CASE TimeDispatch
  BY <1>9 DEF TimeDispatch
<1>10. CASE Trigger
  BY <1>10 DEF Trigger
<1>11. CASE TimerLeaves
  BY <1>0, <1>11 DEF TimerLeaves, TypeInv
<1> QED BY <1>1, <1>2, <1>3, <1>4, <1>5, <1>6, <1>7, <1>8, <1>9, <1>10, <1>11 DEF Holder

LEMMA WakeStep == ASSUME TypeInv, WakeInv, [Next]_vars PROVE WakeInv'
<1>1. CASE UNCHANGED vars
  BY <1>1 DEF WakeInv, SetInv, Virgin, Covered, Told, vars, hwtimer, counter, line, periods, table,
              port, place
<1>2. CASE Stands
  BY <1>2 DEF Stands, WakeInv, SetInv, Virgin, Covered, Told, hwtimer, counter, line, periods, table,
              port, place
<1> QED BY <1>1, <1>2, InterruptWakes, TickWakes, HolderWakes DEF Next

\* An alarm that waits while nobody is in a call has a wakeup coming, however
\* the interrupt on another CPU falls into setTimer.
THEOREM AlarmsWake == Spec => []Wakes
<1>1. Init => TypeInv /\ WakeInv
  BY InitType, WakeInit
<1>2. TypeInv /\ WakeInv /\ [Next]_vars => (TypeInv /\ WakeInv)'
  BY TypeStep, WakeStep
<1>3. TypeInv /\ WakeInv => Wakes
  BY DEF WakeInv, Virgin, Covered, Told, Wakes, Pending, Idle, TypeInv
<1> QED BY <1>1, <1>2, <1>3, PTL DEF Spec

-----------------------------------------------------------------------------
(***************************************************************************)
(* Alarms go off at their value, as long as the counter is trusted.         *)
(***************************************************************************)
\* The ticks the counter still counts before the timer thread is told: the rest
\* of its period, and those to come; what setTimer is about to load; none once
\* the interrupt has counted the last period.
ToGo ==
  IF pc \in {"disable", "mask", "count"} THEN wake.count
  ELSE IF pc = "load" THEN cycles * wake.count
  ELSE IF pc = "enable" THEN cycles * load
  ELSE IF load = 0 THEN total_sleep_time
  ELSE IF Told \/ pc = "dispatch" THEN 0
  ELSE IF intstatus /\ isr # "clear" THEN (cycles - 1) * load
  ELSE (cycles - 1) * load + left

\* The ticks since the last dispatch.
Passed == total_sleep_time - ToGo

\* The handler has nothing left to do but to clear the interrupt.
Quiet == isr \in {"off", "clear"} /\ (isr = "off" => ~intstatus)

\* The counter is in a period of the timeout, or at its end: then it shows 0, or
\* a new period, and the handler is due.
Counted ==
  /\ en /\ ~masked /\ cycles > 0 /\ (cycles > 1 => repeat)
  /\ \/ Quiet /\ left > 0
     \/ /\ intstatus /\ isr \in {"off", "count"}
        /\ IF repeat THEN left = load /\ hidden ELSE left = 0

\* What the registers show, a stale count or not.
Shown == load - left

\* The timeout is over and the timer thread is told once.
OneNotice ==
  /\ repeat \/ left = 0
  /\ sem = 0 \/ (sem = 1 /\ Quiet /\ (woken => holder = "timer"))
  /\ woken /\ holder # "timer" => Quiet
  /\ en => isr = "disable"

\* Each timeout leads to one notice, and setTimer is called when there is none:
\* after the dispatch, or before the timeout is over.
PhaseInv ==
  /\ pc \notin {"dispatch", "disable"} => last_timer_val = 0
  /\ IF pc \in Idle
     THEN IF load = 0 THEN Virgin /\ sem = 0 /\ ~woken
          ELSE IF Told THEN OneNotice ELSE Counted
     ELSE Quiet /\ sem = 0 /\ (woken => holder = "timer")
  /\ pc = "dispatch" => load > 0 /\ last_timer_val = Elapsed /\ (repeat \/ left = 0)
  /\ pc \in {"load", "enable"} => cycles > 0
  /\ pc = "enable" => left = load /\ load > 0 /\ ~masked /\ (wake.free <=> cycles > 1)

\* The counter shows what has passed since the last dispatch unless it is hidden.
ClockInv ==
  ~hidden =>
    /\ pc \in Idle => Shown = Passed
    /\ pc \notin Idle \cup {"dispatch"} => Passed = 0

\* An alarm of value v, counted from the last dispatch, is on time but for the ticks
\* the counter stood still.
OnTime(r, v) == remain[r] + lost[r] = v - Passed /\ total_sleep_time <= v

\* The next wakeup is not after any alarm, and each still waits for what the
\* table says but for what has passed.
AlarmInv ==
  /\ remain \in [Row -> Int] /\ lost \in [Row -> 0 .. MaxLost]
  /\ \A r \in Row : Armed(r) => OnTime(r, timers[r].val)
  /\ draft.row # 0 => OnTime(draft.row, draft.val) /\ timers[draft.row].state = FREE
  /\ holder # "timer" \/ pc = "dispatch" =>
       \A r \in Row : timers[r].state \in {FREE, ARMED}

OnCount == ~early /\ ~late /\ PhaseInv /\ ClockInv /\ AlarmInv

CountInv == ~slow /\ ~astray => OnCount

LEMMA CountInit == Init => CountInv
<1> SUFFICES ASSUME Init PROVE CountInv
  OBVIOUS
<1>1. PhaseInv
  BY DEF Init, HwInit, PhaseInv, Virgin, Idle
<1>2. ToGo = TIMEVAL_MAX /\ Passed = 0 /\ Shown = 0
  BY RowsAssumption DEF Init, HwInit, ToGo, Passed, Shown
<1>3. ClockInv
  BY <1>2 DEF ClockInv, Init, Idle
<1>4. AlarmInv
  BY RowsAssumption DEF AlarmInv, Init, Armed, Nothing
<1> QED BY <1>1, <1>3, <1>4 DEF CountInv, OnCount, Init

\* What happens to the clock alone leaves the alarms on time.
LEMMA AlarmsKept ==
  ASSUME AlarmInv, Passed' = Passed, UNCHANGED <<timers, total_sleep_time, remain, lost, draft>>,
         holder' # "timer" \/ pc' = "dispatch" => holder # "timer" \/ pc = "dispatch"
  PROVE  AlarmInv'
  BY DEF AlarmInv, OnTime, Armed

LEMMA Periodic ==
  ASSUME NEW c \in Int, NEW l \in Int
  PROVE  /\ (c - 1) * l = ((c - 1) - 1) * l + l
         /\ c * l = (c - 1) * l + l
         /\ c = 1 => (c - 1) * l = 0
         /\ c > 0 /\ l \in Nat => (c - 1) * l \in Nat
  OBVIOUS

LEMMA ToGoType == TypeInv => ToGo \in Int /\ Passed \in Int /\ Shown \in Int
<1> SUFFICES ASSUME TypeInv PROVE ToGo \in Int /\ Passed \in Int /\ Shown \in Int
  OBVIOUS
<1>1. /\ cycles \in Int /\ load \in Int /\ left \in Int /\ total_sleep_time \in Int
      /\ wake.count \in Int
  BY RowsAssumption, MaxCntAssumption DEF TypeInv, Val, Time, WakeType
<1>2. cycles * wake.count \in Int /\ cycles * load \in Int /\ (cycles - 1) * load \in Int
  BY <1>1
<1> QED BY <1>1, <1>2 DEF ToGo, Passed, Shown

\* A step of the handler changes neither the clock nor what waits.
LEMMA InterruptCounts ==
  ASSUME TypeInv, OnCount, Interrupt
  PROVE  OnCount'
<1>0. /\ cycles \in Nat /\ load \in Nat /\ left \in 0 .. load /\ sem \in Nat /\ woken \in BOOLEAN
      /\ intstatus \in BOOLEAN
  BY RowsAssumption, MaxCntAssumption DEF TypeInv, Val, Time
<1>1. /\ UNCHANGED <<table, last_timer_val, place, woken, history, causes, load, left, repeat>>
      /\ IF isr = "notify" THEN sem' = sem + 1 ELSE sem' = sem
  BY DEF Interrupt, Isr, IsrBegins, IsrCounts, IsrDisables, IsrMasks, IsrNotifies, IsrClears,
         Disable, Mask, counter, line, periods, port
<1>2. PhaseInv' /\ ToGo' = ToGo
  <2> USE DEF PhaseInv, OnCount, place, table, port, Idle
  <2>1. CASE pc \notin Idle
    <3>1. IsrClears
      BY <2>1 DEF Quiet, Interrupt, Isr, IsrBegins, IsrCounts, IsrDisables, IsrMasks, IsrNotifies
    <3>2. Quiet' /\ UNCHANGED <<cycles, masked, sem>>
      BY <1>1, <3>1 DEF IsrClears, Quiet, periods
    <3>3. /\ UNCHANGED <<pc, load, left, wake, last_timer_val, total_sleep_time, woken, holder>>
          /\ pc \in {"dispatch", "disable"} \cup Setting
      BY <1>1, <2>1 DEF TypeInv
    <3>4. ToGo' = ToGo
      BY <2>1, <3>2, <3>3 DEF ToGo, Setting
    <3>5. PhaseInv'
      BY <1>0, <1>1, <2>1, <3>2, <3>3 DEF Elapsed, Count
    <3> QED BY <3>4, <3>5
  <2>2. CASE pc \in Idle /\ load = 0
    BY <2>2 DEF Virgin, Interrupt, Isr, IsrBegins, IsrCounts, IsrDisables, IsrMasks, IsrNotifies,
                IsrClears
  <2>3. CASE pc \in Idle /\ load # 0 /\ Told
    <3>1. OneNotice /\ pc' = pc /\ load' = load
      BY <1>1, <2>3
    <3>2. ~IsrBegins /\ ~IsrCounts
      BY <2>3, <3>1 DEF OneNotice, Quiet, Told, IsrBegins, IsrCounts
    <3>3. Told' /\ OneNotice'
      <4>1. CASE IsrDisables \/ IsrMasks
        BY <1>0, <1>1, <3>1, <4>1 DEF OneNotice, Quiet, Told, IsrDisables, IsrMasks, Disable, counter
      <4>2. CASE IsrNotifies
        BY <1>0, <1>1, <3>1, <4>2 DEF OneNotice, Quiet, Told, IsrNotifies, counter
      <4>3. CASE IsrClears
        BY <1>0, <1>1, <2>3, <3>1, <4>3 DEF OneNotice, Quiet, Told, IsrClears, counter
      <4> QED BY <3>2, <4>1, <4>2, <4>3 DEF Interrupt, Isr
    <3>4. ToGo = 0 /\ ToGo' = 0
      BY <2>3, <3>1, <3>3 DEF ToGo
    <3> QED BY <1>1, <2>3, <3>1, <3>3, <3>4
  <2>4. CASE pc \in Idle /\ load # 0 /\ ~Told
    <3>1. Counted /\ pc' = pc /\ load' = load /\ sem = 0 /\ sem' = 0
          /\ isr \in {"off", "count", "clear"}
      BY <1>0, <1>1, <2>4 DEF Told, Counted, Quiet
    <3>2. ToGo = IF intstatus /\ isr # "clear" THEN (cycles - 1) * load
                 ELSE (cycles - 1) * load + left
      BY <2>4 DEF ToGo
    <3>3. CASE IsrBegins
      <4>1. ~Told' /\ Counted'
        BY <1>0, <1>1, <2>4, <3>1, <3>3 DEF Told, Counted, Quiet, IsrBegins, counter, line, periods,
              causes
      <4>2. ToGo' = ToGo
        BY <1>0, <1>1, <2>4, <3>1, <3>2, <3>3, <4>1 DEF ToGo, IsrBegins, counter, line, periods
      <4> QED BY <1>1, <2>4, <3>1, <4>1, <4>2
    <3>4. CASE IsrClears
      <4>1. ~Told' /\ Counted'
        BY <1>0, <1>1, <2>4, <3>1, <3>4 DEF Told, Counted, Quiet, IsrClears, counter, periods
      <4>2. ToGo' = ToGo
        BY <1>0, <1>1, <2>4, <3>1, <3>2, <3>4, <4>1 DEF ToGo, IsrClears, counter, periods
      <4> QED BY <1>1, <2>4, <3>1, <4>1, <4>2
    <3>5. CASE IsrCounts /\ cycles = 1
      <4>1. isr' = "disable" /\ isr = "count" /\ intstatus
        BY <3>1, <3>5 DEF IsrCounts, Counted, Quiet
      <4>2. Told' /\ OneNotice'
        BY <1>1, <2>4, <3>1, <4>1 DEF Told, OneNotice, Quiet, Counted
      <4>3. ToGo = 0 /\ ToGo' = 0
        BY <1>0, <1>1, <2>4, <3>1, <3>2, <3>5, <4>1, <4>2, Periodic DEF ToGo
      <4> QED BY <1>1, <2>4, <3>1, <4>2, <4>3
    <3>6. CASE IsrCounts /\ cycles # 1
      <4>1. /\ isr' = "clear" /\ isr = "count" /\ intstatus /\ cycles > 1 /\ repeat /\ left = load
            /\ cycles' = cycles - 1 /\ UNCHANGED <<en, masked, intstatus>>
        BY <1>0, <3>1, <3>6 DEF IsrCounts, Counted, Quiet, counter, line
      <4>2. ~Told' /\ Counted'
        BY <1>0, <1>1, <2>4, <3>1, <4>1 DEF Told, Counted, Quiet
      <4>3. ToGo = (cycles - 1) * load /\ ToGo' = ((cycles - 1) - 1) * load + load
        BY <1>1, <2>4, <3>1, <3>2, <4>1, <4>2 DEF ToGo
      <4> QED BY <1>0, <1>1, <2>4, <3>1, <4>2, <4>3, Periodic
    <3> QED BY <3>1, <3>3, <3>4, <3>5, <3>6 DEF Interrupt, Isr, IsrDisables, IsrMasks, IsrNotifies
  <2> QED BY <2>1, <2>2, <2>3, <2>4
<1>3. Passed' = Passed /\ Shown' = Shown
  BY <1>1, <1>2 DEF Passed, Shown, table
<1>4. ClockInv'
  BY <1>1, <1>3 DEF OnCount, ClockInv, place, causes
<1>5. AlarmInv'
  BY <1>1, <1>3, AlarmsKept DEF OnCount, place, table, history
<1> QED BY <1>1, <1>2, <1>4, <1>5 DEF OnCount, history

\* Where no tick falls into a call, one is counted, by the counter and by all
\* that wait.
LEMMA TickCounts ==
  ASSUME TypeInv, ScanInv, OnCount, Tick, ~slow'
  PROVE  OnCount'
<1>0. /\ cycles \in Nat /\ load \in Nat /\ left \in 0 .. load /\ total_sleep_time \in Nat
      /\ timers \in [Row -> RowType]
  BY RowsAssumption, MaxCntAssumption DEF TypeInv, Val, Time
<1>1. /\ pc \in {"out", "call", "trig"} /\ en /\ left > 0 /\ isr = "off" /\ ~(intstatus /\ ~masked)
      /\ UNCHANGED <<en, load, repeat, masked, periods, isr, table, port, place, woken>>
      /\ UNCHANGED <<early, late>> /\ hidden' = (hidden \/ (repeat /\ left = 1))
      /\ intstatus' = (intstatus \/ left = 1)
  BY DEF Tick, Counts, Counting, Ticking
<1>2. pc \in Idle /\ load # 0 /\ ~Told
  BY <1>1 DEF OnCount, PhaseInv, Idle, Virgin, OneNotice
<1>3. Counted /\ ~intstatus /\ ~masked
  BY <1>1, <1>2 DEF OnCount, PhaseInv, Counted
<1>4. ~Told'
  BY <1>1, <1>2 DEF Told, port, place
<1>5. /\ ToGo = (cycles - 1) * load + left
      /\ ToGo' = IF left = 1 THEN (cycles - 1) * load ELSE (cycles - 1) * load + left'
  BY <1>1, <1>2, <1>3, <1>4 DEF ToGo, Idle, periods, place
<1>6. ToGo' = ToGo - 1 /\ ToGo > 0
  <2>1. (cycles - 1) * load \in Nat
    BY <1>0, <1>3, Periodic DEF Counted
  <2>2. left > 1 => left' = left - 1
    BY <1>0 DEF Tick, Counts
  <2> QED BY <1>0, <1>1, <1>5, <2>1, <2>2
<1>7. Counted'
  <2> DEFINE next == IF left > 1 THEN left - 1 ELSE IF repeat THEN load ELSE 0
  <2>0. left' = next
    BY DEF Tick, Counts
  <2>1. CASE left > 1
    <3>1. left # 1
      BY <1>0, <2>1
    <3>2. ~intstatus'
      BY <1>1, <1>3, <3>1, Zenon
    <3>3. left' = left - 1 /\ ~intstatus'
      BY <2>0, <2>1, <3>2
    <3> QED BY <1>0, <1>1, <1>3, <2>1, <3>3 DEF Counted, Quiet, periods
  <2>2. CASE left = 1 /\ repeat
    <3>1. intstatus' /\ hidden'
      BY <1>1, <2>2, Zenon
    <3>2. left' = load /\ intstatus' /\ hidden'
      BY <2>0, <2>2, <3>1
    <3> QED BY <1>0, <1>1, <1>3, <2>2, <3>2 DEF Counted, periods
  <2>3. CASE left = 1 /\ ~repeat
    <3>1. intstatus'
      BY <1>1, <2>3, Zenon
    <3>2. left' = 0 /\ intstatus'
      BY <2>0, <2>3, <3>1
    <3> QED BY <1>0, <1>1, <1>3, <2>3, <3>2 DEF Counted, periods
  <2> QED BY <1>0, <1>1, <2>1, <2>2, <2>3
<1>8. PhaseInv'
  BY <1>1, <1>2, <1>4, <1>7 DEF PhaseInv, OnCount, Idle, port, place
<1>9. Passed \in Int /\ Passed' = Passed + 1 /\ total_sleep_time - Passed > 0
  BY <1>0, <1>1, <1>6, ToGoType DEF Passed, table
<1>10. ClockInv'
  <2>1. ~hidden' => ~hidden /\ left' = left - 1
    <3>1. ASSUME ~hidden' PROVE ~hidden /\ ~(repeat /\ left = 1)
      BY <1>1, <3>1
    <3>2. ~(repeat /\ left = 1) => left' = left - 1
      BY <1>0, <1>1 DEF Tick, Counts
    <3> QED BY <3>1, <3>2
  <2>2. ASSUME ~hidden' PROVE Shown' = Passed'
    BY <1>0, <1>1, <1>2, <1>9, <2>1, <2>2 DEF OnCount, ClockInv, Shown
  <2> QED BY <1>1, <2>2 DEF ClockInv, Idle, place
<1>11. AlarmInv'
  <2>1. draft.row = 0 /\ draft' = draft /\ timers' = timers /\ total_sleep_time' = total_sleep_time
    BY <1>1 DEF ScanInv, Nothing, place, table
  <2>2. remain' \in [Row -> Int] /\ lost' = lost
    BY DEF Tick, OnCount, AlarmInv
  <2>3. ASSUME NEW r \in Row, Armed(r)' PROVE OnTime(r, timers[r].val)'
    <3>1. Armed(r) /\ timers[r].val \in Int
      BY <1>0, <2>1, <2>3, RowsAssumption DEF Armed, RowType, Val
    <3>2. remain[r] + lost[r] = timers[r].val - Passed /\ total_sleep_time <= timers[r].val
      BY <3>1 DEF OnCount, AlarmInv, OnTime
    <3>3. remain[r] \in Int /\ lost[r] \in 0 .. MaxLost /\ MaxLost \in Nat
      BY RowsAssumption DEF OnCount, AlarmInv
    <3>4. remain[r] >= -MaxLost
      BY <1>0, <1>9, <3>1, <3>2, <3>3
    <3>5. remain'[r] = remain[r] - 1
      BY <3>1, <3>4 DEF Tick, Waits
    <3> QED BY <1>9, <2>1, <2>2, <3>1, <3>2, <3>3, <3>5 DEF OnTime
  <2> QED BY <1>1, <2>1, <2>2, <2>3 DEF OnCount, AlarmInv, place
<1> QED BY <1>1, <1>8, <1>10, <1>11 DEF OnCount

\* Time during which the counter stands still is noted for all that wait.
LEMMA StandCounts == ASSUME TypeInv, OnCount, Stands PROVE OnCount'
<1>1. UNCHANGED <<hwtimer, table, port, place, woken, early, late, sets, causes>>
  BY DEF Stands
<1>2. Told' = Told /\ Quiet' = Quiet /\ Shown' = Shown /\ Elapsed' = Elapsed
  BY <1>1 DEF Told, Quiet, Shown, Elapsed, Count, hwtimer, counter, line, port, place
<1>3. ToGo' = ToGo /\ Passed' = Passed
  BY <1>1, <1>2 DEF ToGo, Passed, hwtimer, counter, line, periods, port, place, table
<1>4. PhaseInv'
  BY <1>1, <1>2 DEF OnCount, PhaseInv, Virgin, OneNotice, Counted, hwtimer, counter, line, periods,
                    port, place, table, causes
<1>5. ClockInv'
  BY <1>1, <1>2, <1>3 DEF OnCount, ClockInv, place, causes
<1>6. AlarmInv'
  <2>1. ASSUME NEW r \in Row
        PROVE  /\ remain[r] \in Int /\ lost[r] \in 0 .. MaxLost
               /\ remain'[r] = IF Waits(r) THEN remain[r] - 1 ELSE remain[r]
               /\ lost'[r] = IF Waits(r) THEN lost[r] + 1 ELSE lost[r]
               /\ Waits(r) => lost[r] < MaxLost
    BY DEF Stands, OnCount, AlarmInv
  <2>2. ASSUME NEW r \in Row PROVE remain'[r] + lost'[r] = remain[r] + lost[r]
    BY <2>1
  <2>3. remain' \in [Row -> Int]
    BY <2>1 DEF Stands
  <2>4. lost' \in [Row -> 0 .. MaxLost]
    BY <2>1, RowsAssumption DEF Stands
  <2>5. \A r \in Row : Armed(r)' => OnTime(r, timers[r].val)'
    BY <1>1, <1>3, <2>2 DEF OnCount, AlarmInv, OnTime, Armed, table
  <2>6. draft'.row # 0 => OnTime(draft.row, draft.val)' /\ timers'[draft.row].state = FREE
    <3>1. draft' = draft /\ timers' = timers /\ total_sleep_time' = total_sleep_time
      BY <1>1 DEF place, table
    <3>2. draft.row \in 0 .. Rows
      BY DEF TypeInv, DraftType
    <3> QED BY <1>3, <2>2, <3>1, <3>2, RowsAssumption DEF OnCount, AlarmInv, OnTime, Row
  <2> QED BY <1>1, <2>3, <2>4, <2>5, <2>6 DEF OnCount, AlarmInv, place, table
<1> QED BY <1>1, <1>4, <1>5, <1>6 DEF OnCount

\* The product of the periods is the timeout, whichever of setTimer's steps is next.
LEMMA SetTimerCounts ==
  ASSUME TypeInv, SetInv, OnCount, setTimer
  PROVE  OnCount'
<1>0. /\ cycles \in Nat /\ load \in Nat /\ left \in 0 .. load /\ wake \in WakeType
      /\ pc \in {"disable", "mask", "count", "load", "enable"}
      /\ wake.count \in Nat /\ wake.count > 0
  BY RowsAssumption, MaxCntAssumption
     DEF TypeInv, Val, Time, WakeType, setTimer, StopDisables, StopMasks, WriteCounts, StartLoads,
         StartEnables
<1>1. UNCHANGED <<table, isr, intstatus, sem, holder, draft, woken, history, causes>>
      /\ pc' # "dispatch"
  BY DEF setTimer, StopDisables, StopMasks, WriteCounts, StartLoads, StartEnables, Disable, Mask,
         Unmask, port, line
<1>2. Quiet /\ Quiet' /\ sem' = 0 /\ sem = 0 /\ (woken => holder = "timer")
  BY <1>0, <1>1 DEF OnCount, PhaseInv, Idle, Quiet
<1>3. PhaseInv' /\ ToGo' = ToGo /\ (pc' \in Idle => Shown' = 0)
  <2>1. CASE StopDisables
    BY <1>1, <1>2, <2>1 DEF StopDisables, PhaseInv, OnCount, ToGo, Idle
  <2>2. CASE StopMasks
    BY <1>1, <1>2, <2>2 DEF StopMasks, PhaseInv, OnCount, ToGo, Idle, port
  <2>3. CASE WriteCounts
    <3>1. PICK n \in Periods(wake.count) :
            cycles' = n /\ wake' = [wake EXCEPT !.count = @ \div n]
      BY <2>3 DEF WriteCounts
    <3>2. n \in Nat /\ n > 0 /\ wake.count % n = 0
      BY <1>0, <3>1 DEF Periods, Fitting
    <3>3. wake.count \div n \in Nat /\ n * (wake.count \div n) = wake.count
      BY <1>0, <3>2, SMT
    <3>4. wake'.count = wake.count \div n
      BY <1>0, <3>1 DEF WakeType
    <3>5. pc = "count" /\ pc' = "load" /\ last_timer_val' = last_timer_val
      BY <2>3 DEF WriteCounts, port
    <3>6. ToGo = wake.count /\ ToGo' = cycles' * wake'.count
      BY <3>5 DEF ToGo
    <3> QED BY <1>1, <1>2, <3>1, <3>2, <3>3, <3>4, <3>5, <3>6 DEF PhaseInv, OnCount, Idle
  <2>4. CASE StartLoads
    <3>1. /\ pc = "load" /\ pc' = "enable" /\ load' = wake.count /\ left' = wake.count
          /\ ~masked' /\ cycles' = cycles /\ last_timer_val' = last_timer_val
          /\ wake' = [wake EXCEPT !.free = cycles > 1]
      BY <2>4 DEF StartLoads, Load, Unmask, periods, port
    <3>2. wake'.free <=> cycles > 1
      BY <1>0, <3>1, Zenon DEF WakeType
    <3>3. ToGo = cycles * wake.count /\ ToGo' = cycles' * load'
      BY <3>1 DEF ToGo
    <3>4. PhaseInv'
      BY <1>0, <1>1, <1>2, <3>1, <3>2 DEF PhaseInv, OnCount, Idle
    <3> QED BY <3>1, <3>3, <3>4 DEF Idle
  <2>5. CASE StartEnables
    <3>1. /\ pc = "enable" /\ pc' \in {"trig", "store"} /\ en' /\ repeat' = wake.free
          /\ UNCHANGED <<left, load, masked, cycles, last_timer_val>>
      BY <2>5 DEF StartEnables, Enable, line, periods, port
    <3>2. left = load /\ load > 0 /\ ~masked /\ cycles > 0 /\ (wake.free <=> cycles > 1)
          /\ last_timer_val = 0
      BY <3>1 DEF OnCount, PhaseInv
    <3>3. ~Told'
      BY <1>1, <1>2 DEF Told, Quiet
    <3>4. Counted'
      <4>1. cycles > 1 => repeat'
        BY <3>1, <3>2, Zenon
      <4> QED BY <1>2, <3>1, <3>2, <4>1 DEF Counted
    <3>5. ToGo = cycles * load /\ ToGo' = (cycles - 1) * load + load
      BY <1>2, <3>1, <3>2, <3>3 DEF ToGo, Quiet
    <3>6. ToGo' = ToGo /\ Shown' = 0
      BY <1>0, <3>1, <3>2, <3>5, Periodic DEF Shown
    <3> QED BY <3>1, <3>2, <3>3, <3>4, <3>6 DEF PhaseInv, Idle
  <2> QED BY <2>1, <2>2, <2>3, <2>4, <2>5 DEF setTimer
<1>4. Passed' = Passed
  BY <1>1, <1>3 DEF Passed, table
<1>5. ClockInv'
  BY <1>0, <1>1, <1>3, <1>4 DEF OnCount, ClockInv, Idle, causes
<1>6. AlarmInv'
  BY <1>1, <1>4, AlarmsKept DEF OnCount, table, history
<1> QED BY <1>1, <1>3, <1>5, <1>6 DEF OnCount, history

\* Who holds the mutex, and who has a notice in hand, does not matter to the clock.
LEMMA CallCounts ==
  ASSUME TypeInv, ScanInv, SetInv, OnCount,
         UserEnters \/ Returns \/ TimerWakes \/ TimerEnters \/ TimerLeaves
  PROVE  OnCount'
<1>0. /\ UNCHANGED <<hwtimer, table, draft, wake, history, causes>>
      /\ sem \in Nat /\ woken \in BOOLEAN /\ timers \in [Row -> RowType]
  BY DEF TypeInv, UserEnters, Returns, TimerWakes, TimerEnters, TimerLeaves, port, place
<1>1. pc \in Idle
  BY <1>0 DEF OnCount, PhaseInv, UserEnters, Returns, TimerWakes, TimerEnters, TimerLeaves, Idle,
              TypeInv
<1> USE DEF hwtimer, counter, line, periods, table, history, causes
<1>2. CASE UserEnters \/ Returns \/ TimerLeaves
  <2>1. pc' \in Idle /\ sem' = sem /\ last_timer_val' = last_timer_val
        /\ (woken' /\ holder' # "timer" <=> woken /\ holder # "timer")
        /\ ((woken => holder = "timer") <=> (woken' => holder' = "timer"))
    BY <1>0, <1>2 DEF UserEnters, Returns, TimerLeaves, port, Idle, SetInv, TypeInv
  <2>2. Told' = Told /\ Quiet' = Quiet
    BY <1>0, <2>1 DEF Told, Quiet
  <2>3. Virgin => Virgin' /\ woken' = woken
    BY <1>0, <1>2 DEF Virgin, UserEnters, Returns, TimerLeaves, port, SetInv, TypeInv
  <2>4. OneNotice => OneNotice'
    BY <1>0, <2>1, <2>2 DEF OneNotice
  <2>5. Counted => Counted'
    BY <1>0, <2>2 DEF Counted
  <2>6. PhaseInv'
    BY <1>0, <1>1, <2>1, <2>2, <2>3, <2>4, <2>5 DEF OnCount, PhaseInv, Idle
  <2>7. ToGo' = ToGo
    BY <1>0, <1>1, <2>1, <2>2 DEF ToGo, Idle
  <2>8. Passed' = Passed /\ Shown' = Shown
    BY <1>0, <2>7 DEF Passed, Shown
  <2>9. ClockInv'
    BY <1>0, <1>1, <2>1, <2>8 DEF OnCount, ClockInv
  <2>10. AlarmInv'
    <3>1. CASE UserEnters \/ Returns
      BY <1>0, <2>8, <3>1, AlarmsKept DEF OnCount, UserEnters, Returns, TypeInv
    <3>2. CASE TimerLeaves
      <4>1. \A r \in Row : timers[r].state \in {FREE, ARMED}
        BY <1>0, <3>2 DEF TimerLeaves, Triggered, ScanInv, InScan, RowType
      <4> QED BY <1>0, <2>8, <4>1 DEF OnCount, AlarmInv, OnTime, Armed
    <3> QED BY <1>2, <3>1, <3>2
  <2> QED BY <1>0, <2>6, <2>9, <2>10 DEF OnCount
<1>3. CASE TimerWakes
  <2>1. sem > 0 /\ sem' = sem - 1 /\ ~woken /\ woken' /\ holder # "timer"
        /\ UNCHANGED <<last_timer_val, holder, pc>>
    BY <1>3 DEF TimerWakes, SetInv, place
  <2>2. Told /\ Told' /\ load # 0 /\ OneNotice
    BY <1>1, <2>1 DEF Told, OnCount, PhaseInv
  <2>3. OneNotice'
    BY <1>0, <2>1, <2>2 DEF OneNotice, Quiet
  <2>4. PhaseInv'
    BY <1>0, <1>1, <2>1, <2>2, <2>3 DEF OnCount, PhaseInv, Idle
  <2>5. Passed' = Passed /\ Shown' = Shown
    BY <1>0, <1>1, <2>1, <2>2 DEF Passed, Shown, ToGo, Idle
  <2>6. ClockInv' /\ AlarmInv'
    BY <1>0, <2>1, <2>5, AlarmsKept DEF OnCount, ClockInv
  <2> QED BY <1>0, <2>4, <2>6 DEF OnCount
<1>4. CASE TimerEnters
  <2>1. woken /\ woken' /\ holder = "none" /\ holder' = "timer" /\ pc = "out" /\ pc' = "dispatch"
        /\ last_timer_val' = Elapsed /\ sem' = sem
    BY <1>4 DEF TimerEnters, TypeInv
  <2>2. Told /\ load # 0 /\ OneNotice
    BY <1>1, <2>1 DEF Told, OnCount, PhaseInv
  <2>3. Quiet /\ sem = 0
    BY <2>1, <2>2 DEF OneNotice
  <2>4. load > 0
    BY <2>2, MaxCntAssumption DEF TypeInv
  <2>5. PhaseInv'
    BY <1>0, <2>1, <2>2, <2>3, <2>4 DEF PhaseInv, OneNotice, Idle, Quiet, Elapsed, Count
  <2>6. Passed' = Passed
    BY <1>0, <2>1, <2>2 DEF Passed, ToGo
  <2>7. ClockInv'
    BY <2>1 DEF ClockInv, Idle
  <2>8. AlarmInv'
    BY <1>0, <2>1, <2>6, AlarmsKept DEF OnCount
  <2> QED BY <1>0, <2>5, <2>7, <2>8 DEF OnCount
<1> QED BY <1>2, <1>3, <1>4

\* A row that is filled, freed or armed again leaves the clock alone.
LEMMA TableCounts ==
  ASSUME TypeInv, ScanInv, SetInv, OnCount,
         Stores \/ Trigger \/ \E r \in Row : DelAlarm(r)
  PROVE  OnCount'
<1>0. /\ UNCHANGED <<hwtimer, total_sleep_time, port, holder, wake, woken, history, causes>>
      /\ pc \in {"store", "trig", "call"} /\ pc' = "call"
      /\ timers \in [Row -> RowType]
  BY DEF TypeInv, Stores, Trigger, DelAlarm, place
<1> USE DEF hwtimer, counter, line, periods, history, causes, port
<1>1. Told' = Told /\ Quiet' = Quiet
  BY <1>0 DEF Told, Quiet
<1>2. Virgin => Virgin'
  <2>1. Virgin => pc = "call" /\ ~Trigger /\ ~Stores
    BY <1>0 DEF Virgin, Trigger, Stores
  <2>2. Virgin => ~\E r \in Row : DelAlarm(r)
    BY DEF Virgin, DelAlarm
  <2> QED BY <2>1, <2>2
<1>3. (OneNotice => OneNotice') /\ (Counted => Counted')
  BY <1>0, <1>1 DEF OneNotice, Counted
<1>4. PhaseInv'
  BY <1>0, <1>1, <1>2, <1>3 DEF OnCount, PhaseInv, Idle
<1>5. Passed' = Passed /\ Shown' = Shown
  BY <1>0, <1>1 DEF Passed, Shown, ToGo
<1>6. ClockInv'
  BY <1>0, <1>5 DEF OnCount, ClockInv, Idle
<1>7. AlarmInv'
  <2> USE DEF OnCount, AlarmInv, OnTime, Armed
  <2>1. CASE Stores
    <3>1. pc = "store" /\ draft \in DraftType /\ draft' = Nothing /\ Nothing.row = 0
      BY <2>1 DEF Stores, TypeInv, Nothing
    <3>2. \A r \in Row : r # draft.row => timers'[r] = timers[r]
      BY <1>0, <2>1 DEF Stores
    <3>3. ASSUME draft.row \in Row
          PROVE  timers'[draft.row].state = ARMED /\ timers'[draft.row].val = draft.val
      BY <1>0, <2>1, <3>3 DEF Stores
    <3>4. 0 \notin Row
      BY DEF Row
    <3>5. ASSUME NEW r \in Row
          PROVE  /\ Armed(r)' => OnTime(r, timers[r].val)'
                 /\ timers[r].state \in {FREE, ARMED} => timers'[r].state \in {FREE, ARMED}
      <4>1. CASE r = draft.row
        BY <1>0, <1>5, <3>3, <3>4, <3>5, <4>1
      <4>2. CASE r # draft.row
        BY <1>0, <1>5, <3>2, <3>5, <4>2
      <4> QED BY <4>1, <4>2
    <3> QED BY <1>0, <3>1, <3>5
  <2>2. CASE Trigger
    <3>1. pc = "trig" /\ holder' = "timer" /\ pc' # "dispatch" /\ draft' = Nothing /\ Nothing.row = 0
      BY <1>0, <2>2 DEF Trigger, SetInv, ScanInv, Nothing
    <3>2. ASSUME NEW r \in Row, Armed(r)' PROVE Armed(r) /\ timers'[r].val = timers[r].val
      BY <1>0, <2>2, <3>2 DEF Trigger, Triggered, RowType
    <3> QED BY <1>0, <1>5, <3>1, <3>2
  <2>3. ASSUME NEW r \in Row, DelAlarm(r) PROVE AlarmInv'
    <3>1. draft' = draft /\ draft.row = 0
      BY <2>3 DEF DelAlarm, ScanInv, Nothing, place
    <3>2. timers' = [timers EXCEPT ![r].state = FREE]
      BY <2>3 DEF DelAlarm
    <3>3. \A q \in Row : Armed(q)' => Armed(q) /\ timers'[q].val = timers[q].val
      BY <1>0, <3>2 DEF RowType
    <3>4. \A q \in Row : timers'[q].state \in {FREE, timers[q].state}
      BY <1>0, <3>2 DEF RowType
    <3> QED BY <1>0, <1>5, <3>1, <3>3, <3>4
  <2> QED BY <2>1, <2>2, <2>3
<1> QED BY <1>0, <1>4, <1>6, <1>7 DEF OnCount

LEMMA WrappedIs == ASSUME NEW v \in Val PROVE Wrapped(v) = v
  BY RowsAssumption, MaxCntAssumption, SMT DEF Wrapped, Val

\* Where nobody sets the timer the counter has something to count until it tells.
LEMMA NotOver ==
  ASSUME TypeInv, PhaseInv, pc \in Idle
  PROVE  /\ ToGo \in Nat
         /\ ToGo > 0 /\ ~hidden => Quiet /\ ~Told /\ sem = 0
<1>0. /\ cycles \in Nat /\ load \in Nat /\ left \in Nat /\ total_sleep_time \in Nat /\ sem \in Nat
  BY RowsAssumption, MaxCntAssumption DEF TypeInv, Val, Time
<1>1. CASE load = 0
  <2>1. ToGo = total_sleep_time
    BY <1>1 DEF ToGo, Idle
  <2> QED BY <1>0, <1>1, <2>1 DEF PhaseInv, Virgin, Quiet, Told
<1>2. CASE load # 0 /\ Told
  BY <1>2 DEF ToGo, Idle
<1>3. CASE load # 0 /\ ~Told
  <2>1. Counted
    BY <1>3 DEF PhaseInv
  <2>2. ToGo = IF intstatus /\ isr # "clear" THEN (cycles - 1) * load
               ELSE (cycles - 1) * load + left
    BY <1>3 DEF ToGo, Idle
  <2>3. (cycles - 1) * load \in Nat /\ (cycles = 1 => (cycles - 1) * load = 0)
    BY <1>0, <2>1, Periodic DEF Counted
  <2>4. sem = 0
    BY <1>0, <1>3 DEF Told
  <2>5. ASSUME ToGo > 0, ~hidden PROVE Quiet
    <3>1. CASE intstatus /\ isr \in {"off", "count"} /\ ~repeat
      <4>1. cycles = 1
        BY <1>0, <2>1, <3>1 DEF Counted
      <4> QED BY <2>2, <2>3, <2>5, <3>1, <4>1
    <3> QED BY <2>1, <2>5, <3>1 DEF Counted
  <2> QED BY <1>0, <1>3, <2>2, <2>3, <2>4, <2>5
<1> QED BY <1>1, <1>2, <1>3

\* An alarm that is set while the counter shows all that has passed is on time,
\* and so is every other, whether the timer is set anew or not.
LEMMA SetAlarmCounts ==
  ASSUME TypeInv, ScanInv, SetInv, OnCount, ~astray',
         NEW value \in Delays, NEW interval \in Intervals, SetAlarm(value, interval)
  PROVE  OnCount'
<1>10. PICK E \in Val : E = getElapsedTime
  BY ElapsedType
<1>11. ~hidden /\ ~Stale
  BY Zenon DEF SetAlarm
<1>0. /\ UNCHANGED <<hwtimer, timers, port, holder, woken, early, late>>
      /\ pc = "call" /\ ~hidden /\ Elapsed = Shown
  BY <1>11 DEF SetAlarm, Stale, Elapsed, Shown
<1>1. /\ value \in Nat /\ value > 0 /\ value < TIMEVAL_MAX /\ TIMEVAL_MAX \in Nat
      /\ total_sleep_time \in Time
      /\ load \in 0 .. MaxCnt /\ MaxCnt \in Nat /\ Width \in Nat /\ Width > TIMEVAL_MAX + MaxCnt
      /\ left \in 0 .. load /\ timers \in [Row -> RowType]
  BY RowsAssumption, MaxCntAssumption DEF TypeInv
<1>2. ToGo \in Nat /\ Passed \in Int /\ Elapsed = Passed /\ last_timer_val = 0
  BY <1>0, NotOver, ToGoType DEF OnCount, ClockInv, PhaseInv, Idle
<1>3. E = Passed
  <2>1. Elapsed \in Val /\ Elapsed - last_timer_val = Elapsed
    BY <1>0, <1>1, <1>2 DEF Shown, Passed, Val
  <2> QED BY <1>2, <1>10, <2>1, WrappedIs DEF getElapsedTime
<1>4. PICK row \in FreeRows :
        /\ draft' = [row |-> row, val |-> Wrapped(value + E), interval |-> interval]
        /\ remain' = [remain EXCEPT ![row] = value] /\ lost' = [lost EXCEPT ![row] = 0]
  BY <1>10 DEF SetAlarm
<1>5. row \in Row /\ timers[row].state = FREE
  BY <1>4 DEF FreeRows
<1>6. draft'.row = row /\ draft'.val = value + E
  <2>1. value + E \in Val
    BY <1>0, <1>1, <1>2, <1>3 DEF Shown, Val
  <2> QED BY <1>4, <2>1, WrappedIs
<1>7. ASSUME Passed' = Passed, total_sleep_time' <= value + E,
             total_sleep_time' <= total_sleep_time, total_sleep_time' \in Int,
             pc' # "dispatch"
      PROVE  AlarmInv'
  <2> USE DEF OnCount, AlarmInv, OnTime
  <2>1. remain' \in [Row -> Int] /\ remain'[row] = value /\ lost' \in [Row -> 0 .. MaxLost] /\ lost'[row] = 0
    BY <1>1, <1>4, <1>5, RowsAssumption
  <2>2. OnTime(row, value + E)'
    BY <1>1, <1>2, <1>3, <1>7, <2>1
  <2>3. ASSUME NEW r \in Row, Armed(r)' PROVE OnTime(r, timers[r].val)'
    <3>1. Armed(r) /\ r # row
      BY <1>0, <1>5, <2>3 DEF Armed
    <3>2. remain'[r] = remain[r] /\ lost'[r] = lost[r] /\ timers[r].val \in Int /\ timers'[r] = timers[r]
      BY <1>0, <1>1, <1>4, <3>1, RowsAssumption DEF RowType, Val, Time
    <3>3. remain[r] + lost[r] = timers[r].val - Passed /\ total_sleep_time <= timers[r].val
      BY <3>1
    <3>4. total_sleep_time' <= timers[r].val
      BY <1>1, <1>7, <3>2, <3>3, RowsAssumption DEF Val, Time
    <3> QED BY <1>7, <3>2, <3>3, <3>4
  <2> QED BY <1>0, <1>5, <1>6, <1>7, <2>1, <2>2, <2>3
<1>8. CASE Sooner(value)
  <2>1. /\ total_sleep_time' = E + value /\ wake'.count = value /\ pc' = "disable"
        /\ hidden' = (hidden \/ E > 0)
    BY <1>1, <1>8, <1>10 DEF SetAlarm, Timeout, Asleep
  <2>2. total_sleep_time > E /\ total_sleep_time - E > value
    BY <1>8, <1>10 DEF Sooner
  <2>3. ToGo' = value /\ Passed' = Passed
    BY <1>1, <1>2, <1>3, <2>1, RowsAssumption DEF ToGo, Passed, Val, Time
  <2>4. ToGo > 0
    BY <1>1, <1>2, <1>3, <2>2, RowsAssumption DEF Passed, Val, Time
  <2>5. Quiet /\ ~Told /\ sem = 0
    BY <1>0, <2>4, NotOver DEF OnCount, Idle
  <2>6. PhaseInv'
    BY <1>0, <2>1, <2>5 DEF PhaseInv, Idle, Told, Quiet, hwtimer, line, port
  <2>7. ClockInv'
    <3>1. ~hidden' => ~(E > 0)
      BY <2>1, Zenon
    <3> QED BY <1>1, <1>2, <1>3, <2>1, <2>3, <3>1, RowsAssumption DEF ClockInv, Idle, Val, Time
  <2>8. AlarmInv'
    BY <1>1, <1>3, <1>7, <2>1, <2>2, <2>3, RowsAssumption DEF Val, Time
  <2> QED BY <1>0, <2>6, <2>7, <2>8 DEF OnCount
<1>9. CASE ~Sooner(value)
  <2>1. pc' = "store" /\ UNCHANGED <<total_sleep_time, wake, hidden>>
    BY <1>9 DEF SetAlarm
  <2>2. total_sleep_time <= value + E
    BY <1>1, <1>3, <1>9, <1>10, RowsAssumption DEF Sooner, Val, Time
  <2>3. ~Virgin
    BY <1>0, <1>1, <1>2, <1>3, <2>2, RowsAssumption DEF Virgin, Shown, Val, Time
  <2>4. Told' = Told /\ Quiet' = Quiet /\ Shown' = Shown
    BY <1>0 DEF Told, Quiet, Shown, hwtimer, line, port, counter
  <2>5. load # 0
    BY <1>0, <2>3 DEF OnCount, PhaseInv, Idle
  <2>6. ToGo' = ToGo /\ Passed' = Passed
    BY <1>0, <2>1, <2>4, <2>5 DEF ToGo, Passed, hwtimer, counter, line, periods
  <2>7. (OneNotice => OneNotice') /\ (Counted => Counted')
    BY <1>0, <2>1, <2>4 DEF OneNotice, Counted, hwtimer, counter, line, periods, port
  <2>8. PhaseInv'
    BY <1>0, <2>1, <2>4, <2>5, <2>7 DEF OnCount, PhaseInv, Idle, hwtimer, counter, port
  <2>9. ClockInv'
    BY <1>0, <2>1, <2>4, <2>6 DEF OnCount, ClockInv, Idle
  <2>10. AlarmInv'
    BY <1>1, <1>7, <2>1, <2>2, <2>6, RowsAssumption DEF Val, Time
  <2> QED BY <1>0, <2>8, <2>9, <2>10 DEF OnCount
<1> QED BY <1>8, <1>9

\* The dispatch comes when what the table counts from has passed, so what is due
\* is on time; what is left is counted from here, and the soonest comes next.
LEMMA DispatchCounts ==
  ASSUME TypeInv, ScanInv, SetInv, OnCount, TimeDispatch
  PROVE  OnCount'
<1>0. /\ pc = "dispatch" /\ pc' = "disable" /\ holder' = "timer" /\ hidden' = FALSE
      /\ UNCHANGED <<hwtimer, port, draft, woken>> /\ timers' = [r \in Row |-> Aged(r)]
      /\ draft = Nothing /\ Nothing.row = 0
  BY DEF TimeDispatch, SetInv, ScanInv, Nothing
<1>1. /\ total_sleep_time \in Nat /\ total_sleep_time <= TIMEVAL_MAX /\ TIMEVAL_MAX \in Nat \ {0}
      /\ load > 0 /\ last_timer_val = Elapsed /\ Elapsed \in Int /\ Width \in Nat /\ Width > TIMEVAL_MAX + MaxCnt /\ MaxCnt \in Nat
      /\ timers \in [Row -> RowType]
  BY <1>0, RowsAssumption, MaxCntAssumption, ElapsedType DEF OnCount, PhaseInv, TypeInv, Time
<1>2. getElapsedTime = 0 /\ Real = total_sleep_time
  <2>1. Elapsed - last_timer_val = 0 /\ 0 \in Val /\ total_sleep_time \in Val
        /\ total_sleep_time + 0 = total_sleep_time
    BY <1>1 DEF Val
  <2>2. getElapsedTime = 0
    BY <2>1, WrappedIs DEF getElapsedTime
  <2> QED BY <2>1, <2>2, WrappedIs DEF Real
<1>3. ToGo = 0 /\ Passed = total_sleep_time
  BY <1>0, <1>1 DEF ToGo, Passed, Idle
<1>4. ASSUME NEW r \in Row
      PROVE  /\ timers[r].val \in Nat /\ timers[r].interval \in Nat
             /\ timers[r].interval <= TIMEVAL_MAX
             /\ timers[r].state = "TIMER_ARMED" => /\ Active(r)
                                                   /\ remain[r] + lost[r] = timers[r].val - total_sleep_time
                                                   /\ total_sleep_time <= timers[r].val
             /\ timers[r].state # "TIMER_ARMED" => ~Active(r) /\ timers[r].state = FREE
  <2>1. timers[r].state \in {FREE, ARMED}
    BY <1>0 DEF OnCount, AlarmInv
  <2>2. timers[r].val \in Nat /\ timers[r].interval \in Nat /\ timers[r].interval <= TIMEVAL_MAX
    BY <1>1 DEF RowType, Val, Time
  <2>3. timers[r].state = "TIMER_ARMED" => Active(r) /\ OnTime(r, timers[r].val)
    BY DEF Active, ScanInv, InScan, OnCount, AlarmInv, Armed
  <2> QED BY <1>3, <2>1, <2>2, <2>3 DEF OnTime, Active
<1>5. ASSUME NEW r \in Row, Due(r) PROVE remain[r] + lost[r] = 0
  BY <1>1, <1>2, <1>4, <1>5 DEF Due, Active
<1>6. ~early' /\ ~late'
  <2>1. ~\E r \in Row : Due(r) /\ remain[r] + lost[r] > 0
    BY <1>5
  <2>2. ~\E r \in Row : Due(r) /\ remain[r] + lost[r] < 0
    BY <1>5
  <2> QED BY <2>1, <2>2, Zenon DEF TimeDispatch, OnCount
<1>7. ASSUME NEW r \in Row, Active(r), Aged(r).state # TRIG
      PROVE  /\ Aged(r).val \in Nat /\ Aged(r).val > 0
             /\ remain'[r] + lost'[r] = Aged(r).val
  <2>1. /\ remain'[r] = IF Due(r) /\ timers[r].interval > 0 THEN timers[r].interval ELSE remain[r]
        /\ lost'[r] = IF Due(r) THEN 0 ELSE lost[r]
    BY DEF TimeDispatch
  <2>2. timers[r] \in RowType
    BY <1>1
  <2>3. CASE ~Due(r)
    <3>1. Aged(r).val = timers[r].val - total_sleep_time /\ timers[r].val > total_sleep_time
      BY <1>1, <1>2, <1>4, <1>7, <2>2, <2>3 DEF Aged, Due, RowType
    <3> QED BY <1>1, <1>4, <1>7, <2>1, <2>3, <3>1 DEF Active
  <2>4. CASE Due(r)
    <3>1. timers[r].interval > 0
      BY <1>4, <1>7, <2>2, <2>4 DEF Aged, RowType
    <3>2. timers[r].interval - (0 % timers[r].interval) = timers[r].interval
      BY <1>4, <3>1
    <3>3. Aged(r).val = timers[r].interval
      BY <1>2, <2>2, <2>4, <3>1, <3>2 DEF Aged, RowType, Due
    <3> QED BY <1>4, <2>1, <2>4, <3>1, <3>3
  <2> QED BY <2>3, <2>4
<1>8. PICK v \in 0 .. TIMEVAL_MAX :
        NextWakeup(v) /\ total_sleep_time' = v /\ wake' = [Asleep EXCEPT !.count = Timeout(v)]
  BY DEF TimeDispatch
<1>9. v > 0 /\ \A r \in Waiting : v <= Aged(r).val
  BY <1>1, <1>7, <1>8 DEF NextWakeup, Waiting
<1>10. wake'.count = v /\ ToGo' = v /\ Passed' = 0
  <2>1. wake'.count = v
    BY <1>8, <1>9 DEF Timeout, Asleep
  <2>2. ToGo' = v
    BY <1>0, <2>1 DEF ToGo
  <2> QED BY <1>8, <2>1, <2>2 DEF Passed
<1>11. PhaseInv'
  BY <1>0 DEF OnCount, PhaseInv, Idle, Quiet, hwtimer, line, port
<1>12. ClockInv'
  BY <1>0, <1>10 DEF ClockInv, Idle
<1>13. AlarmInv'
  <2>1. remain' \in [Row -> Int] /\ lost' \in [Row -> 0 .. MaxLost]
    <3>1. \A r \in Row : /\ timers[r].interval \in Int /\ remain[r] \in Int
                         /\ lost[r] \in 0 .. MaxLost /\ 0 \in 0 .. MaxLost
      BY <1>4, RowsAssumption DEF OnCount, AlarmInv
    <3> QED BY <3>1 DEF TimeDispatch
  <2>2. ASSUME NEW r \in Row, Armed(r)' PROVE OnTime(r, timers[r].val)'
    <3>1. timers'[r] = Aged(r) /\ Aged(r).state \in {ARMED, TRIG_PERIOD}
      BY <1>0, <2>2 DEF Armed
    <3>2. Active(r)
      <4>1. ~Active(r) => Aged(r) = timers[r]
        BY DEF Aged, Due
      <4> QED BY <1>4, <3>1, <4>1
    <3>3. r \in Waiting /\ remain'[r] + lost'[r] = Aged(r).val /\ Aged(r).val \in Nat
      BY <1>7, <3>1, <3>2 DEF Waiting
    <3> QED BY <1>8, <1>9, <1>10, <3>1, <3>3 DEF OnTime
  <2> QED BY <1>0, <2>1, <2>2 DEF AlarmInv
<1> QED BY <1>6, <1>11, <1>12, <1>13 DEF OnCount

LEMMA CountStep ==
  ASSUME TypeInv, ScanInv, WakeInv, CountInv, [Next]_vars
  PROVE  CountInv'
<1> SUFFICES ASSUME ~slow', ~astray' PROVE OnCount'
  BY DEF CountInv
<1>1. ~slow /\ ~astray
  <2>1. CASE Tick
    BY <2>1, Zenon DEF Tick
  <2>2. CASE \E value \in Delays, interval \in Intervals : SetAlarm(value, interval)
    <3>1. PICK value \in Delays, interval \in Intervals : SetAlarm(value, interval)
      BY <2>2
    <3>2. slow' = slow
      BY <3>1 DEF SetAlarm
    <3>3. astray => astray'
      BY <3>1, Zenon DEF SetAlarm
    <3> QED BY <3>2, <3>3
  <2>3. CASE UNCHANGED <<slow, astray>>
    BY <2>3
  <2>4. ~Tick /\ ~(\E value \in Delays, interval \in Intervals : SetAlarm(value, interval))
          => UNCHANGED <<slow, astray>>
    BY DEF Next, Holder, setTimer, UserEnters, TimerWakes, TimerEnters, DelAlarm, Returns,
           Stores, StopDisables, StopMasks, WriteCounts, StartLoads, StartEnables, TimeDispatch,
           Trigger, TimerLeaves, Interrupt, Stands, causes, vars
  <2> QED BY <2>1, <2>2, <2>3, <2>4
<1>2. OnCount /\ SetInv
  BY <1>1 DEF CountInv, WakeInv
<1>3. CASE UNCHANGED vars
  <2>1. ToGo' = ToGo /\ Shown' = Shown /\ Elapsed' = Elapsed /\ Told' = Told /\ Quiet' = Quiet
    BY <1>3 DEF ToGo, Shown, Elapsed, Count, Told, Quiet, vars, hwtimer, counter, line, periods, port, place, table
  <2>2. Passed' = Passed
    BY <1>3, <2>1 DEF Passed, vars, table
  <2>3. PhaseInv'
    BY <1>2, <1>3, <2>1 DEF OnCount, PhaseInv, Virgin, OneNotice, Counted, vars, hwtimer, counter,
                            line, periods, port, place, table, causes
  <2>4. ClockInv' /\ AlarmInv'
    BY <1>2, <1>3, <2>1, <2>2, AlarmsKept DEF OnCount, ClockInv, vars, place, table, history, causes
  <2> QED BY <1>2, <1>3, <2>3, <2>4 DEF OnCount, vars, history
<1> QED BY <1>2, <1>3, InterruptCounts, TickCounts, StandCounts, SetTimerCounts, CallCounts, TableCounts,
           SetAlarmCounts, DispatchCounts DEF Next, Holder

\* An alarm is dispatched at its value, later by the ticks during which the counter
\* stood still and by no other, if none is counted within a call and no alarm is set
\* while the counter hides what has passed or another CPU's handler runs.
THEOREM OnTheCountAlways == Spec => []OnTheCount
<1>1. Init => TypeInv /\ ScanInv /\ WakeInv /\ CountInv
  BY InitType, WakeInit, CountInit DEF Init, ScanInv, InScan
<1>2. TypeInv /\ ScanInv /\ WakeInv /\ CountInv /\ [Next]_vars
        => (TypeInv /\ ScanInv /\ WakeInv /\ CountInv)'
  BY TypeStep, ScanStep, WakeStep, CountStep
<1>3. CountInv => OnTheCount
  BY DEF CountInv, OnCount, OnTheCount
<1> QED BY <1>1, <1>2, <1>3, PTL DEF Spec
=============================================================================

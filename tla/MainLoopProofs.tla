--------------------------- MODULE MainLoopProofs ---------------------------
(***************************************************************************)
(* Theorems about MainLoop for every width of the tick counter, every set  *)
(* of tasks and timers, and with the interrupt between any two statements. *)
(***************************************************************************)
EXTENDS MainLoop, SequenceLemmas

\* The last run of a task is not in the future, so intervals are not negative.
RunsPast == \A p \in TaskPeriods : lastRun[p] <= elapsed

TypeInv == TypeOK /\ RunsPast

\* The types hold at power-on.
LEMMA InitTypes == Init => TypeInv
  <1> SUFFICES ASSUME Init PROVE TypeInv
    OBVIOUS
  <1>1. /\ TickModulus \in Nat \ {0} /\ MaxElapsed \in Nat
        /\ Period \in [Timers -> Nat \ {0}]
    BY LoopConstants
  <1>2. /\ 0 \in 0 .. TickModulus - 1 /\ 0 \in 0 .. MaxElapsed
        /\ \A t \in Timers : 0 < Period[t]
    BY <1>1
  <1>3. /\ SystemTickUpdateFlag \in BOOLEAN /\ linkUp \in BOOLEAN
        /\ timerFlags \subseteq Timers
        /\ pc \in {"init", "wait", "clear", "read", "timerTick", "pollTimers", "tasks"}
    BY DEF Init
  <1>4. /\ timer \in [Timers -> Nat] /\ ran \in [Timers -> Nat]
        /\ skipped \in [Timers -> Nat]
        /\ lastRun \in [TaskPeriods -> Nat] /\ interval \in [TaskPeriods -> Nat]
    BY DEF Init
  <1>5. (\A t \in Timers : timer[t] < Period[t]) /\ RunsPast
    BY <1>2 DEF Init, RunsPast
  <1>6. /\ SystemTick \in 0 .. TickModulus - 1 /\ localSysTick \in 0 .. TickModulus - 1
        /\ elapsed \in 0 .. MaxElapsed /\ g_TickCount_1ms \in Nat
        /\ missed \in Nat /\ overrun \in BOOLEAN
    BY <1>2 DEF Init
  <1> QED
    BY <1>3, <1>4, <1>5, <1>6 DEF TypeInv, TypeOK

\* Every step keeps them.
LEMMA NextTypes == TypeInv /\ [Next]_vars => TypeInv'
  <1> SUFFICES ASSUME TypeInv, [Next]_vars PROVE TypeInv'
    OBVIOUS
  <1>1. /\ TickModulus \in Nat \ {0} /\ MaxElapsed \in Nat
        /\ Period \in [Timers -> Nat \ {0}] /\ TaskPeriods \subseteq Nat \ {0}
    BY LoopConstants
  <1>2. CASE SystemTickIsr
    <2>1. (SystemTick + 1) % TickModulus \in 0 .. TickModulus - 1
      BY <1>1 DEF TypeInv, TypeOK
    <2>2. elapsed' \in 0 .. MaxElapsed /\ elapsed' = elapsed + 1 /\ elapsed \in Nat
      BY <1>1, <1>2 DEF SystemTickIsr, TypeInv, TypeOK
    <2>3. RunsPast'
      BY <1>2, <2>2 DEF SystemTickIsr, tasks, TypeInv, TypeOK, RunsPast
    <2>4. missed' \in Nat
      BY <1>2 DEF SystemTickIsr, TypeInv, TypeOK
    <2>5. overrun' \in BOOLEAN
      BY <1>2 DEF SystemTickIsr, TypeInv, TypeOK
    <2> QED
      BY <1>2, <2>1, <2>2, <2>3, <2>4, <2>5 DEF SystemTickIsr, lwip, tasks, TypeInv, TypeOK
  <1>3. CASE InitDone \/ Spin \/ SeeFlag \/ ClearFlag \/ ReadTick \/ UNCHANGED vars
    BY <1>3 DEF InitDone, Spin, SeeFlag, ClearFlag, ReadTick, vars, tick, lwip,
       tasks, TypeInv, TypeOK, RunsPast
  <1>4. CASE onTimerTick
    <2>1. /\ timer' \in [Timers -> Nat]
          /\ \A t \in Timers : timer'[t] < Period[t]
      BY <1>1, <1>4 DEF onTimerTick, Expired, TypeInv, TypeOK
    <2>2. timerFlags' \subseteq Timers /\ g_TickCount_1ms' \in Nat /\ pc' = "pollTimers"
      BY <1>4 DEF onTimerTick, TypeInv, TypeOK
    <2> QED
      BY <1>4, <2>1, <2>2 DEF onTimerTick, tick, tasks, TypeInv, TypeOK, RunsPast
  <1>5. CASE pollTimerFlags
    <2>1. ran' \in [Timers -> Nat] /\ skipped' \in [Timers -> Nat]
      BY <1>5 DEF pollTimerFlags, TypeInv, TypeOK
    <2>2. linkUp' \in BOOLEAN
      BY <1>5 DEF pollTimerFlags, TypeInv, TypeOK
    <2> QED
      BY <1>5, <2>1, <2>2 DEF pollTimerFlags, tick, tasks, TypeInv, TypeOK, RunsPast
  <1>6. CASE RunTasks
    <2>1. elapsed \in Nat /\ elapsed <= elapsed
      BY <1>1 DEF TypeInv, TypeOK
    <2>2. \A p \in TaskPeriods : elapsed - lastRun[p] \in Nat
      BY <2>1 DEF TypeInv, TypeOK, RunsPast
    <2>3. lastRun' \in [TaskPeriods -> Nat] /\ interval' \in [TaskPeriods -> Nat]
      BY <1>6, <2>1, <2>2 DEF RunTasks, RunDueTasks, TypeInv, TypeOK
    <2>4. RunsPast'
      BY <1>6, <2>1 DEF RunTasks, RunDueTasks, tick, TypeInv, TypeOK, RunsPast
    <2> QED
      BY <1>6, <2>3, <2>4 DEF RunTasks, tick, lwip, TypeInv, TypeOK
  <1> QED
    BY <1>2, <1>3, <1>4, <1>5, <1>6 DEF Next, Loop

\* Types: counters stay in their width, timers below their period, and no task
\* interval is negative.
THEOREM TypeCorrect == Spec => []TypeOK
  <1>1. TypeInv => TypeOK
    BY DEF TypeInv
  <1> QED
    BY <1>1, InitTypes, NextTypes, PTL DEF Spec

\* The same with the order of runs and time, as the later proofs use it.
THEOREM TypeInvariance == Spec => []TypeInv
  BY InitTypes, NextTypes, PTL DEF Spec

-----------------------------------------------------------------------------
(* Ticks. *)

\* Between clearing the flag and reading the counter a tick may come; it sets
\* the flag again, whatever value is then read.
TickInv ==
  pc \notin {"clear", "read"} /\ ~SystemTickUpdateFlag => localSysTick = SystemTick

\* No tick is forgotten by a loop that goes to wait: the flag is cleared before
\* the counter is read.
THEOREM TicksTakenUp == Spec => []NoTickForgotten
  <1>1. Init => TickInv
    BY DEF Init, TickInv
  <1>2. TypeInv /\ TickInv /\ [Next]_vars => TickInv'
    <2> SUFFICES ASSUME TypeInv, TickInv, [Next]_vars PROVE TickInv'
      OBVIOUS
    <2> USE DEF TickInv
    <2>1. CASE SystemTickIsr
      BY <2>1 DEF SystemTickIsr
    <2>2. CASE InitDone \/ Spin \/ SeeFlag \/ UNCHANGED vars
      BY <2>2 DEF InitDone, Spin, SeeFlag, vars, tick
    <2>3. CASE ClearFlag \/ ReadTick
      BY <2>3 DEF ClearFlag, ReadTick, tick
    <2>4. CASE onTimerTick \/ pollTimerFlags \/ RunTasks
      BY <2>4 DEF onTimerTick, pollTimerFlags, RunTasks, tick
    <2> QED
      BY <2>1, <2>2, <2>3, <2>4 DEF Next, Loop
  <1>3. TickInv => NoTickForgotten
    BY DEF TickInv, NoTickForgotten, CaughtUp
  <1> QED
    BY <1>1, <1>2, <1>3, TypeInvariance, PTL DEF Spec

\* The ticks announced or taken up that lwIP's clock has yet to count.
Owed ==
  (IF pc \in {"read", "timerTick"} THEN 1 ELSE 0)
    + (IF SystemTickUpdateFlag THEN 1 ELSE 0)

ClockInv ==
  /\ pc = "clear" => SystemTickUpdateFlag
  /\ g_TickCount_1ms + Owed + missed = elapsed

\* lwIP's clock is behind the interrupt by the missed ticks and the owed ones:
\* every announcement is counted once, whenever the interrupt comes.
THEOREM ClockCorrect == Spec => []ClockLosesOnlyMissedTicks
  <1>1. Init => ClockInv
    BY DEF Init, ClockInv, Owed
  <1>2. TypeInv /\ ClockInv /\ [Next]_vars => ClockInv'
    <2> SUFFICES ASSUME TypeInv, ClockInv, [Next]_vars PROVE ClockInv'
      OBVIOUS
    <2> USE DEF ClockInv, Owed
    <2>1. g_TickCount_1ms \in Nat /\ elapsed \in Int /\ missed \in Nat
      BY DEF TypeInv, TypeOK
    <2>2. CASE SystemTickIsr
      BY <2>1, <2>2 DEF SystemTickIsr, lwip
    <2>3. CASE InitDone \/ Spin \/ SeeFlag \/ UNCHANGED vars
      BY <2>1, <2>3 DEF InitDone, Spin, SeeFlag, vars, tick, lwip
    <2>4. CASE ClearFlag \/ ReadTick
      BY <2>1, <2>4 DEF ClearFlag, ReadTick, tick, lwip
    <2>5. CASE onTimerTick
      BY <2>1, <2>5 DEF onTimerTick, tick
    <2>6. CASE pollTimerFlags \/ RunTasks
      BY <2>1, <2>6 DEF pollTimerFlags, RunTasks, tick, lwip
    <2> QED
      BY <2>2, <2>3, <2>4, <2>5, <2>6 DEF Next, Loop
  <1>3. TypeInv /\ ClockInv => ClockLosesOnlyMissedTicks
    BY DEF TypeInv, TypeOK, ClockInv, Owed, CaughtUp, ClockLosesOnlyMissedTicks
  <1> QED
    BY <1>1, <1>2, <1>3, TypeInvariance, PTL DEF Spec

-----------------------------------------------------------------------------
(* Quotients, remainders and multiples, for any period. *)

LEMMA DivisionOfNext ==
  ASSUME NEW P \in Nat \ {0}, NEW g \in Nat
  PROVE  IF (g % P) + 1 >= P
         THEN (g + 1) \div P = g \div P + 1 /\ (g + 1) % P = 0
         ELSE (g + 1) \div P = g \div P /\ (g + 1) % P = (g % P) + 1
  <1> DEFINE q == g \div P
             r == g % P
  <1>1. q \in Nat /\ r \in 0 .. P - 1 /\ g = P * q + r
    BY DivisionFacts
  <1> HIDE DEF q, r
  <1>2. P * q \in Int /\ P * (q + 1) = P * q + P
    BY <1>1
  <1>3. CASE r + 1 >= P
    <2>1. g + 1 = P * (q + 1) + 0 /\ 0 \in 0 .. P - 1
      BY <1>1, <1>2, <1>3
    <2>2. g + 1 \in Nat /\ q + 1 \in Int /\ q \in Int
      BY <1>1
    <2>3. (g + 1) \div P = q + 1 /\ (g + 1) % P = 0
      BY <2>1, <2>2, DivisionUnique
    <2> QED
      BY <1>3, <2>3, Zenon DEF q, r
  <1>4. CASE ~(r + 1 >= P)
    <2>1. g + 1 = P * q + (r + 1) /\ r + 1 \in 0 .. P - 1
      BY <1>1, <1>2, <1>4
    <2>2. g + 1 \in Nat /\ q + 1 \in Int /\ q \in Int
      BY <1>1
    <2>3. (g + 1) \div P = q /\ (g + 1) % P = r + 1
      BY <2>1, <2>2, DivisionUnique
    <2> QED
      BY <1>4, <2>3, Zenon DEF q, r
  <1> QED
    BY <1>3, <1>4

LEMMA NextMultiple ==
  ASSUME NEW P \in Nat \ {0}, NEW l \in Nat, l % P = 0,
         NEW x \in Nat, l < x, x <= l + P
  PROVE  x % P = 0 <=> x = l + P
  <1> DEFINE q == l \div P
  <1>1. q \in Nat /\ l = P * q
    BY DivisionFacts
  <1> HIDE DEF q
  <1>2. P * (q + 1) = P * q + P /\ P * q \in Int
    BY <1>1
  <1>3. CASE x = l + P
    <2>1. x = P * (q + 1) + 0 /\ 0 \in 0 .. P - 1
      BY <1>1, <1>2, <1>3
    <2> QED
      BY <1>1, <1>3, <2>1, DivisionUnique
  <1>4. CASE x < l + P
    <2>1. x = P * q + (x - l) /\ x - l \in 0 .. P - 1 /\ x - l /= 0
      BY <1>1, <1>2, <1>4
    <2>2. ASSUME NEW r \in 0 .. P - 1, r = x - l PROVE x % P = r
      <3>1. x = P * q + r /\ q \in Int
        BY <1>1, <2>1, <2>2
      <3> QED
        BY <3>1, DivisionUnique
    <2> QED
      BY <1>4, <2>1, <2>2
  <1> QED
    BY <1>3, <1>4

-----------------------------------------------------------------------------
(* The timers of lwIP. *)

\* A timer counts the ticks modulo its period; every expiry was served or left
\* out, or its flag is about to be polled.
ExpiryInv ==
  /\ timerFlags /= {} => pc = "pollTimers"
  /\ \A t \in Timers :
       /\ timer[t] = g_TickCount_1ms % Period[t]
       /\ ran[t] + skipped[t] + (IF t \in timerFlags THEN 1 ELSE 0)
            = g_TickCount_1ms \div Period[t]

\* For every set of timers and all their periods, no expiry is lost or served
\* twice, and none is left for a later iteration.
THEOREM ExpiriesCorrect == Spec => []EveryExpiryPolled
  <1>1. Init => ExpiryInv
    <2>1. ASSUME NEW t \in Timers PROVE 0 % Period[t] = 0 /\ 0 \div Period[t] = 0
      <3>1. Period[t] \in Nat \ {0}
        BY LoopConstants
      <3> QED
        BY <3>1
    <2>2. 0 + 0 + 0 = 0
      OBVIOUS
    <2> QED
      BY <2>1, <2>2, Zenon DEF Init, ExpiryInv
  <1>2. TypeInv /\ ExpiryInv /\ [Next]_vars => ExpiryInv'
    <2> SUFFICES ASSUME TypeInv, ExpiryInv, [Next]_vars PROVE ExpiryInv'
      OBVIOUS
    <2>1. /\ g_TickCount_1ms \in Nat /\ timer \in [Timers -> Nat]
          /\ timerFlags \subseteq Timers
          /\ ran \in [Timers -> Nat] /\ skipped \in [Timers -> Nat]
          /\ Period \in [Timers -> Nat \ {0}]
      BY LoopConstants DEF TypeInv, TypeOK
    <2>2. CASE SystemTickIsr \/ InitDone \/ Spin \/ SeeFlag \/ ClearFlag \/ ReadTick
               \/ RunTasks \/ UNCHANGED vars
      BY <2>2 DEF SystemTickIsr, InitDone, Spin, SeeFlag, ClearFlag, ReadTick, RunTasks,
         vars, lwip, ExpiryInv
    <2>3. CASE onTimerTick
      <3>1. /\ timerFlags = {} /\ pc' = "pollTimers"
            /\ g_TickCount_1ms' = g_TickCount_1ms + 1
            /\ UNCHANGED <<ran, skipped>>
            /\ timerFlags' = {t \in Timers : Expired(t)}
        BY <2>3 DEF onTimerTick, ExpiryInv
      <3>2. ASSUME NEW t \in Timers
            PROVE  /\ timer'[t] = g_TickCount_1ms' % Period[t]
                   /\ ran'[t] + skipped'[t] + (IF t \in timerFlags' THEN 1 ELSE 0)
                        = g_TickCount_1ms' \div Period[t]
        <4> DEFINE P == Period[t]
                   g == g_TickCount_1ms
        <4>1. /\ P \in Nat \ {0} /\ g \in Nat /\ ran[t] \in Nat /\ skipped[t] \in Nat
              /\ timer[t] = g % P /\ ran[t] + skipped[t] = g \div P
          BY <2>1, <3>1 DEF ExpiryInv
        <4>2. /\ timer'[t] = IF timer[t] + 1 >= P THEN 0 ELSE timer[t] + 1
              /\ t \in timerFlags' <=> timer[t] + 1 >= P
          BY <2>3, <3>1 DEF onTimerTick, Expired
        <4>3. IF (g % P) + 1 >= P
              THEN (g + 1) \div P = g \div P + 1 /\ (g + 1) % P = 0
              ELSE (g + 1) \div P = g \div P /\ (g + 1) % P = (g % P) + 1
          BY <4>1, DivisionOfNext
        <4>4. g_TickCount_1ms' = g + 1
          BY <3>1
        <4> HIDE DEF P, g
        <4>5. /\ timer'[t] = (g + 1) % P
              /\ ran[t] + skipped[t] + (IF t \in timerFlags' THEN 1 ELSE 0) = (g + 1) \div P
          BY <4>1, <4>2, <4>3
        <4> QED
          BY <3>1, <4>4, <4>5 DEF P
      <3> QED
        BY <3>1, <3>2 DEF ExpiryInv
    <2>4. CASE pollTimerFlags
      <3>1. /\ timerFlags' = {}
            /\ UNCHANGED <<g_TickCount_1ms, timer>>
            /\ \A t \in Timers :
                 ran'[t] + skipped'[t]
                   = ran[t] + skipped[t] + (IF t \in timerFlags THEN 1 ELSE 0)
        BY <2>1, <2>4 DEF pollTimerFlags, Served
      <3>2. \A t \in Timers : ran'[t] + skipped'[t] = g_TickCount_1ms \div Period[t]
        BY <3>1 DEF ExpiryInv
      <3>3. \A t \in Timers : ran'[t] + skipped'[t] + 0 = ran'[t] + skipped'[t]
        BY <2>1, <2>4 DEF pollTimerFlags
      <3> QED
        BY <3>1, <3>2, <3>3 DEF ExpiryInv
    <2> QED
      BY <2>2, <2>3, <2>4 DEF Next, Loop
  <1>3. TypeInv /\ ExpiryInv => EveryExpiryPolled
    BY DEF TypeInv, TypeOK, ExpiryInv, EveryExpiryPolled
  <1> QED
    BY <1>1, <1>2, <1>3, TypeInvariance, PTL DEF Spec

-----------------------------------------------------------------------------
(* The tasks. *)

\* The loop has a tick to work on.
TickTaken   == pc \in {"clear", "read", "timerTick", "pollTimers", "tasks"}
TickPending == TickTaken \/ (pc /= "init" /\ SystemTickUpdateFlag)

\* The last run of task p was at a multiple of its period, and no later multiple
\* has gone by without a run.
RunsInTime(p) ==
  /\ interval[p] \in {0, p}
  /\ lastRun[p] > 0 =>
       /\ pc /= "init"
       /\ lastRun[p] % p = 0
       /\ IF TickPending THEN lastRun[p] < elapsed /\ elapsed <= lastRun[p] + p
                         ELSE elapsed < lastRun[p] + p

TaskInv ==
  /\ elapsed < TickModulus => SystemTick = elapsed
  /\ ~overrun /\ elapsed < TickModulus =>
       /\ pc = "clear" => SystemTickUpdateFlag
       /\ TickTaken /\ pc /= "clear" => ~SystemTickUpdateFlag
       /\ pc \in {"timerTick", "pollTimers", "tasks"} => localSysTick = elapsed
       /\ \A p \in TaskPeriods : RunsInTime(p)

\* For every set of tasks, as long as the loop keeps up and the counter has not
\* wrapped, the runs of a task are exactly its period apart.
THEOREM TasksCorrect == Spec => []TasksOnTime
  <1>1. Init => TaskInv
    BY DEF Init, TaskInv, TickTaken, RunsInTime
  <1>2. TypeInv /\ TaskInv /\ [Next]_vars => TaskInv'
    <2> SUFFICES ASSUME TypeInv, TaskInv, [Next]_vars PROVE TaskInv'
      OBVIOUS
    <2>1. /\ elapsed \in Nat /\ TickModulus \in Nat \ {0}
          /\ TaskPeriods \subseteq Nat \ {0}
          /\ lastRun \in [TaskPeriods -> Nat] /\ interval \in [TaskPeriods -> Nat]
          /\ \A p \in TaskPeriods : lastRun[p] <= elapsed
          /\ overrun \in BOOLEAN /\ SystemTickUpdateFlag \in BOOLEAN
      BY LoopConstants DEF TypeInv, TypeOK, RunsPast
    <2>2. CASE SystemTickIsr
      <3>1. elapsed' = elapsed + 1 /\ SystemTickUpdateFlag' /\ UNCHANGED <<pc, localSysTick, tasks>>
        BY <2>2 DEF SystemTickIsr
      <3>2. elapsed' < TickModulus => elapsed < TickModulus /\ SystemTick' = elapsed'
        <4> SUFFICES ASSUME elapsed + 1 < TickModulus
                     PROVE  elapsed < TickModulus /\ SystemTick' = elapsed + 1
          BY <3>1
        <4>1. SystemTick = elapsed
          BY <2>1 DEF TaskInv
        <4>2. (elapsed + 1) % TickModulus = elapsed + 1
          BY <2>1
        <4> QED
          BY <2>1, <2>2, <4>1, <4>2 DEF SystemTickIsr
      <3>3. ASSUME ~overrun', elapsed' < TickModulus
            PROVE  /\ ~overrun /\ ~TickTaken
                   /\ pc = "init" \/ ~TickPending
        BY <2>2, <3>3 DEF SystemTickIsr, CaughtUp, TickTaken, TickPending
      <3>4. ASSUME ~overrun', elapsed' < TickModulus, NEW p \in TaskPeriods
            PROVE  RunsInTime(p)'
        <4>1. RunsInTime(p)
          BY <3>2, <3>3, <3>4 DEF TaskInv
        <4>2. p \in Nat /\ lastRun[p] \in Nat /\ lastRun[p] <= elapsed
          BY <2>1
        <4> QED
          BY <2>1, <3>1, <3>3, <3>4, <4>1, <4>2 DEF RunsInTime, TickPending, TickTaken, tasks
      <3> QED
        BY <3>1, <3>2, <3>3, <3>4 DEF TaskInv, TickTaken
    <2>3. CASE InitDone \/ Spin \/ SeeFlag \/ ClearFlag \/ ReadTick \/ onTimerTick
               \/ pollTimerFlags \/ UNCHANGED vars
      <3>1. UNCHANGED <<elapsed, SystemTick, overrun, lastRun, interval>>
        BY <2>3 DEF InitDone, Spin, SeeFlag, ClearFlag, ReadTick, onTimerTick,
           pollTimerFlags, vars, tick, tasks
      <3>2. ASSUME ~overrun, elapsed < TickModulus
            PROVE  /\ pc' = "clear" => SystemTickUpdateFlag'
                   /\ TickTaken' /\ pc' /= "clear" => ~SystemTickUpdateFlag'
                   /\ pc' \in {"timerTick", "pollTimers", "tasks"} => localSysTick' = elapsed
                   /\ pc /= "init" => pc' /= "init" /\ (TickPending' <=> TickPending)
        BY <2>1, <2>3, <3>2 DEF InitDone, Spin, SeeFlag, ClearFlag, ReadTick, onTimerTick,
           pollTimerFlags, vars, tick, TaskInv, TickTaken, TickPending
      <3>3. ASSUME ~overrun, elapsed < TickModulus, NEW p \in TaskPeriods
            PROVE  RunsInTime(p)'
        <4>1. RunsInTime(p)
          BY <3>3 DEF TaskInv
        <4>2. pc /= "init" => pc' /= "init" /\ (TickPending' <=> TickPending)
          BY <3>2, <3>3
        <4> QED
          BY <3>1, <4>1, <4>2 DEF RunsInTime
      <3> QED
        BY <3>1, <3>2, <3>3 DEF TaskInv
    <2>4. CASE RunTasks
      <3>1. /\ UNCHANGED <<elapsed, SystemTick, SystemTickUpdateFlag, overrun, localSysTick>>
            /\ pc = "tasks" /\ pc' = "wait" /\ TickTaken /\ TickPending
        BY <2>4 DEF RunTasks, tick, TickTaken, TickPending
      <3>2. ASSUME ~overrun, elapsed < TickModulus
            PROVE  ~TickTaken' /\ ~TickPending' /\ localSysTick = elapsed
        BY <3>1, <3>2 DEF TaskInv, TickTaken, TickPending
      <3>3. ASSUME ~overrun, elapsed < TickModulus, NEW p \in TaskPeriods
            PROVE  RunsInTime(p)'
        <4>1. RunsInTime(p) /\ localSysTick = elapsed
          BY <3>2, <3>3 DEF TaskInv
        <4>2. p \in Nat \ {0} /\ lastRun[p] \in Nat /\ interval[p] \in {0, p}
          BY <2>1, <4>1 DEF RunsInTime
        <4>3. lastRun[p] > 0 => /\ lastRun[p] % p = 0
                                /\ lastRun[p] < elapsed /\ elapsed <= lastRun[p] + p
          BY <3>1, <4>1 DEF RunsInTime
        <4>4. lastRun[p] > 0 => (elapsed % p = 0 <=> elapsed = lastRun[p] + p)
          BY <2>1, <4>2, <4>3, NextMultiple
        <4>5. /\ lastRun'[p] = IF elapsed % p = 0 THEN elapsed ELSE lastRun[p]
              /\ interval'[p] = IF elapsed % p = 0 /\ lastRun[p] > 0
                                THEN elapsed - lastRun[p] ELSE interval[p]
          BY <2>4, <4>1 DEF RunTasks, RunDueTasks, Due
        <4>6. CASE elapsed % p = 0
          <5>1. lastRun'[p] = elapsed /\ interval'[p] \in {0, p}
            BY <2>1, <4>2, <4>4, <4>5, <4>6
          <5> QED
            BY <2>1, <3>1, <3>2, <3>3, <4>2, <4>6, <5>1 DEF RunsInTime
        <4>7. CASE elapsed % p /= 0
          <5>1. lastRun'[p] = lastRun[p] /\ interval'[p] = interval[p]
            BY <4>5, <4>7
          <5>2. lastRun[p] > 0 => elapsed < lastRun[p] + p
            BY <2>1, <4>2, <4>3, <4>4, <4>7
          <5> QED
            BY <3>1, <3>2, <3>3, <4>2, <4>3, <5>1, <5>2 DEF RunsInTime
        <4> QED
          BY <4>6, <4>7
      <3> QED
        BY <3>1, <3>2, <3>3 DEF TaskInv
    <2> QED
      BY <2>2, <2>3, <2>4 DEF Next, Loop
  <1>3. TypeInv /\ TaskInv => TasksOnTime
    <2> SUFFICES ASSUME TypeInv, TaskInv, ~overrun, elapsed < TickModulus,
                        NEW p \in TaskPeriods
                 PROVE  /\ interval[p] \in {0, p}
                        /\ CaughtUp /\ lastRun[p] > 0 => elapsed - lastRun[p] < p
      BY DEF TasksOnTime
    <2>1. RunsInTime(p)
      BY DEF TaskInv
    <2>2. p \in Nat /\ lastRun[p] \in Nat /\ elapsed \in Nat
      BY LoopConstants DEF TypeInv, TypeOK
    <2> QED
      BY <2>1, <2>2 DEF RunsInTime, CaughtUp, TickPending, TickTaken
  <1> QED
    BY <1>1, <1>2, <1>3, TypeInvariance, PTL DEF Spec
=============================================================================

------------------------------ MODULE MainLoop ------------------------------
(***************************************************************************)
(* The cyclic executive of the demo: core0_main waits for the millisecond  *)
(* tick that SystemTickIsr announces through SystemTickUpdateFlag, advances *)
(* and polls the lwIP timers, and runs the 10 ms and 1000 ms tasks when    *)
(* the tick it read is a multiple of their period.  The interrupt may come *)
(* between any two steps of the loop.                                      *)
(***************************************************************************)
EXTENDS Integers, FiniteSets

CONSTANTS
  TickModulus,  \* SystemTick counts modulo this, 2^32 in the code
  TaskPeriods,  \* periods of the tasks, {10, 1000} in the code
  Timers,       \* lwIP timers
  LinkTimer,    \* the one that polls the link of the PHY
  Period,       \* their periods in ticks
  MaxElapsed    \* bound: ticks considered

ASSUME LoopConstants ==
  /\ TickModulus \in Nat \ {0}
  /\ TaskPeriods \subseteq Nat \ {0}
  /\ LinkTimer \in Timers
  /\ Period \in [Timers -> Nat \ {0}]
  /\ MaxElapsed \in Nat

VARIABLES
  SystemTick, SystemTickUpdateFlag,
  pc,                \* the next statement of core0_main
  localSysTick,
  g_TickCount_1ms,   \* what sys_now returns
  timer, timerFlags, \* g_Lwip.timer and g_Lwip.timerFlags
  linkUp,            \* NETIF_FLAG_LINK_UP
  elapsed,           \* history: milliseconds since the timer was started
  missed,            \* history: ticks that found the flag of an earlier one
  overrun,           \* history: a tick came before the iteration of the one
                     \* before it was over
  lastRun, interval, \* history, per task: elapsed at its last run, or 0, and
                     \* the time between its last two runs, or 0
  ran, skipped       \* history, per lwIP timer: calls made, calls left out

tick    == <<SystemTick, SystemTickUpdateFlag, elapsed, missed, overrun>>
lwip    == <<g_TickCount_1ms, timer, timerFlags, linkUp, ran, skipped>>
tasks   == <<lastRun, interval>>
vars    == <<tick, pc, localSysTick, lwip, tasks>>

TypeOK ==
  /\ SystemTick \in 0 .. TickModulus - 1 /\ localSysTick \in 0 .. TickModulus - 1
  /\ SystemTickUpdateFlag \in BOOLEAN /\ linkUp \in BOOLEAN
  /\ pc \in {"init", "wait", "clear", "read", "timerTick", "pollTimers", "tasks"}
  /\ elapsed \in 0 .. MaxElapsed
  /\ missed \in Nat /\ overrun \in BOOLEAN
  /\ g_TickCount_1ms \in Nat
  /\ timer \in [Timers -> Nat] /\ \A t \in Timers : timer[t] < Period[t]
  /\ timerFlags \subseteq Timers
  /\ ran \in [Timers -> Nat] /\ skipped \in [Timers -> Nat]
  /\ lastRun \in [TaskPeriods -> Nat] /\ interval \in [TaskPeriods -> Nat]

-----------------------------------------------------------------------------
\* localSysTick has no value yet and is not read before it has one.
\* EcuM_Init has just started the timer; lwIP, the echo server and the status
\* report are still to be initialised.
Init ==
  /\ SystemTick = 0 /\ SystemTickUpdateFlag = FALSE
  /\ pc = "init"
  /\ localSysTick = 0
  /\ g_TickCount_1ms = 0
  /\ timer = [t \in Timers |-> 0] /\ timerFlags = {}
  /\ linkUp = FALSE
  /\ elapsed = 0 /\ missed = 0 /\ overrun = FALSE
  /\ lastRun = [p \in TaskPeriods |-> 0] /\ interval = [p \in TaskPeriods |-> 0]
  /\ ran = [t \in Timers |-> 0] /\ skipped = [t \in Timers |-> 0]

\* Where the loop stands if it is done with all ticks so far.
CaughtUp == pc = "wait" /\ ~SystemTickUpdateFlag

\* The timer notification, every millisecond.
SystemTickIsr ==
  /\ elapsed < MaxElapsed
  /\ SystemTick' = (SystemTick + 1) % TickModulus
  /\ SystemTickUpdateFlag' = TRUE
  /\ elapsed' = elapsed + 1
  /\ missed' = IF SystemTickUpdateFlag THEN missed + 1 ELSE missed
  /\ overrun' = (overrun \/ ~(CaughtUp \/ pc = "init"))
  /\ UNCHANGED <<pc, localSysTick, lwip, tasks>>

-----------------------------------------------------------------------------
(* core0_main *)

InitDone ==
  /\ pc = "init" /\ pc' = "wait"
  /\ UNCHANGED <<tick, localSysTick, lwip, tasks>>

Spin == pc = "wait" /\ ~SystemTickUpdateFlag /\ UNCHANGED vars

\* Mutant: the loop waits for the counter to change instead of the flag.
SeeFlag_ComparesTick ==
  /\ pc = "wait" /\ SystemTick /= localSysTick
  /\ pc' = "clear"
  /\ UNCHANGED <<tick, localSysTick, lwip, tasks>>

SeeFlag ==
  /\ pc = "wait" /\ SystemTickUpdateFlag
  /\ pc' = "clear"
  /\ UNCHANGED <<tick, localSysTick, lwip, tasks>>

ClearFlag ==
  /\ pc = "clear" /\ pc' = "read"
  /\ SystemTickUpdateFlag' = FALSE
  /\ UNCHANGED <<SystemTick, elapsed, missed, overrun, localSysTick, lwip, tasks>>

\* Mutant: the flag is cleared once more with the tick read.
ReadTick_ClearsFlag ==
  /\ pc = "read" /\ pc' = "timerTick"
  /\ localSysTick' = SystemTick
  /\ SystemTickUpdateFlag' = FALSE
  /\ UNCHANGED <<SystemTick, elapsed, missed, overrun, lwip, tasks>>

ReadTick ==
  /\ pc = "read" /\ pc' = "timerTick"
  /\ localSysTick' = SystemTick
  /\ UNCHANGED <<tick, lwip, tasks>>

-----------------------------------------------------------------------------
(* The lwIP port. *)

\* Mutant: one tick too many.
Expired_Late(t) == timer[t] + 1 > Period[t]

\* Ifx_Lwip_timerIncr
Expired(t) == timer[t] + 1 >= Period[t]

onTimerTick ==
  /\ pc = "timerTick" /\ pc' = "pollTimers"
  /\ g_TickCount_1ms' = g_TickCount_1ms + 1
  /\ timer' = [t \in Timers |-> IF Expired(t) THEN 0 ELSE timer[t] + 1]
  /\ timerFlags' = timerFlags \cup {t \in Timers : Expired(t)}
  /\ UNCHANGED <<tick, localSysTick, linkUp, ran, skipped, tasks>>

\* The timers of TCP and ARP run only while the link is up; the link is looked
\* at last.
Served == {t \in timerFlags : t = LinkTimer \/ linkUp}

pollTimerFlags ==
  /\ pc = "pollTimers" /\ pc' = "tasks"
  /\ timerFlags' = {}
  /\ IF LinkTimer \in timerFlags THEN linkUp' \in BOOLEAN ELSE UNCHANGED linkUp
  /\ ran' = [t \in Timers |-> IF t \in Served THEN ran[t] + 1 ELSE ran[t]]
  /\ skipped' = [t \in Timers |->
                   IF t \in timerFlags \ Served THEN skipped[t] + 1 ELSE skipped[t]]
  /\ UNCHANGED <<tick, localSysTick, g_TickCount_1ms, timer, tasks>>

-----------------------------------------------------------------------------
\* Mutant: the wrong divisor.
Due_Late(p) == localSysTick % (p + 1) = 0

Due(p) == localSysTick % p = 0

\* The 10 ms and 1000 ms tasks.
RunDueTasks ==
  /\ lastRun'  = [p \in TaskPeriods |-> IF Due(p) THEN elapsed ELSE lastRun[p]]
  /\ interval' = [p \in TaskPeriods |->
       IF Due(p) /\ lastRun[p] > 0 THEN elapsed - lastRun[p] ELSE interval[p]]

\* Mutant: the flag is cleared before waiting for it.
RunTasks_ClearsFlag ==
  /\ pc = "tasks" /\ pc' = "wait"
  /\ RunDueTasks
  /\ SystemTickUpdateFlag' = FALSE
  /\ UNCHANGED <<SystemTick, elapsed, missed, overrun, localSysTick, lwip>>

\* pollReceiveFlags (modelled in EthRx) and the tasks.
RunTasks ==
  /\ pc = "tasks" /\ pc' = "wait"
  /\ RunDueTasks
  /\ UNCHANGED <<tick, localSysTick, lwip>>

Loop ==
  \/ InitDone \/ Spin \/ SeeFlag \/ ClearFlag \/ ReadTick
  \/ onTimerTick \/ pollTimerFlags \/ RunTasks

Next == Loop \/ SystemTickIsr

Spec == Init /\ [][Next]_vars

\* The core goes on; nothing is assumed of the timer.
FairSpec == Spec /\ WF_vars(Loop)

-----------------------------------------------------------------------------
(* Properties. *)

\* No tick is forgotten: when the loop waits for the flag, it has seen the
\* last tick.  The flag is cleared before the tick is read for this reason.
NoTickForgotten == CaughtUp => localSysTick = SystemTick

\* "Returns the current time in milliseconds": once the loop has caught up,
\* sys_now is behind the time by the ticks that came while the flag of an
\* earlier one was still raised, and by no others: a tick that comes between
\* clearing the flag and reading the counter is not counted twice.
ClockLosesOnlyMissedTicks == CaughtUp => g_TickCount_1ms + missed = elapsed

\* Every expiry of an lwIP timer is served in the iteration it happens in, or
\* left out because the link is down: none is lost or served twice.
EveryExpiryPolled ==
  pc \in {"wait", "tasks"} =>
    \A t \in Timers : ran[t] + skipped[t] = g_TickCount_1ms \div Period[t]

\* Every tick is taken up by the loop.
TickTakenUp == SystemTickUpdateFlag ~> ~SystemTickUpdateFlag

\* "10ms rbl", "1000 rbl": the runs of a task are its period apart, and a loop
\* that has caught up has left none out, until an iteration has taken longer
\* than a tick or the counter has wrapped.
TasksOnTime ==
  ~overrun /\ elapsed < TickModulus =>
    \A p \in TaskPeriods :
      /\ interval[p] \in {0, p}
      /\ CaughtUp /\ lastRun[p] > 0 => elapsed - lastRun[p] < p
=============================================================================

------------------------------ MODULE SoftTimer ------------------------------
(***************************************************************************)
(* The millisecond time base and software timer list of src/time.c, as the *)
(* bare-metal program of src/main.c uses them.                             *)
(*                                                                         *)
(* SysTick_Handler() counts milliseconds in the 32-bit msAddition, which   *)
(* wraps; here the counter is TimeWidth bits wide.  main() starts SysTick  *)
(* (time_init) before init_lwip() puts lwIP's timers on the list with      *)
(* stmr_add(), and then loops: service_traffic(), whose lwIP output may    *)
(* wait in linkoutput_fn() with msleep(), and stmr(), which runs every     *)
(* active timer whose period has elapsed and re-stamps it with mtime().    *)
(* The SysTick interrupt may fire between any two steps of the main loop.  *)
(*                                                                         *)
(* Ghost counters record the real time since each stamp, saturating at the *)
(* counter's range, so that an elapsed time computed modulo the counter's  *)
(* width can be compared with the time that really passed.                 *)
(***************************************************************************)
EXTENDS Integers, Sequences, FiniteSets, SequencesExt

CONSTANTS
  TimeWidth,      \* bits of msAddition (32 in the code)
  Timers,         \* the timers TIMER_PROC defines and init_lwip() adds
  TimerPeriod,    \* their period in ms (TIMER_PROC's second argument)
  SleepMs,        \* the arguments msleep() is called with
  LoopBound,      \* most SysTicks in one main-loop pass outside msleep()
  ListNodes,      \* timers the list operations are checked on
  NULL

Modulus == 2 ^ TimeWidth

ASSUME /\ TimeWidth \in Nat \ {0}
       /\ TimerPeriod \in [Timers -> 1..(Modulus - 1)]
       /\ SleepMs \subseteq 1..(Modulus - 1)
       /\ LoopBound \in Nat \ {0}
       /\ Timers \subseteq ListNodes /\ NULL \notin ListNodes

VARIABLES
  msAddition,     \* the SysTick count
  stmrs,          \* the timer list, head first
  event,          \* each timer's stamp (t->event); TIMER_PROC starts it at 0
  mainPc,         \* "init", "traffic", "sleep", "scan", "proc", "stamp"
  time,           \* stmr()'s reading of mtime() for this pass
  cursor,         \* index in stmrs of the next timer stmr() looks at
  current,        \* the timer whose proc is running
  sleepT,         \* msleep()'s first reading t
  sleepMs,        \* msleep()'s argument
  sinceEvent,     \* ghost: ms since each timer's stamp (saturating)
  sinceSleep,     \* ghost: ms since msleep() read t (saturating)
  loopTicks       \* ghost: SysTicks since stmr() last began

vars == <<msAddition, stmrs, event, mainPc, time, cursor, current, sleepT,
          sleepMs, sinceEvent, sinceSleep, loopTicks>>

\* uint32_t subtraction and addition at the counter's width.
Minus(a, b) == (a - b) % Modulus
Plus(a, b) == (a + b) % Modulus

Saturate(n) == IF n < Modulus THEN n ELSE Modulus

-----------------------------------------------------------------------------
(* SysTick_Handler(): msAddition++ (+1 ms), wrapping.  Time passes only   *)
(* within the bound on a main-loop pass, or in msleep() until it may end   *)
(* (it polls mtime() without pause).                                       *)
SysTick_Handler ==
  /\ \/ loopTicks < LoopBound
     \/ mainPc = "sleep" /\ sinceSleep <= sleepMs
  /\ msAddition' = Plus(msAddition, 1)
  /\ sinceEvent' = [t \in Timers |-> Saturate(sinceEvent[t] + 1)]
  /\ sinceSleep' = Saturate(sinceSleep + 1)
  /\ loopTicks' = loopTicks + 1
  /\ UNCHANGED <<stmrs, event, mainPc, time, cursor, current, sleepT, sleepMs>>

(* mtime(): msAddition read until no SysTick wrap happened in between,     *)
(* which yields the count at one instant.                                  *)
mtime == msAddition

(* Seeded fault: init_lwip() adds a timer that is already on the list.     *)
stmr_addAgain ==
  /\ mainPc = "init"
  /\ \E t \in Timers : stmrs' = <<t>> \o stmrs
  /\ UNCHANGED <<msAddition, event, mainPc, time, cursor, current, sleepT,
                 sleepMs, sinceEvent, sinceSleep, loopTicks>>

(* init_lwip(): stmr_add(tmr) links the timer in at the head of the list.  *)
stmr_add ==
  /\ mainPc = "init"
  /\ \E t \in Timers \ Range(stmrs) : stmrs' = <<t>> \o stmrs
  /\ UNCHANGED <<msAddition, event, mainPc, time, cursor, current, sleepT,
                 sleepMs, sinceEvent, sinceSleep, loopTicks>>

InitDone ==
  /\ mainPc = "init" /\ Range(stmrs) = Timers
  /\ mainPc' = "traffic"
  /\ UNCHANGED <<msAddition, stmrs, event, time, cursor, current, sleepT,
                 sleepMs, sinceEvent, sinceSleep, loopTicks>>

-----------------------------------------------------------------------------
(* service_traffic() either returns, or lwIP output polls                 *)
(* usb_ecm_can_xmit() in linkoutput_fn() and calls msleep(ms), whose       *)
(* first mtime() is t.  A pass of the main loop lasts at most LoopBound ms *)
(* besides the sleep it is in: a new sleep starts only within that bound.  *)
ServiceTraffic ==
  /\ mainPc = "traffic"
  /\ \/ /\ mainPc' = "scan0"
        /\ UNCHANGED <<sleepT, sleepMs, sinceSleep>>
     \/ \E ms \in SleepMs :
          /\ loopTicks < LoopBound
          /\ mainPc' = "sleep"
          /\ sleepT' = mtime
          /\ sleepMs' = ms
          /\ sinceSleep' = 0
  /\ UNCHANGED <<msAddition, stmrs, event, time, cursor, current, sinceEvent,
                 loopTicks>>

(* Seeded fault: msleep() compares against an absolute end time.          *)
MsleepAbsolute ==
  /\ mainPc = "sleep"
  /\ LET t1 == mtime IN t1 >= Plus(sleepT, sleepMs)
  /\ mainPc' = "traffic"
  /\ UNCHANGED <<msAddition, stmrs, event, time, cursor, current, sleepT,
                 sleepMs, sinceEvent, sinceSleep, loopTicks>>

(* msleep()'s loop returns once t1 - t >= ms, or once t1 < t (the count    *)
(* wrapped).                                                               *)
msleep ==
  /\ mainPc = "sleep"
  /\ LET t1 == mtime
     IN  Minus(t1, sleepT) >= sleepMs \/ t1 < sleepT
  /\ mainPc' = "traffic"
  /\ UNCHANGED <<msAddition, stmrs, event, time, cursor, current, sleepT,
                 sleepMs, sinceEvent, sinceSleep, loopTicks>>

-----------------------------------------------------------------------------
(* stmr(): time = mtime(), then walk the list from its head.              *)
StmrBegin ==
  /\ mainPc = "scan0"
  /\ time' = mtime
  /\ cursor' = 1
  /\ loopTicks' = 0
  /\ mainPc' = "scan"
  /\ UNCHANGED <<msAddition, stmrs, event, current, sleepT, sleepMs,
                 sinceEvent, sinceSleep>>

(* Seeded faults in the walk: the end of the period is computed as an     *)
(* absolute time; the STMR_ACTIVE test is inverted.                        *)
StmrScanAbsolute ==
  /\ mainPc = "scan"
  /\ IF cursor > Len(stmrs)
       THEN /\ mainPc' = "traffic"
            /\ UNCHANGED <<cursor, current>>
       ELSE LET t == stmrs[cursor]
            IN  /\ cursor' = cursor + 1
                /\ IF time < Plus(event[t], TimerPeriod[t])
                     THEN UNCHANGED <<mainPc, current>>
                     ELSE /\ mainPc' = "proc"
                          /\ current' = t
  /\ UNCHANGED <<msAddition, stmrs, event, time, sleepT, sleepMs, sinceEvent,
                 sinceSleep, loopTicks>>

StmrScanInactive ==
  /\ mainPc = "scan"
  /\ IF cursor > Len(stmrs)
       THEN /\ mainPc' = "traffic"
            /\ UNCHANGED <<cursor, current>>
       ELSE LET t == stmrs[cursor]
            IN  /\ cursor' = cursor + 1
                /\ UNCHANGED <<mainPc, current>>
  /\ UNCHANGED <<msAddition, stmrs, event, time, sleepT, sleepMs, sinceEvent,
                 sinceSleep, loopTicks>>

(* One timer of the walk: tmr = tmr->next is read first; an inactive      *)
(* timer, or one with time - t->event < t->period, is skipped; otherwise   *)
(* its proc is called.  The end of the list ends stmr().  Every timer the  *)
(* program defines is active (TIMER_PROC's flags argument is 1).           *)
StmrScan ==
  /\ mainPc = "scan"
  /\ IF cursor > Len(stmrs)
       THEN /\ mainPc' = "traffic"
            /\ UNCHANGED <<cursor, current>>
       ELSE LET t == stmrs[cursor]
            IN  /\ cursor' = cursor + 1
                /\ IF Minus(time, event[t]) < TimerPeriod[t]
                     THEN UNCHANGED <<mainPc, current>>
                     ELSE /\ mainPc' = "proc"
                          /\ current' = t
  /\ UNCHANGED <<msAddition, stmrs, event, time, sleepT, sleepMs, sinceEvent,
                 sinceSleep, loopTicks>>

(* t->proc(t): tcp_timer's proc runs tcp_tmr(); SysTicks may fire while   *)
(* it runs.                                                                *)
TimerProc ==
  /\ mainPc = "proc"
  /\ mainPc' = "stamp"
  /\ UNCHANGED <<msAddition, stmrs, event, time, cursor, current, sleepT,
                 sleepMs, sinceEvent, sinceSleep, loopTicks>>

(* t->event = mtime() after the proc returns.                             *)
StmrStamp ==
  /\ mainPc = "stamp"
  /\ event' = [event EXCEPT ![current] = mtime]
  /\ sinceEvent' = [sinceEvent EXCEPT ![current] = 0]
  /\ mainPc' = "scan"
  /\ UNCHANGED <<msAddition, stmrs, time, cursor, current, sleepT, sleepMs,
                 sinceSleep, loopTicks>>

-----------------------------------------------------------------------------
(* The list operations of time.c on the pointers themselves: a list is     *)
(* stmrs (head) with each timer's next field; NULL ends it.  The program   *)
(* only ever calls stmr_add(); stmr_init() and stmr_free() are checked on  *)
(* every list of ListNodes.                                                *)

\* stmr_add(tmr): tmr->next = stmrs; stmrs = tmr.
StmrAddLinks(L, tmr) == [head |-> tmr, next |-> [L.next EXCEPT ![tmr] = L.head]]

(* stmr_init(tmr): clears the timer's fields and then links it in at the   *)
(* head, as stmr_add() does.                                               *)
StmrInitLinks(L, tmr) == StmrAddLinks(L, tmr)

(* stmr_free()'s walk: t runs along the list until t->next is tmr, which   *)
(* is unlinked (t->next = tmr->next; tmr->next = NULL), or until           *)
(* t->next is NULL.                                                        *)
RECURSIVE StmrFreeWalk(_, _, _)
StmrFreeWalk(L, t, tmr) ==
  IF L.next[t] = NULL THEN L
  ELSE IF L.next[t] = tmr
       THEN [L EXCEPT !.next = [L.next EXCEPT ![t] = L.next[tmr], ![tmr] = NULL]]
       ELSE StmrFreeWalk(L, L.next[t], tmr)

(* Seeded fault: stmr_free() without its test for tmr at the head.        *)
StmrFreeNoHead(L, tmr) ==
  IF L.head = NULL THEN L ELSE StmrFreeWalk(L, L.head, tmr)

(* stmr_free(tmr): nothing on an empty list; the head is unlinked by       *)
(* moving stmrs; any other timer by the walk.                              *)
StmrFree(L, tmr) ==
  IF L.head = NULL THEN L
  ELSE IF tmr = L.head
       THEN [head |-> L.next[tmr], next |-> [L.next EXCEPT ![tmr] = NULL]]
       ELSE StmrFreeWalk(L, L.head, tmr)

\* The timers met following next from the head, at most n of them.
RECURSIVE Follow(_, _, _)
Follow(L, t, n) == IF t = NULL \/ n = 0 THEN <<>> ELSE <<t>> \o Follow(L, L.next[t], n - 1)
ListSeq(L) == Follow(L, L.head, Cardinality(ListNodes) + 1)

\* Reference: the list whose order is s, every other timer unlinked.
LinksOf(s) ==
  [head |-> IF s = <<>> THEN NULL ELSE s[1],
   next |-> [n \in ListNodes |->
               IF \E i \in 1..(Len(s) - 1) : s[i] = n
               THEN s[(CHOOSE i \in 1..(Len(s) - 1) : s[i] = n) + 1]
               ELSE NULL]]

\* Every order of every set of distinct timers.
TimerOrders == UNION {{s \in [1..k -> ListNodes] : IsInjective(s)} : k \in 0..Cardinality(ListNodes)}

-----------------------------------------------------------------------------
Init ==
  /\ msAddition = 0
  /\ stmrs = <<>>
  /\ event = [t \in Timers |-> 0]
  /\ mainPc = "init"
  /\ time = 0
  /\ cursor = 1
  /\ current = CHOOSE t \in Timers : TRUE
  /\ sleepT = 0
  /\ sleepMs = CHOOSE ms \in SleepMs : TRUE
  /\ sinceEvent = [t \in Timers |-> 0]
  /\ sinceSleep = 0
  /\ loopTicks = 0

Next ==
  \/ SysTick_Handler
  \/ stmr_add
  \/ InitDone
  \/ ServiceTraffic
  \/ msleep
  \/ StmrBegin
  \/ StmrScan
  \/ TimerProc
  \/ StmrStamp

(* SysTick is a hardware interrupt; the main loop never blocks except in   *)
(* msleep(), which SysTick ends.                                           *)
Fairness ==
  /\ WF_vars(SysTick_Handler)
  /\ WF_vars(stmr_add) /\ WF_vars(InitDone)
  /\ WF_vars(ServiceTraffic) /\ WF_vars(msleep)
  /\ WF_vars(StmrBegin) /\ WF_vars(StmrScan)
  /\ WF_vars(TimerProc) /\ WF_vars(StmrStamp)

Spec == Init /\ [][Next]_vars /\ Fairness

-----------------------------------------------------------------------------
TypeOK ==
  /\ msAddition \in 0..(Modulus - 1)
  /\ stmrs \in Seq(Timers) /\ IsInjective(stmrs)
  /\ event \in [Timers -> 0..(Modulus - 1)]
  /\ mainPc \in {"init", "traffic", "sleep", "scan0", "scan", "proc", "stamp"}
  /\ time \in 0..(Modulus - 1)
  /\ cursor \in 1..(Len(stmrs) + 1)
  /\ current \in Timers
  /\ sleepT \in 0..(Modulus - 1) /\ sleepMs \in SleepMs
  /\ sinceEvent \in [Timers -> 0..Modulus]
  /\ sinceSleep \in 0..Modulus
  /\ loopTicks \in 0..(LoopBound + Modulus)

(* stmr() never runs a timer's proc before its period has really elapsed   *)
(* since its last stamp, also when msAddition wraps between the two.       *)
TimerNotEarly ==
  mainPc = "proc" => sinceEvent[current] >= TimerPeriod[current]

(* msleep(ms) never returns before ms milliseconds have really passed,     *)
(* also when msAddition wraps while it waits.                              *)
SleepNotShort ==
  [][mainPc = "sleep" /\ mainPc' = "traffic" => sinceSleep >= sleepMs]_vars

(* Every timer on the list has its proc run again and again: lwIP's TCP    *)
(* timer never stops, however the count wraps.                             *)
TimersKeepRunning ==
  \A t \in Timers : []<>(mainPc = "proc" /\ current = t)

(* stmr_add() and stmr_init() of a timer not on the list put it at the     *)
(* head and keep the rest in order; stmr_free() of any timer leaves the    *)
(* list without it, the others in order and still NULL-terminated, and a   *)
(* freed timer unlinked, whether it was the head, in the middle, the last  *)
(* or not on the list at all: on the list init_lwip() has built so far    *)
(* and on every other list.                                                *)
StmrListOpsCorrect ==
  \A s \in TimerOrders \cup {stmrs}, tmr \in ListNodes :
    LET L == LinksOf(s) IN
    /\ ListSeq(StmrFree(L, tmr)) = SelectSeq(s, LAMBDA x : x # tmr)
    /\ StmrFree(L, tmr).next[tmr] = NULL
    /\ tmr \notin Range(s) =>
         /\ ListSeq(StmrAddLinks(L, tmr)) = <<tmr>> \o s
         /\ ListSeq(StmrInitLinks(L, tmr)) = <<tmr>> \o s

=============================================================================

------------------------------- MODULE Clock --------------------------------
(***************************************************************************)
(* The clock: clockintr (kernel/trap.c), which counts ticks on CPU 0, and  *)
(* sys_pause (kernel/sysproc.c), which waits for a number of them.         *)
(*                                                                         *)
(* Both run under tickslock, and sleep releases it and blocks in one step: *)
(* sys_pause is a first step and one for each time it is woken.  A kill    *)
(* may come between its killed() and its sleep().                          *)
(***************************************************************************)
EXTENDS Naturals

CONSTANTS Cpu,        \* 0 is one of them
          Pauser,     \* processes that call pause
          W,          \* ticks counts modulo W (2^32)
          MaxN        \* the largest int, 2^31 - 1

VARIABLES ticks,
          due,        \* CPUs whose timer interrupt is pending
          pa,         \* sys_pause: pc, n, ticks0, killed
          elapsed     \* ticks since the call

vars == <<ticks, due, pa, elapsed>>

TypeOK ==
  /\ ticks \in 0..W-1
  /\ due \subseteq Cpu
  /\ pa \in [Pauser -> [pc : {"idle", "loop", "sleep", "asleep"}, n : 0..MaxN,
                        ticks0 : 0..W-1, killed : BOOLEAN]]
  /\ elapsed \in [Pauser -> 0..W-1]

Idle == [pc |-> "idle", n |-> 0, ticks0 |-> 0, killed |-> FALSE]

Init == /\ ticks = 0
        /\ due = {}
        /\ pa = [p \in Pauser |-> Idle]
        /\ elapsed = [p \in Pauser |-> 0]

\* The timer of a CPU goes off at stimecmp (external).
Timer(c) == /\ c \notin due
            /\ due' = due \cup {c}
            /\ UNCHANGED <<ticks, pa, elapsed>>

\* Bound: a process that was woken runs before half of the range of ticks has
\* gone by.
OnTime == \A p \in Pauser : pa[p].pc \in {"loop", "sleep"} => elapsed[p] < pa[p].n + W \div 2

Woken(p) == IF pa[p].pc = "asleep" THEN [pa[p] EXCEPT !.pc = "loop"] ELSE pa[p]

\* clockintr: CPU 0 counts the tick and wakes; every CPU asks for the next.
\* tickslock keeps it out of the time between killed() and sleep().
clockintr(c) ==
  /\ c \in due
  /\ due' = due \ {c}
  /\ IF c = 0
       THEN /\ \A p \in Pauser : pa[p].pc # "sleep"
            /\ OnTime
            /\ ticks' = (ticks + 1) % W
            /\ pa' = [p \in Pauser |-> Woken(p)]
            /\ elapsed' = [p \in Pauser |-> IF pa[p].pc = "idle" THEN 0 ELSE elapsed[p] + 1]
       ELSE UNCHANGED <<ticks, pa, elapsed>>

\* sys_pause up to its loop.
sys_pause(p, n) ==
  /\ pa[p].pc = "idle"
  /\ \A q \in Pauser : pa[q].pc # "sleep"
  /\ pa' = [pa EXCEPT ![p] = [pc |-> "loop", n |-> n, ticks0 |-> ticks, killed |-> FALSE]]
  /\ elapsed' = [elapsed EXCEPT ![p] = 0]
  /\ UNCHANGED <<ticks, due>>

\* ticks - ticks0 < n, in unsigned arithmetic.  Mutant of TooEarly: the sum is
\* compared instead of the difference.
TooEarlySum(p) == ticks < (pa[p].ticks0 + pa[p].n) % W
TooEarly(p) == (ticks + W - pa[p].ticks0) % W < pa[p].n

pause_loop(p) ==
  /\ pa[p].pc = "loop"
  /\ \A q \in Pauser : pa[q].pc # "sleep"
  /\ IF TooEarly(p) /\ ~pa[p].killed
       THEN pa' = [pa EXCEPT ![p].pc = "sleep"] /\ UNCHANGED elapsed
       ELSE pa' = [pa EXCEPT ![p] = Idle] /\ elapsed' = [elapsed EXCEPT ![p] = 0]
  /\ UNCHANGED <<ticks, due>>

pause_sleep(p) ==
  /\ pa[p].pc = "sleep"
  /\ pa' = [pa EXCEPT ![p].pc = "asleep"]
  /\ UNCHANGED <<ticks, due, elapsed>>

kill(p) ==
  /\ pa[p].pc # "idle" /\ ~pa[p].killed
  /\ pa' = [pa EXCEPT ![p].killed = TRUE, ![p].pc = IF @ = "asleep" THEN "loop" ELSE @]
  /\ UNCHANGED <<ticks, due, elapsed>>

Next == \/ \E c \in Cpu : Timer(c) \/ clockintr(c)
        \/ \E p \in Pauser : \/ pause_loop(p) \/ pause_sleep(p) \/ kill(p)
                             \/ \E n \in 0..MaxN : sys_pause(p, n)

Spec == Init /\ [][Next]_vars

-----------------------------------------------------------------------------
(* Properties                                                              *)

\* pause(n) that is not cut short by a kill returns after n ticks, and not one
\* earlier, also when ticks wraps around in between.
PauseLongEnough ==
  [][\A p \in Pauser : pa[p].pc = "loop" /\ pa'[p].pc = "idle" /\ ~pa[p].killed
                         => elapsed[p] >= pa[p].n]_<<pa, elapsed>>

\* It sleeps only while n ticks have not passed: the tick that completes them
\* wakes it up.
PauseNoLonger ==
  \A p \in Pauser : pa[p].pc \in {"sleep", "asleep"} => elapsed[p] < pa[p].n

\* pause(n) of sys_pause returns after n ticks: not before, and it does not sleep on.
PauseExact == PauseLongEnough /\ [](TypeOK /\ PauseNoLonger)
=============================================================================

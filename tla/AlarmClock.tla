---------------------------- MODULE AlarmClock -----------------------------
(***************************************************************************)
(* What the timers of kern/schedule/sched.c promise: a sleeper is woken    *)
(* after as many ticks as it asked for, no earlier and no later, however   *)
(* many others fall asleep, are due or are woken early in between.         *)
(***************************************************************************)
EXTENDS Integers

CONSTANTS Procs, MaxTime

VARIABLES left,     \* sleeper with its alarm set -> ticks until it rings
          rung      \* sleepers whose alarm has rung

alarmvars == <<left, rung>>

Init == /\ left = [p \in {} |-> 0]
        /\ rung = {}

\* do_sleep sets the alarm.
SetAlarm(p, time) ==
    /\ p \notin DOMAIN left \cup rung
    /\ left' = [q \in DOMAIN left \cup {p} |-> IF q = p THEN time ELSE left[q]]
    /\ UNCHANGED rung

\* A tick: every alarm comes one tick closer; all that are due ring at once.
Tick ==
    /\ left' = [p \in {q \in DOMAIN left : left[q] > 1} |-> left[p] - 1]
    /\ rung' = rung \cup {p \in DOMAIN left : left[p] = 1}

\* The sleeper goes on: its alarm has rung, or it was woken early and turns
\* the alarm off.
Leave(p) ==
    /\ p \in DOMAIN left \cup rung
    /\ left' = [q \in DOMAIN left \ {p} |-> left[q]]
    /\ rung' = rung \ {p}

Next == \/ Tick
        \/ \E p \in Procs : Leave(p) \/ \E time \in 1 .. MaxTime : SetAlarm(p, time)

Spec == Init /\ [][Next]_alarmvars
=============================================================================

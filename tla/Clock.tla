------------------------------- MODULE Clock --------------------------------
(***************************************************************************)
(* The clock, in words of a fixed width: Pit::milliseconds, and sleepFor,  *)
(* sleepUntil and tick of src/kernel/process.cc with their list of timers. *)
(* A sleeper reads the milliseconds first and computes its target later,   *)
(* with interrupts off; ticks come in between.  Jiffies and the products   *)
(* wrap at Word, 2^32 in the program.                                      *)
(***************************************************************************)
EXTENDS Integers, Sequences, SequencesExt

CONSTANTS
    Proc,
    Word,          \* 2^32
    Hz,            \* the ticks of a second, Pit::hz
    PerSecond,     \* the milliseconds of a second: 1000, as Pit::hz is
    MaxSleep       \* the longest sleep asked for

ASSUME WordAssumption == Word \in Nat \ {0} /\ MaxSleep \in 0 .. Word - 1
ASSUME HzAssumption == Hz \in Nat \ {0} /\ PerSecond = Hz

VARIABLES
    jiffies,
    timers,        \* sequence of [target, waiting], as the list is linked; in what
                   \* order the waiting are made ready is left to Scheduler
    stage,         \* "awake", "computed" (between milliseconds and disable) or "asleep"
    second,        \* the argument of sleepUntil
    \* For the properties: what each process asked for, the ticks since, whether
    \* a product wrapped in its call, and whether jiffies did since it began.
    asked, elapsed, wrapped, turned

sleeper == <<stage, second, asked, wrapped>>
clockVars == <<jiffies, timers, sleeper, elapsed, turned>>

-----------------------------------------------------------------------------

Wrap(n) == n % Word
wholeSeconds == Wrap((jiffies \div Hz) * PerSecond)
milliseconds == Wrap(jiffies * PerSecond) \div Hz
Target(ms) == Wrap(ms * Hz) \div PerSecond

SleepFor(p, ms) ==
    /\ stage[p] = "awake"
    /\ stage' = [stage EXCEPT ![p] = "computed"]
    /\ second' = [second EXCEPT ![p] = Wrap(milliseconds + ms)]
    /\ asked' = [asked EXCEPT ![p] = ms]
    /\ elapsed' = [elapsed EXCEPT ![p] = 0]
    /\ turned' = [turned EXCEPT ![p] = FALSE]
    /\ wrapped' = [wrapped EXCEPT ![p] = \/ jiffies * PerSecond >= Word
                                         \/ (milliseconds + ms) * Hz >= Word]
    /\ UNCHANGED <<jiffies, timers>>

\* The process waits at the timer of its target, which is made at its place in
\* the list when there is none: before the first timer that is not earlier.
Place(target) ==
    CHOOSE k \in 1 .. Len(timers) + 1 :
        /\ \A i \in 1 .. k - 1 : timers[i].target < target
        /\ k <= Len(timers) => timers[k].target >= target

InsertedLast(p, target) == Append(timers, [target |-> target, waiting |-> {p}])
Inserted(p, target) ==
    LET place == Place(target)
    IN  IF place <= Len(timers) /\ timers[place].target = target
        THEN [timers EXCEPT ![place].waiting = @ \cup {p}]
        ELSE InsertAt(timers, place, [target |-> target, waiting |-> {p}])

SleepUntil(p) ==
    /\ stage[p] = "computed"
    /\ IF Target(second[p]) > jiffies
       THEN /\ timers' = Inserted(p, Target(second[p]))
            /\ stage' = [stage EXCEPT ![p] = "asleep"]
       ELSE /\ stage' = [stage EXCEPT ![p] = "awake"]
            /\ UNCHANGED timers
    /\ UNCHANGED <<jiffies, second, asked, wrapped, elapsed, turned>>

\* The handler of the timer interrupt: only the first timer is looked at.
Tick ==
    LET now == Wrap(jiffies + 1)
        due == timers # <<>> /\ Head(timers).target = now
    IN  /\ jiffies' = now
        /\ timers' = IF due THEN Tail(timers) ELSE timers
        /\ stage' = [p \in Proc |-> IF due /\ p \in Head(timers).waiting THEN "awake" ELSE stage[p]]
        /\ elapsed' = [p \in Proc |-> IF stage[p] = "awake" \/ elapsed[p] > MaxSleep THEN elapsed[p]
                                      ELSE elapsed[p] + 1]
        /\ turned' = [p \in Proc |-> turned[p] \/ (now = 0 /\ stage[p] # "awake")]
        /\ UNCHANGED <<second, asked, wrapped>>

ClockInit ==
    /\ jiffies = 0 /\ timers = <<>>
    /\ stage = [p \in Proc |-> "awake"] /\ second = [p \in Proc |-> 0]
    /\ asked = [p \in Proc |-> 0] /\ elapsed = [p \in Proc |-> 0]
    /\ wrapped = [p \in Proc |-> FALSE] /\ turned = [p \in Proc |-> FALSE]

ClockNext == Tick \/ \E p \in Proc : SleepUntil(p) \/ \E ms \in 0 .. MaxSleep : SleepFor(p, ms)

ClockSpec == ClockInit /\ [][ClockNext]_clockVars

-----------------------------------------------------------------------------

ClockTypeOK ==
    /\ jiffies \in 0 .. Word - 1
    /\ timers \in Seq([target : 0 .. Word - 1, waiting : SUBSET Proc])
    /\ stage \in [Proc -> {"awake", "computed", "asleep"}]
    /\ second \in [Proc -> 0 .. Word - 1]
    /\ asked \in [Proc -> 0 .. MaxSleep] /\ elapsed \in [Proc -> 0 .. MaxSleep + 1]
    /\ wrapped \in [Proc -> BOOLEAN] /\ turned \in [Proc -> BOOLEAN]

\* Each sleeper waits at one timer, which are in their order, and nobody sleeps
\* longer than it asked for, though tick compares with the first timer only and
\* for equality.  The exception: jiffies wrap between the call and the target's
\* computation, and the process sleeps from the new zero up to the old time.
NobodyOversleeps ==
    /\ ClockTypeOK
    /\ \A j, k \in DOMAIN timers : j < k => timers[j].target < timers[k].target
    /\ \A p \in Proc : stage[p] = "asleep" <=> \E k \in DOMAIN timers : p \in timers[k].waiting
    /\ \A p \in Proc : stage[p] = "asleep" => elapsed[p] < asked[p] \/ turned[p]

\* A sleep ends too early only after a product that does not fit a word: jiffies
\* * 1000 never fit again after 71 minutes, and from then on Sleep returns at
\* once (until jiffies themselves wrap, after 49 days).
EarlyOnlyAfterWrap ==
    /\ [][\A p \in Proc : stage[p] # "awake" /\ stage'[p] = "awake" /\ elapsed'[p] < asked[p]
                            => wrapped[p]]_clockVars
    /\ [](jiffies * PerSecond >= Word => timers = <<>>)

\* sleepFor: "sleep for the given number of seconds" (process.h:140).
SleepsLongEnough ==
    [][\A p \in Proc : stage[p] # "awake" /\ stage'[p] = "awake" => elapsed'[p] >= asked[p]]_clockVars
=============================================================================

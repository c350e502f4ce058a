----------------------------- MODULE MCStartup -----------------------------
(***************************************************************************)
(* Instances for TLC of what loads the kernel and its programs and of      *)
(* three parts that stand alone: the console, the symbol tables that the   *)
(* kernel monitor searches and the heap of the stride scheduler.  In each  *)
(* behaviour one of them runs; a variable belongs to the part that runs    *)
(* and is NULL when that has no such variable.                             *)
(***************************************************************************)
EXTENDS Integers, FiniteSets, Sequences, TLC

CONSTANTS Entries,                           \* of the run pool
          Other,                             \* a byte that is not the kernel's
          Undf, SO, SOL, Fun, PSym, SLine,   \* types of symbols
          E0, NO, NULL

VARIABLES part,                                             \* what runs
          segments, mem, ph, va, end_va, secno, booted,     \* BootLoader
          program, phase, start, la, areas, pages, free,    \* LoadIcode
          stabs, at, place,                                 \* Stabs
          held, wire, com, shift, buf, rpos, wpos, pc,      \* Console
          rebooted, inputs, toggled, lifted, meant, understood,
          queue, waiting,
          heap, root, stride, members                       \* SkewHeap

bootonly    == <<segments, mem, va, end_va, secno, booted>>
icodeonly   == <<program, phase, start, la, areas, pages, free>>
stabsvars   == <<stabs, at, place>>
consolevars == <<held, wire, com, shift, buf, rpos, wpos, pc, rebooted, inputs,
                 toggled, lifted, meant, understood, queue, waiting>>
poolvars    == <<heap, root, stride, members>>
vars == <<part, bootonly, icodeonly, ph, stabsvars, consolevars, poolvars>>

-----------------------------------------------------------------------------
Boot == INSTANCE BootLoader WITH
    SECTSIZE <- 2, PGSIZE <- 4, Pages <- 3, MaxSize <- 6

Icode == INSTANCE LoadIcode WITH
    PGSIZE <- 3, Pages <- 3, MaxSize <- 6, Frames <- 3

Symbols == INSTANCE Stabs WITH
    Sizes <- {2, 3}, Pads <- {0, 2}, Base <- 3, Limit <- 20, Length <- 10

Pool == INSTANCE SkewHeap WITH Range <- 8

\* The two keys each of SHIFT, CTL and ALT, CAPSLOCK, a letter, and Del, which
\* differs by E0 from the point on the keypad.
Key(c, e) == [code |-> c, e0 |-> e]
Table == [code : {"1D", "2A", "36", "38", "3A", "1E", "53"}, e0 : BOOLEAN]

shiftcode == [k \in Table |-> CASE k.code = "1D" -> "CTL"
                                [] k \in {Key("2A", FALSE), Key("36", FALSE)} -> "SHIFT"
                                [] k.code = "38" -> "ALT"
                                [] OTHER -> NO]
togglecode == [k \in Table |-> IF k = Key("3A", FALSE) THEN "CAPSLOCK" ELSE NO]

\* What a key means alone, with SHIFT and with CTL.
Meant == [k \in Table |-> CASE k = Key("1E", FALSE) -> <<"a", "A", "^A">>
                            [] k = Key("53", FALSE) -> <<".", ".", NO>>
                            [] k = Key("53", TRUE) -> <<"DEL", "DEL", "DEL">>
                            [] OTHER -> <<NO, NO, NO>>]
charcode == [flags \in SUBSET {"SHIFT", "CTL"} |->
                [k \in Table |-> Meant[k][IF "CTL" \in flags THEN 3
                                          ELSE IF "SHIFT" \in flags THEN 2 ELSE 1]]]
OtherCase == [c \in {"a", "A"} |-> IF c = "a" THEN "A" ELSE "a"]
Received == [c \in {"x", "7F", "0"} |->
                CASE c = "x" -> "x" [] c = "7F" -> "BS" [] c = "0" -> NO]

\* Keys that change the meaning of others, with a character from the serial line;
\* and the keys that reboot the machine, with bytes that are not what they mean.
Typing == INSTANCE Console WITH
    Keys <- {Key("2A", FALSE), Key("36", FALSE), Key("3A", FALSE),
             Key("1D", FALSE), Key("1D", TRUE), Key("1E", FALSE)},
    SerialChars <- {"x"}, CONSBUFSIZE <- 3, MaxInput <- 6, KEY_DEL <- "DEL"

Rebooting == INSTANCE Console WITH
    Keys <- {Key("1D", FALSE), Key("1D", TRUE), Key("38", FALSE), Key("38", TRUE),
             Key("53", TRUE), Key("53", FALSE)},
    SerialChars <- {"7F", "0"}, CONSBUFSIZE <- 3, MaxInput <- 5, KEY_DEL <- "DEL"

ASSUME /\ Boot!BootLoaderAssumption
       /\ Icode!LoadIcodeAssumption
       /\ Symbols!StabsAssumption
       /\ Typing!ConsoleAssumption /\ Rebooting!ConsoleAssumption
       /\ Pool!SkewHeapAssumption

-----------------------------------------------------------------------------
NoBoot == /\ segments = NULL /\ mem = NULL /\ va = NULL /\ end_va = NULL
          /\ secno = NULL /\ booted = NULL

NoIcode == /\ program = NULL /\ phase = NULL /\ start = NULL /\ la = NULL
           /\ areas = NULL /\ pages = NULL /\ free = NULL

NoSymbols == stabs = NULL /\ at = NULL /\ place = NULL

NoConsole == /\ held = NULL /\ wire = NULL /\ com = NULL /\ shift = NULL
             /\ buf = NULL /\ rpos = NULL /\ wpos = NULL /\ pc = NULL
             /\ rebooted = NULL /\ inputs = NULL /\ toggled = NULL
             /\ lifted = NULL /\ meant = NULL /\ understood = NULL /\ queue = NULL
             /\ waiting = NULL

NoPool == heap = NULL /\ root = NULL /\ stride = NULL /\ members = NULL

Init ==
    \/ /\ part = "boot" /\ Boot!Init
       /\ NoIcode /\ NoSymbols /\ NoConsole /\ NoPool
    \/ /\ part = "icode" /\ Icode!Init
       /\ NoBoot /\ NoSymbols /\ NoConsole /\ NoPool
    \/ /\ part = "symbols" /\ Symbols!Init
       /\ NoBoot /\ NoIcode /\ NoConsole /\ NoPool /\ ph = NULL
    \/ /\ \/ part = "typing" /\ Typing!Init
          \/ part = "rebooting" /\ Rebooting!Init
       /\ NoBoot /\ NoIcode /\ NoSymbols /\ NoPool /\ ph = NULL
    \/ /\ part = "pool" /\ Pool!Init
       /\ NoBoot /\ NoIcode /\ NoSymbols /\ NoConsole /\ ph = NULL

BootStep == /\ part = "boot" /\ Boot!Next
            /\ UNCHANGED <<part, icodeonly, stabsvars, consolevars, poolvars>>

IcodeStep == /\ part = "icode" /\ Icode!Next
             /\ UNCHANGED <<part, bootonly, stabsvars, consolevars, poolvars>>

SymbolsStep == /\ part = "symbols" /\ Symbols!Next
               /\ UNCHANGED <<part, bootonly, icodeonly, ph, consolevars, poolvars>>

ConsoleStep == /\ \/ part = "typing" /\ Typing!Next
                  \/ part = "rebooting" /\ Rebooting!Next
               /\ UNCHANGED <<part, bootonly, icodeonly, ph, stabsvars, poolvars>>

PoolStep == /\ part = "pool" /\ Pool!Next
            /\ UNCHANGED <<part, bootonly, icodeonly, ph, stabsvars, consolevars>>

Next == BootStep \/ IcodeStep \/ SymbolsStep \/ ConsoleStep \/ PoolStep

Spec == Init /\ [][Next]_vars

-----------------------------------------------------------------------------
\* BootLoader: the kernel starts as it was linked.
KernelAsLinked == part = "boot" => Boot!KernelAsLinked

\* LoadIcode: a program starts as it was linked, or leaves nothing behind.
ProgramAsLinked == part = "icode" => Icode!LoadingSound

\* Stabs: every address of code leads to its function and file.
SymbolsFound == part = "symbols" => Symbols!SearchBrackets /\ Symbols!Found

\* Console: what is typed is understood, and reboots only when it means to.
ConsoleUnderstands ==
    /\ [](part = "typing" => Typing!TypingSound)
    /\ [](part = "rebooting" => Rebooting!TypingSound)
    /\ [][part = "rebooting" => Rebooting!RebootsAsMeant]_vars

\* SkewHeap: the process at the root of the pool is the one to run next.
PoolSound == part = "pool" => Pool!PoolSound
=============================================================================

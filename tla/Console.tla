------------------------------ MODULE Console ------------------------------
(***************************************************************************)
(* Console input in kern/driver/console.c: the keyboard's scan codes are   *)
(* decoded by kbd_proc_data, those of the serial line by serial_proc_data, *)
(* and cons_intr puts the characters into a ring from which cons_getc      *)
(* takes them.                                                             *)
(*                                                                         *)
(* All of this runs in cons_getc with interrupts off, so there is one      *)
(* reader at a time; keys are pressed and bytes arrive meanwhile.  A scan  *)
(* code is E0, or the code of a key and whether the key goes up.           *)
(***************************************************************************)
EXTENDS Naturals, Sequences, FiniteSets

CONSTANTS Keys,             \* [code, e0]: keys whose codes come after E0, or not
          shiftcode, togglecode,    \* the flag of a key, or NO
          charcode,         \* the character for a set of flags and a key, or NO
          OtherCase,        \* of letters
          SerialChars,      \* bytes from the serial line
          Received,         \* the character each of them becomes
          CONSBUFSIZE,
          MaxInput,         \* bound: keys pressed, released, and bytes received
          KEY_DEL, E0, NO

ConsoleAssumption ==
    /\ CONSBUFSIZE \in Nat \ {0} /\ MaxInput \in Nat
    /\ Keys \subseteq [code : {k.code : k \in Keys}, e0 : BOOLEAN]

VARIABLES held,             \* the keys that are down
          wire,             \* scan codes the keyboard has sent
          com,              \* the byte in the serial port, or NO
          shift,            \* the static flags of kbd_proc_data
          buf, rpos, wpos,  \* cons
          pc,               \* where cons_getc is
          rebooted,
          \* history: the inputs so far; the toggles; the modifiers of which one of
          \* two keys has been lifted and the other not; for each press on the wire,
          \* what was meant; whether the driver understood; the characters that are
          \* waiting, and how many should be
          inputs, toggled, lifted, meant, understood, queue, waiting
dev == <<held, com, inputs, toggled, lifted>>
cons == <<buf, rpos, wpos>>
history == <<meant, understood, queue, waiting>>
vars == <<dev, wire, shift, cons, pc, rebooted, history>>

Init == /\ held = {} /\ wire = <<>> /\ com = NO
        /\ shift = {}
        /\ buf = [i \in 0 .. CONSBUFSIZE - 1 |-> NO] /\ rpos = 0 /\ wpos = 0
        /\ pc = "done" /\ rebooted = FALSE
        /\ inputs = 0 /\ toggled = {} /\ lifted = {}
        /\ meant = <<>> /\ understood = TRUE /\ queue = <<>> /\ waiting = 0

-----------------------------------------------------------------------------
\* The character of a key under the flags, as kbd_proc_data ends.
CharOf(flags, k) ==
    LET c == charcode[flags \cap {"CTL", "SHIFT"}][k]
    IN  IF "CAPSLOCK" \in flags /\ c \in DOMAIN OtherCase THEN OtherCase[c] ELSE c

\* SHIFT, CTL and ALT, as far as some of keys mean them.
Modifiers(keys) == {shiftcode[k] : k \in keys} \ {NO}

\* The keyboard sends the codes of key k going up or down.
Send(k, up) ==
    wire' = wire \o (IF k.e0 THEN <<E0>> ELSE <<>>) \o <<[code |-> k.code, up |-> up]>>

\* Somebody presses a key, which may mean a character.  There is a doubt about
\* it while one of two SHIFT, CTL or ALT keys has been lifted.
Press(k) ==
    /\ k \notin held /\ inputs < MaxInput
    /\ held' = held \cup {k}
    /\ Send(k, FALSE)
    /\ inputs' = inputs + 1
    /\ toggled' = IF togglecode[k] \in toggled THEN toggled \ {togglecode[k]}
                  ELSE (toggled \cup {togglecode[k]}) \ {NO}
    /\ lifted' = lifted \ {shiftcode[k]}
    /\ LET flags == Modifiers(held') \cup toggled'
       IN  meant' = Append(meant, [char |-> CharOf(flags, k), flags |-> flags,
                                   sure |-> lifted' = {}])
    /\ UNCHANGED <<com, shift, cons, pc, rebooted, understood, queue, waiting>>

Release(k) ==
    /\ k \in held /\ inputs < MaxInput
    /\ held' = held \ {k}
    /\ Send(k, TRUE)
    /\ inputs' = inputs + 1
    /\ lifted' = (lifted \ {shiftcode[k]}) \cup (Modifiers({k}) \cap Modifiers(held'))
    /\ UNCHANGED <<com, toggled, shift, cons, pc, rebooted, history>>

SerialByte(c) ==
    /\ com = NO /\ inputs < MaxInput
    /\ com' = c
    /\ inputs' = inputs + 1
    /\ UNCHANGED <<held, toggled, lifted, wire, shift, cons, pc, rebooted, history>>

-----------------------------------------------------------------------------
\* The next place in the ring.
Advance(pos) == IF pos + 1 = CONSBUFSIZE THEN 0 ELSE pos + 1

\* What cons_intr does with a character from a device.  When CONSBUFSIZE of
\* them are in the ring it looks empty, and all are lost.
Stash(c) ==
    IF c = NO THEN UNCHANGED <<cons, queue, waiting>>
    ELSE /\ buf' = [buf EXCEPT ![wpos] = c]
         /\ wpos' = Advance(wpos)
         /\ waiting' = waiting + 1
         /\ queue' = IF Len(queue) + 1 = CONSBUFSIZE THEN <<>> ELSE Append(queue, c)
         /\ UNCHANGED rpos

\* cons_getc is called: by an interrupt, by getchar, or by the monitor.
Getc ==
    /\ pc = "done" /\ ~ rebooted
    /\ pc' = "serial"
    /\ UNCHANGED <<dev, wire, shift, cons, rebooted, history>>

\* A round of cons_intr(serial_proc_data).
SerialIntr ==
    /\ pc = "serial"
    /\ com' = NO
    /\ IF com = NO
       THEN /\ pc' = "kbd"
            /\ UNCHANGED <<cons, queue, waiting>>
       ELSE /\ Stash(Received[com])
            /\ UNCHANGED pc
    /\ UNCHANGED <<held, inputs, toggled, lifted, wire, shift, rebooted, meant,
                   understood>>

\* Mutant: E0ESC stays when a key goes up.
ReleasedInE0(k) == shift \ {shiftcode[k]}

\* The flags when key k goes up, and when it goes down.
Released(k) == shift \ {shiftcode[k], "E0ESC"}

Pressed(k) ==
    LET flags == ((shift \ {"E0ESC"}) \cup {shiftcode[k]}) \ {NO}
    IN  IF togglecode[k] \in flags THEN flags \ {togglecode[k]}
        ELSE (flags \cup {togglecode[k]}) \ {NO}

Reboots(flags, c) == {"CTL", "ALT"} \subseteq flags /\ c = KEY_DEL

\* A key in the tables, which know more codes than there are keys.
Decoded(byte) == [code |-> byte.code, e0 |-> "E0ESC" \in shift]

\* A round of cons_intr(kbd_proc_data).
KbdIntr ==
    /\ pc = "kbd" /\ wire # <<>>
    /\ wire' = Tail(wire)
    /\ IF Head(wire) = E0
       THEN /\ shift' = shift \cup {"E0ESC"}
            /\ UNCHANGED <<cons, rebooted, history>>
       ELSE LET k == Decoded(Head(wire))
                c == CharOf(Pressed(k), k)
            IN  IF Head(wire).up
                THEN /\ shift' = Released(k)
                     /\ UNCHANGED <<cons, rebooted, history>>
                ELSE /\ shift' = Pressed(k)
                     /\ rebooted' = (rebooted \/ Reboots(Pressed(k), c))
                     /\ Stash(c)
                     /\ meant' = Tail(meant)
                     /\ understood' = (understood
                                        /\ (Head(meant).sure => c = Head(meant).char))
    /\ UNCHANGED <<dev, pc>>

KbdEmpty ==
    /\ pc = "kbd" /\ wire = <<>>
    /\ pc' = "grab"
    /\ UNCHANGED <<dev, wire, shift, cons, rebooted, history>>

\* The end of cons_getc: the next character, if the ring has one.
Grab ==
    /\ pc = "grab"
    /\ pc' = "done"
    /\ IF rpos = wpos THEN UNCHANGED <<rpos, queue, waiting>>
       ELSE /\ rpos' = Advance(rpos)
            /\ queue' = Tail(queue)
            /\ waiting' = waiting - 1
    /\ UNCHANGED <<dev, wire, shift, buf, wpos, rebooted, meant, understood>>

Next == \/ \E k \in Keys : Press(k) \/ Release(k)
        \/ \E c \in SerialChars : SerialByte(c)
        \/ Getc \/ SerialIntr \/ KbdIntr \/ KbdEmpty \/ Grab

Spec == Init /\ [][Next]_vars

-----------------------------------------------------------------------------
\* The values of the variables; positions stay inside the ring.
TypeOK ==
    /\ held \subseteq Keys
    /\ shift \subseteq {"SHIFT", "CTL", "ALT", "CAPSLOCK", "E0ESC"}
    /\ rpos \in 0 .. CONSBUFSIZE - 1 /\ wpos \in 0 .. CONSBUFSIZE - 1
    /\ DOMAIN buf = 0 .. CONSBUFSIZE - 1
    /\ pc \in {"done", "serial", "kbd", "grab"}

\* The driver decodes bytes later than the keys were hit, with flags of its own:
\* it finds the characters that the keys held and CAPSLOCK meant at the time,
\* unless there was a doubt.
Understands == understood

\* When all scan codes have been decoded no flag is stuck: SHIFT, CTL or ALT is
\* set only while such a key is down, and then always, but for the lifted ones.
NoFlagStuck ==
    wire = <<>> => /\ "E0ESC" \notin shift
                   /\ shift \cap {"SHIFT", "CTL", "ALT"} = Modifiers(held) \ lifted

\* The machine is rebooted only if CTL and ALT were down when Del was hit, and
\* it is when there was no doubt about that.
MeansReboot(press) == press.char = KEY_DEL /\ {"CTL", "ALT"} \subseteq press.flags

RebootsAsMeant ==
    /\ rebooted' /\ ~ rebooted => MeansReboot(Head(meant))
    /\ Len(meant') < Len(meant) /\ Head(meant).sure /\ MeansReboot(Head(meant))
          => rebooted'

\* The ring is a queue of the characters that came since CONSBUFSIZE of them
\* were last lost together: none is overwritten, repeated or overtaken.
RingIsQueue ==
    /\ Len(queue) = (wpos + CONSBUFSIZE - rpos) % CONSBUFSIZE
    /\ \A i \in 1 .. Len(queue) : buf[(rpos + i - 1) % CONSBUFSIZE] = queue[i]

\* What is typed is understood, kept and handed on.
TypingSound == TypeOK /\ Understands /\ NoFlagStuck /\ RingIsQueue

\* Not kept by the code, see "Disagreements" in README.md:
\* a modifier is in force while one of its two keys is down.
ModifierWhileHeld == wire = <<>> => Modifiers(held) \subseteq shift

\* Not kept by the code, see "Disagreements" in README.md:
\* "return the next input character from console, or 0 if none waiting"
\* (cons_getc): while characters are waiting, a call takes one.
TakesWaiting ==
    [][pc = "grab" /\ pc' = "done" /\ waiting > 0 => waiting' = waiting - 1]_vars
=============================================================================

------------------------------- MODULE Stabs -------------------------------
(***************************************************************************)
(* kern/debug/kdebug.c of lab5: debuginfo_eip looks an address up in the   *)
(* symbol table, with stab_binsearch, to say in which function, at which   *)
(* line and in which file it lies.                                         *)
(*                                                                         *)
(* The table is written here as compiler and linker write it, entry after  *)
(* entry, so that every table within the bounds is reached.  A file starts *)
(* and ends with an N_SO; functions hold their address, lines their        *)
(* distance from it; files in assembly have lines with addresses and no    *)
(* function.                                                               *)
(***************************************************************************)
EXTENDS Integers, Sequences, FiniteSets, FiniteSetsExt

CONSTANTS Sizes,                \* bytes of code that a line may have
          Pads,                 \* bytes between functions
          Base, Limit,          \* addresses of the first byte and of the last
          Length,               \* bound: entries of the table
          Undf, SO, SOL, Fun, PSym, SLine       \* types of entries

StabsAssumption ==
    /\ Sizes \subseteq Nat \ {0} /\ Pads \subseteq Nat
    /\ Base \in Nat \ {0} /\ Limit \in Nat /\ Length \in Nat

VARIABLES stabs,                \* the table; the C index is one less
          at,                   \* where the next code goes
          place                 \* what is being written: "none", "file",
                                \* "function" or "assembly"
vars == <<stabs, at, place>>

Stab(type, value) == [type |-> type, value |-> value]
Index == 0 .. Len(stabs) - 1
Type(k) == stabs[k + 1].type
Value(k) == stabs[k + 1].value

\* n_desc: only lines have one.  It is their number; the entry stands for it.
Desc(k) == IF Type(k) = SLine THEN k ELSE 0

\* The linker puts a header first.
Init == /\ stabs = <<Stab(Undf, 0)>>
        /\ at = Base
        /\ place = "none"

-----------------------------------------------------------------------------
(* Compiler, assembler and linker.                                         *)

Write(type, value) == /\ Len(stabs) < Length
                      /\ stabs' = Append(stabs, Stab(type, value))

FunStart == Value(Max({k \in Index : Type(k) = Fun}))

StartFile == /\ place = "none"
             /\ Write(SO, at) /\ at' = at
             /\ place' \in {"file", "assembly"}

\* The first function starts where the file does.
StartFun(pad) == /\ place \in {"file", "function"}
                 /\ place = "file" => pad = 0
                 /\ place = "function" => Type(Len(stabs) - 1) = SLine
                 /\ at' = at + pad /\ at' < Limit
                 /\ Write(Fun, at')
                 /\ place' = "function"

Param == /\ place = "function"
         /\ Type(Len(stabs) - 1) \in {Fun, PSym}
         /\ Write(PSym, 0)
         /\ UNCHANGED <<at, place>>

Line(size) == /\ place \in {"function", "assembly"}
              /\ at + size <= Limit
              /\ Write(SLine, IF place = "function" THEN at - FunStart ELSE at)
              /\ at' = at + size
              /\ UNCHANGED place

\* The code that follows comes from another file.
OtherFile == /\ place = "function"
             /\ Type(Len(stabs) - 1) = SLine
             /\ Write(SOL, at)
             /\ UNCHANGED <<at, place>>

EndFile == /\ place # "none"
           /\ Type(Len(stabs) - 1) = SLine
           /\ Write(SO, at)
           /\ place' = "none" /\ at' = at

Next == \/ StartFile \/ Param \/ OtherFile \/ EndFile
        \/ \E pad \in Pads : StartFun(pad)
        \/ \E size \in Sizes : Line(size)

Spec == Init /\ [][Next]_vars

-----------------------------------------------------------------------------
(* stab_binsearch.                                                         *)

\* Mutant: an entry beyond the address stays in the region.
NarrowedLate(s, m, middle) ==
    IF Value(m) < s.addr THEN [s EXCEPT !.left = m, !.l = middle + 1]
    ELSE IF Value(m) > s.addr THEN [s EXCEPT !.right = m, !.r = m - 1]
    ELSE [s EXCEPT !.left = m, !.l = m, !.addr = @ + 1]

\* The actual binary search: m is the entry compared with the address.
Narrowed(s, m, middle) ==
    IF Value(m) < s.addr THEN [s EXCEPT !.left = m, !.l = middle + 1]
    ELSE IF Value(m) > s.addr THEN [s EXCEPT !.right = m - 1, !.r = m - 1]
    ELSE [s EXCEPT !.left = m, !.l = m, !.addr = @ + 1]

RECURSIVE Loop(_, _)
Loop(type, s) ==
    LET middle == (s.l + s.r) \div 2
        matches == {k \in s.l .. middle : Type(k) = type}
    IN  IF s.l > s.r THEN s
        ELSE IF matches = {} THEN Loop(type, [s EXCEPT !.l = middle + 1])
        ELSE Loop(type, [Narrowed(s, Max(matches), middle) EXCEPT !.any = TRUE])

\* The loop after the search goes from the right end down to an entry of the
\* type, or to left.
Search(left, right, type, addr) ==
    LET s == Loop(type, [l |-> left, r |-> right, left |-> left,
                         right |-> right, any |-> FALSE, addr |-> addr])
        last == IF s.right <= s.left THEN s.right
                ELSE Max({s.left} \cup {k \in s.left .. s.right : Type(k) = type})
    IN  IF s.any THEN [left |-> last, right |-> s.right]
        ELSE [left |-> left, right |-> left - 1]

(* debuginfo_eip.                                                          *)

FileRegion(addr) == Search(0, Len(stabs) - 1, SO, addr)

FunRegion(addr) ==
    LET file == FileRegion(addr) IN Search(file.left, file.right, Fun, addr)

\* In a function, lines are found by the distance from its start.
LineRegion(addr) ==
    LET fun == FunRegion(addr)
        file == FileRegion(addr)
    IN  IF fun.left <= fun.right
        THEN Search(fun.left, fun.right, SLine, addr - Value(fun.left))
        ELSE Search(file.left, file.right, SLine, addr)

\* Where the search for the file's name, backwards from the line, stops.
NamesFile(k) == Type(k) = SOL \/ (Type(k) = SO /\ Value(k) # 0)

\* The parameters counted behind the function's entry.
Args(fun) == LET others == {k \in fun.left + 1 .. fun.right - 1 : Type(k) # PSym}
             IN  IF fun.left >= fun.right THEN 0
                 ELSE Min(others \cup {fun.right}) - fun.left - 1

\* Nothing was found: -1 is returned.
Unknown(addr) == \/ FileRegion(addr).left = 0
                 \/ LineRegion(addr).left > LineRegion(addr).right

\* What debuginfo_eip stores when it returns 0.  The function is its entry, the
\* file the entry with its name.
Info(addr) ==
    LET file == FileRegion(addr)
        fun == FunRegion(addr)
        line == LineRegion(addr)
    IN  [fn   |-> IF fun.left <= fun.right THEN fun.left ELSE 0,
         line |-> Desc(line.right),
         file |-> Max({0} \cup {k \in file.left .. line.left : NamesFile(k)}),
         narg |-> Args(fun)]

-----------------------------------------------------------------------------
\* The table as it is linked: every file is whole.
Written == place = "none"

\* The entries of a type in a region that are not beyond an address.
UpTo(type, addr, lo, hi) ==
    {k \in lo .. hi : Type(k) = type /\ Value(k) <= addr}

\* What stab_binsearch promises: left is the entry that contains the address,
\* and right points just before the next one.
Brackets(region, type, addr, lo, hi) ==
    /\ region.left = Max(UpTo(type, addr, lo, hi))
    /\ region.right = Min({hi} \cup
           {k - 1 : k \in {j \in region.left + 1 .. hi : Type(j) = type}})

\* stab_binsearch is right in each of the three searches of debuginfo_eip that
\* can succeed, with two entries at one address, entries of other types between
\* and addresses on the border of two entries.
SearchBrackets ==
    Written => \A addr \in Base .. Limit :
        LET file == FileRegion(addr)
            fun == FunRegion(addr)
            rel == addr - Value(fun.left)
        IN  /\ UpTo(SO, addr, 0, Len(stabs) - 1) # {} =>
                   Brackets(file, SO, addr, 0, Len(stabs) - 1)
            /\ UpTo(Fun, addr, file.left, file.right) # {} =>
                   /\ Brackets(fun, Fun, addr, file.left, file.right)
                   /\ UpTo(SLine, rel, fun.left, fun.right) # {} =>
                         Brackets(LineRegion(addr), SLine, rel,
                                  fun.left, fun.right)

\* The end of the code that an entry of a line stands for.
LineEnd(k) ==
    LET funs == {j \in Index : Type(j) = Fun /\ j < k
                        /\ \A i \in j .. k : Type(i) # SO}
        start(j) == IF funs = {} THEN Value(j) ELSE Value(j) + Value(Max(funs))
        later == {j \in Index : j > k /\ Type(j) = SLine
                        /\ \A i \in k .. j : Type(i) \notin {Fun, SO}}
        next == {j \in Index : j > k /\ Type(j) \in {Fun, SO}}
    IN  IF later # {} THEN start(Min(later))
        ELSE IF next # {} THEN Value(Min(next)) ELSE at

LineStart(k) ==
    LET funs == {j \in Index : Type(j) = Fun /\ j < k
                        /\ \A i \in j .. k : Type(i) # SO}
    IN  IF funs = {} THEN Value(k) ELSE Value(k) + Value(Max(funs))

\* The entry of the line whose code holds the address; none if it is 0.
TheLine(addr) ==
    Max({0} \cup {k \in Index : /\ Type(k) = SLine
                                /\ addr \in LineStart(k) .. LineEnd(k) - 1})

\* The code of every line is found, in the function that it was written in, with
\* as many arguments, and in the file that was named last before it.
Found ==
    Written => \A addr \in Base .. at - 1 :
        LET k == TheLine(addr)
            inFile == Max({j \in 0 .. k : Type(j) = SO})
            funs == {j \in inFile .. k : Type(j) = Fun}
            fn == IF funs = {} THEN 0 ELSE Max(funs)
        IN  k # 0 =>
               /\ ~Unknown(addr)
               /\ Info(addr).fn = fn
               /\ Info(addr).file =
                      Max({j \in inFile .. k : Type(j) \in {SO, SOL}})
               /\ Info(addr).narg =
                      Cardinality({j \in fn .. k : fn # 0 /\ Type(j) = PSym})

\* Not kept by the code, see "Disagreements" in README.md:
\* "If found, set info->eip_line to the right line number": the line is the one
\* whose code holds the address.
LineRight ==
    Written => \A addr \in Base .. at - 1 :
        TheLine(addr) # 0 /\ ~Unknown(addr) => Info(addr).line = TheLine(addr)
=============================================================================

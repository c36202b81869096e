------------------------------- MODULE EfiCalls -------------------------------
(***************************************************************************)
(* Where gnu-efi passes from one calling convention to another, or leaves  *)
(* the order of calls: the stubs of x86_64 that call the firmware          *)
(* (lib/x86_64/efi_stub.S) with the macro that chooses among them          *)
(* (inc/x86_64/efibind.h) and the program that tests them (apps/tcc.c),    *)
(* and setjmp and longjmp of every machine (lib/<machine>/setjmp.S).      *)
(*                                                                         *)
(* What a register holds is a value without structure; addresses on the    *)
(* stack are bytes from the stack pointer at entry.                        *)
(***************************************************************************)
EXTENDS Answers, SequencesExt

CONSTANTS
  ArgumentLists,  \* what the firmware's functions are called with
  JumpValues,     \* what longjmp is given, and
  Half            \* the number of values an int has

-------------------------------------------------------------------------------
(***************************************************************************)
(* efi_call0 to efi_call10, for firmware of the Microsoft convention       *)
(* called from code of the ELF one.                                        *)
(***************************************************************************)
\* The eleven numbers are pushed on by the arguments, and the twelfth item is taken.
__VA_NARG__(args) == (<<"_0">> \o args \o [k \in 1 .. 11 |-> 11 - k])[12]

R(name) == <<name, 0>>
At(offset) == <<"stack", offset>>

\* Where the caller puts the arguments: into registers, after the function's own, and
\* above the return address.
ElfPlace(k) == IF k <= 5 THEN R(<<"rsi", "rdx", "rcx", "r8", "r9">>[k]) ELSE At(8 * (k - 5))

_cast64_efi_call(args) ==
  [place \in {ElfPlace(k) : k \in 1 .. 10} \union {R("rax")} \union {At(8 * k) : k \in -11 .. 0} |->
     IF place = At(0) THEN "return"
     ELSE IF \E k \in DOMAIN args : place = ElfPlace(k)
     THEN args[CHOOSE k \in DOMAIN args : place = ElfPlace(k)] ELSE "junk"]

Frame(n) == CASE n <= 5 -> 40 [] n \in {6, 7} -> 56 [] n \in {8, 9} -> 72 [] n = 10 -> 88

\* Where what is called looks for them.
MsPlace(k, n) == IF k <= 4 THEN R(<<"rcx", "rdx", "r8", "r9">>[k]) ELSE At(8 * (k - 1) - Frame(n))

\* A mutation: the registers are moved in the order of the arguments.
RegisterMoves_Forward(n) ==
  LET moved == SelectSeq(<<1, 3, 4, 5>>, LAMBDA k : k <= n)
  IN  [k \in DOMAIN moved |-> <<MsPlace(moved[k], n), ElfPlace(moved[k])>>]

\* The last arguments are moved first, through rax; then the registers, of which rdx
\* is the second argument's in both conventions.
StackMoves(n) ==
  [k \in 1 .. (IF n > 5 THEN 2 * (n - 5) ELSE 0) |->
     LET arg == n - (k - 1) \div 2
     IN  IF k % 2 = 1 THEN <<R("rax"), ElfPlace(arg)>> ELSE <<MsPlace(arg, n), R("rax")>>]
RegisterMoves(n) ==
  LET moved == SelectSeq(<<5, 4, 3, 1>>, LAMBDA k : k <= n)
  IN  [k \in DOMAIN moved |-> <<MsPlace(moved[k], n), ElfPlace(moved[k])>>]

\* What the called function finds as its arguments, where the stack pointer is and
\* what it will return to.
uefi_call_wrapper(args) ==
  LET n == __VA_NARG__(args)
      m == FoldLeft(LAMBDA s, move : [s EXCEPT ![move[1]] = s[move[2]]],
                    _cast64_efi_call(args), StackMoves(n) \o RegisterMoves(n))
  IN  [args |-> [k \in 1 .. n |-> m[MsPlace(k, n)]], rsp |-> -Frame(n), return |-> m[At(0)]]

\* apps/tcc.c: each callback compares its arguments from the first, and says which is
\* wrong.
Wanted == <<"12345678", "23456789", "3456789a", "456789ab", "56789abc", "6789abcd",
            "789abcde", "89abcdef", "9abcdef0", "abcdef01">>
Errors == <<"LOAD_ERROR", "INVALID_PARAMETER", "UNSUPPORTED", "BAD_BUFFER_SIZE",
            "BUFFER_TOO_SMALL", "NOT_READY", "DEVICE_ERROR", "WRITE_PROTECTED",
            "OUT_OF_RESOURCES", "VOLUME_CORRUPTED">>
test_callback(received) ==
  LET wrong == {k \in DOMAIN received : received[k] # Wanted[k]}
  IN  IF wrong = {} THEN "SUCCESS" ELSE Errors[CHOOSE k \in wrong : \A l \in wrong : k <= l]
test_call(n) == test_callback(uefi_call_wrapper(SubSeq(Wanted, 1, n)).args)

\* A callback that fails must be seen to fail; then the first that fails ends it.
test_failure == "UNSUPPORTED"
tcc_main ==
  LET failed == {n \in 0 .. 10 : test_call(n) # "SUCCESS"}
  IN  IF test_failure = "SUCCESS" THEN "INVALID_PARAMETER"
      ELSE IF failed = {} THEN "SUCCESS" ELSE test_call(CHOOSE n \in failed : \A m \in failed : n <= m)

firmware_call ==
  \/ \E args \in ArgumentLists : Answers("uefi_call_wrapper", args, uefi_call_wrapper(args))
  \/ Answers("tcc", 0, tcc_main)

-------------------------------------------------------------------------------
(***************************************************************************)
(* setjmp and longjmp: sequences of registers and of the offsets at which  *)
(* the buffer keeps them.  "to" is where a routine goes when it ends.      *)
(***************************************************************************)
\* Registers one after the other: numbered ones of a kind, and named ones.
Run(kind, first, n, offset, step) ==
  [k \in 1 .. n |-> <<<<kind, first + k - 1>>, offset + step * (k - 1)>>]
Named(names, offset, step) == [k \in DOMAIN names |-> <<R(names[k]), offset + step * (k - 1)>>]

\* Registers with the distance to the next, from an offset on.
Walk(offset, steps) ==
  [k \in DOMAIN steps |->
     <<steps[k][1], offset + FoldLeft(LAMBDA sum, s : sum + s[2], 0, SubSeq(steps, 1, k - 1))>>]

\* The return address is taken off the stack before the pointer is kept.
x86_64_setjmp == Named(<<"rbx", "sp", "rbp">>, 0, 8) \o Run("r", 12, 4, 24, 8) \o Named(<<"to">>, 56, 8)
x86_64_longjmp == Named(<<"rbx", "sp", "rbp">>, 0, 8) \o Run("r", 12, 4, 24, 8) \o Named(<<"to">>, 56, 8)

\* No return address is kept, and longjmp is three registers long.
ia32_setjmp == Named(<<"ebx", "esi", "edi", "ebp", "sp">>, 0, 4)
ia32_longjmp == Named(<<"ebx", "esi", "edi">>, 0, 4)

\* The stack pointer goes through r3, but not back; longjmp is one instruction.
arm_setjmp == Named(<<"sp">>, 0, 4) \o Run("r", 4, 9, 4, 4) \o Named(<<"to">>, 40, 4)
arm_longjmp == Named(<<"r3">>, 0, 4) \o Run("r", 4, 9, 4, 4) \o Named(<<"lr">>, 40, 4)

aarch64_GPR_LAYOUT == Run("x", 19, 11, 0, 8) \o Named(<<"to", "sp">>, 88, 8)
aarch64_FPR_LAYOUT == Run("d", 8, 8, 112, 8)

riscv64_GREG_LIST == Run("s", 0, 12, 0, 8) \o Named(<<"sp", "to">>, 96, 8)
riscv64_FREG_LIST == Run("fs", 0, 12, 112, 8)

mips64el_setjmp(float) ==
  Named(<<"to", "sp", "fp", "gp">>, 0, 8) \o Run("s", 0, 8, 32, 8)
    \o IF float THEN Run("f", 24, 8, 96, 8) ELSE << >>
mips64el_longjmp(float) ==
  Named(<<"to", "sp", "fp", "gp">>, 0, 8) \o Run("s", 0, 8, 32, 8)
    \o IF float THEN Run("f", 24, 8, 96, 8) ELSE << >>

\* The return address is kept from loc1, which nothing has put it into.
ia64_setjmp ==
  Run("f", 2, 4, 0, 16) \o Run("f", 16, 16, 64, 16)
    \o Run("r", 4, 4, 320, 8) \o Named(<<"sp", "loc1">>, 352, 8) \o Run("b", 1, 5, 368, 8)
    \o Named(<<"unat", "spilled", "pfs", "bsp", "pr", "lc", "fpsr">>, 408, 8)

\* Two pointers walk through the buffer; fpsr is read into r28 and not used.
ia64_longjmp ==
  Run("f", 2, 4, 0, 16) \o Run("f", 16, 13, 64, 16)
    \o Walk(320 + 8 * 14,
            <<<<R("bsp"), -16>>, <<R("spilled"), -8>>, <<R("unat"), -8>>>>
              \o [k \in 1 .. 5 |-> <<<<"b", 6 - k>>, -8>>] \o <<<<R("to"), -16>>>>
              \o [k \in 1 .. 4 |-> <<<<"r", 8 - k>>, IF k = 4 THEN 8 * 13 ELSE -8>>]
              \o <<<<R("pfs"), 16>>, <<R("pr"), 8>>, <<R("lc"), 8>>, <<R("r28"), -17 * 8 - 16>>,
                   <<<<"f", 31>>, -16>>, <<<<"f", 30>>, -16>>, <<<<"f", 29>>, 16 * 3 + 8 * 4>>,
                   <<R("sp"), 0>>>>)

Setjmp(machine, float) ==
  CASE machine = "x86_64" -> x86_64_setjmp
    [] machine = "ia32" -> ia32_setjmp
    [] machine = "arm" -> arm_setjmp
    [] machine = "aarch64" -> aarch64_GPR_LAYOUT \o aarch64_FPR_LAYOUT
    [] machine = "riscv64" -> riscv64_GREG_LIST \o (IF float THEN riscv64_FREG_LIST ELSE << >>)
    [] machine = "mips64el" -> mips64el_setjmp(float)
    [] machine = "ia64" -> ia64_setjmp
Longjmp(machine, float) ==
  CASE machine = "x86_64" -> x86_64_longjmp
    [] machine = "ia32" -> ia32_longjmp
    [] machine = "arm" -> arm_longjmp
    [] machine = "ia64" -> ia64_longjmp
    [] machine = "mips64el" -> mips64el_longjmp(float)
    [] OTHER -> Setjmp(machine, float)

\* What setjmp returns the second time: on two machines an int is looked at, on ia64
\* zero is passed on, and two never get there.
LongjmpValue(machine, value) ==
  CASE machine \in {"x86_64", "aarch64"} -> IF value % Half = 0 THEN 1 ELSE value % Half
    [] machine \in {"riscv64", "mips64el"} -> IF value = 0 THEN 1 ELSE value
    [] OTHER -> value

\* What is in the registers longjmp restores: those of the call of setjmp.
jump ==
  \E machine \in {"x86_64", "ia32", "arm", "aarch64", "riscv64", "mips64el", "ia64"},
     float \in BOOLEAN, value \in JumpValues :
    LET env == FoldLeft(LAMBDA m, s : (s[2] :> s[1]) @@ m, << >>, Setjmp(machine, float))
    IN  Answers("longjmp", [machine |-> machine, float |-> float, value |-> value],
                [regs |-> FoldLeft(LAMBDA r, s : (s[1] :> env[s[2]]) @@ r, << >>, Longjmp(machine, float)),
                 value |-> LongjmpValue(machine, value)])

-------------------------------------------------------------------------------
\* The registers that a function must leave as they were, by each machine's convention.
Preserved(machine, float) ==
  CASE machine = "x86_64" -> {R("rbx"), R("rbp")} \union ({"r"} \X (12 .. 15))
    [] machine = "aarch64" -> ({"x"} \X (19 .. 29)) \union ({"d"} \X (8 .. 15))
    [] machine = "riscv64" -> {<<kind, n>> \in {"s", "fs"} \X (0 .. 11) : float \/ kind = "s"}
    [] machine = "mips64el" ->
         {R("fp"), R("gp")} \union ({"s"} \X (0 .. 7)) \union {<<"f", n>> : n \in IF float THEN 24 .. 31 ELSE {}}

\* Functions of the firmware find every argument where their convention has it,
\* however many there are, on a stack that is aligned, with room of their own for the
\* first four that is above it and below the return address; the program that tests
\* this comes to its end.
CallsArrive ==
  /\ answer.of = "uefi_call_wrapper" =>
       LET out == answer.out
       IN  /\ out.args = answer.in /\ out.return = "return"
           /\ (out.rsp + 8) % 16 = 0   \* at the stub's entry, it is off by the return address
           /\ out.rsp + 8 * (IF Len(out.args) > 4 THEN Len(out.args) ELSE 4) <= 0
  /\ answer.of = "tcc" => answer.out = "SUCCESS"

\* longjmp returns from setjmp: to its caller, on its stack, with all the registers a
\* function must keep as they were, and not with zero.  On ia32 and arm the routine
\* is cut off before its end and on ia64 setjmp itself does not find back: there, what
\* is restored is at least what was kept.
JumpsReturn ==
  answer.of = "longjmp" =>
    LET in == answer.in
        out == answer.out
    IN  /\ in.machine \notin {"ia32", "arm", "ia64"} =>
             /\ \A r \in Preserved(in.machine, in.float) \union {R("sp"), R("to")} : out.regs[r] = r
             /\ out.value # 0
             /\ in.value \in 1 .. Half - 1 => out.value = in.value
        /\ in.machine \in {"ia32", "arm", "ia64"} =>
             \A r \in DOMAIN out.regs :
               out.regs[r] \in {r} \union (CASE r = R("r3") -> {R("sp")} [] r = R("lr") -> {R("to")}
                                            [] r = R("r28") -> {R("fpsr")} [] r = R("to") -> {R("loc1")}
                                            [] OTHER -> {})
===============================================================================

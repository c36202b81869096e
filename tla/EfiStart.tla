------------------------------- MODULE EfiStart -------------------------------
(***************************************************************************)
(* The first instructions of an image (gnuefi/crt0-efi-<machine>.S): they  *)
(* are called by the firmware with the image's handle and the system       *)
(* table, let the image relocate itself, and call efi_main.                *)
(*                                                                         *)
(* Each is a sequence of instructions on registers and on the stack, whose *)
(* addresses are bytes from the stack pointer at entry.                    *)
(***************************************************************************)
EXTENDS Answers, SequencesExt

CONSTANTS
  Statuses,    \* what _relocate and efi_main return; EFI_SUCCESS is 0
  MaxSteps,    \* steps after which an image is taken to run for ever
  LinkedSizes  \* bytes of code and of data that are linked

mov(d, s) == <<"mov", d, s>>           \* the register d from s, or from an address
sp(n) == <<"sp", n>>                   \* the stack pointer is moved
st(r, offset) == <<"st", r, offset>>   \* to the stack, from the stack pointer on
ld(r, offset) == <<"ld", r, offset>>
push(r) == <<"push", r>>
pop(r) == <<"pop", r>>
jal(f) == <<"call", f>>
jnz(to) == <<"jnz", to>>               \* goes to an instruction if the result is not 0
ret == <<"ret">>

\* The result of _relocate is not looked at.
x86_64_start ==
  <<sp(-8), push("rcx"), push("rdx"), mov("rdi", "ImageBase"), mov("rsi", "_DYNAMIC"),
    pop("rcx"), pop("rdx"), push("rcx"), push("rdx"), jal("_relocate"),
    pop("rdi"), pop("rsi"), jal("efi_main"), sp(8), ret>>

\* leave puts the stack pointer back to the frame, and pops the frame's register.
ia32_start ==
  <<push("ebp"), ld("eax", 12), push("eax"), ld("eax", 12), push("eax"),
    mov("eax", "ImageBase"), mov("ebx", "_DYNAMIC"), push("ebx"), push("eax"), jal("_relocate"),
    pop("ebx"), pop("ebx"), jnz(15), jal("efi_main"), <<"spto", -4>>, pop("ebp"), ret>>

aarch64_start ==
  <<sp(-32), st("x29", 0), st("lr", 8), st("x0", 16), st("x1", 24),
    mov("x0", "ImageBase"), mov("x1", "_DYNAMIC"), jal("_relocate"), jnz(13),
    ld("x0", 16), ld("x1", 24), jal("efi_main"), ld("x29", 0), ld("lr", 8), sp(32), ret>>

arm_start ==
  <<sp(-16), st("r0", 0), st("r1", 4), st("r2", 8), st("lr", 12),
    mov("r1", "_DYNAMIC"), mov("r0", "ImageBase"), jal("_relocate"), jnz(13),
    ld("r0", 0), ld("r1", 4), jal("efi_main"), sp(12), ld("lr", 0), sp(4), ret>>

\* Where a failure goes, the return address is not loaded any more.
riscv64_start ==
  <<sp(-24), st("a0", 0), st("a1", 8), st("lr", 16),
    mov("a0", "ImageBase"), mov("a1", "_DYNAMIC"), jal("_relocate"), jnz(13),
    ld("a1", 8), ld("a0", 0), jal("efi_main"), ld("lr", 16), sp(24), ret>>

\* There are two labels 1, and on failure it is the one before that is meant: what is
\* found through the return address is found through that of _relocate now.
mips64el_start ==
  <<sp(-32), st("lr", 0), <<"bal">>, st("gp", 8), <<"pc">>, st("a0", 16), st("a1", 24),
    mov("a0", "ImageBase"), mov("a1", "_DYNAMIC"), jal("_relocate"), jnz(5),
    ld("a0", 16), ld("a1", 24), jal("efi_main"), ld("gp", 8), ld("lr", 0), sp(32), ret>>

\* The registers of the frame are the function's own.
ia64_start ==
  <<mov("loc1", "lr"), mov("out0", "ImageBase"), mov("out1", "_DYNAMIC"), jal("_relocate"),
    jnz(9), mov("out0", "in0"), mov("out1", "in1"), jal("efi_main"), mov("lr", "loc1"), ret>>

\* [code, word: bytes of a push, given and passed: registers of the arguments of the
\* image and of its functions, link: whether calls leave the return address in lr,
\* kept: other registers functions keep]
StartOf(code, word, given, passed, link, kept) ==
  [code |-> code, word |-> word, given |-> given, passed |-> passed, link |-> link, kept |-> kept]
Starts ==
  [x86_64 |-> StartOf(x86_64_start, 8, <<"rcx", "rdx">>, <<"rdi", "rsi">>, FALSE, {}),
   ia32 |-> StartOf(ia32_start, 4, <<>>, <<>>, FALSE, {"ebp", "ebx"}),
   aarch64 |-> StartOf(aarch64_start, 8, <<"x0", "x1">>, <<"x0", "x1">>, TRUE, {"x29"}),
   arm |-> StartOf(arm_start, 4, <<"r0", "r1">>, <<"r0", "r1">>, TRUE, {}),
   riscv64 |-> StartOf(riscv64_start, 8, <<"a0", "a1">>, <<"a0", "a1">>, TRUE, {}),
   mips64el |-> StartOf(mips64el_start, 8, <<"a0", "a1">>, <<"a0", "a1">>, TRUE, {"gp"}),
   ia64 |-> StartOf(ia64_start, 8, <<"in0", "in1">>, <<"out0", "out1">>, TRUE, {"in0", "in1", "loc1"})]

\* Every value is a name with a number, so that any two can be compared.
Val(name) == <<name, 0>>
Before(M) ==
  [at |-> 1, sp |-> 0, ends |-> "running", result |-> 0, calls |-> << >>,
   r |-> ("lr" :> Val("return") @@ "gp" :> Val("gp") @@ "ebp" :> Val("ebp") @@ "x29" :> Val("x29")
          @@ "r2" :> Val("r2") @@ "in0" :> Val("image") @@ "in1" :> Val("systab"))
         @@ [r \in Range(M.given) |-> IF r = M.given[1] THEN Val("image") ELSE Val("systab")],
   m |-> (0 :> Val("return")) @@ (M.word :> Val("image")) @@ (2 * M.word :> Val("systab"))]

SetReg(s, r, v) == [s EXCEPT !.r = (r :> v) @@ @, !.at = @ + 1]
StoreAt(s, a, v) == [s EXCEPT !.m = (a :> v) @@ @, !.at = @ + 1]
GoesTo(s, to) ==
  CASE to = Val("return") -> [s EXCEPT !.ends = "returned"]
    [] to[1] = "after" -> [s EXCEPT !.at = to[2]]
    [] OTHER -> [s EXCEPT !.ends = "lost"]

\* A function is given what is in its registers, or on top of the stack, and leaves its
\* result and, of the registers, those it must keep.
Called(M, s, f, status) ==
  LET args == IF M.passed = << >> THEN <<s.m[s.sp], s.m[s.sp + M.word]>>
              ELSE [k \in 1 .. 2 |-> s.r[M.passed[k]]]
  IN  [s EXCEPT !.calls = Append(@, [f |-> f, args |-> args, sp |-> s.sp]),
                !.result = status[f], !.at = @ + 1,
                !.r = [r \in DOMAIN @ |-> IF r = "lr" /\ M.link THEN <<"after", s.at + 1>>
                                          ELSE IF r \in M.kept THEN @[r] ELSE Val("junk")]]

Instruction(M, s, status) ==
  LET op == M.code[s.at]
      value(x) == IF x \in DOMAIN s.r THEN s.r[x] ELSE Val(x)
  IN  CASE op[1] = "mov" -> SetReg(s, op[2], value(op[3]))
        [] op[1] = "sp" -> [s EXCEPT !.sp = @ + op[2], !.at = @ + 1]
        [] op[1] = "spto" -> [s EXCEPT !.sp = op[2], !.at = @ + 1]
        [] op[1] = "st" -> StoreAt(s, s.sp + op[3], s.r[op[2]])
        [] op[1] = "ld" -> SetReg(s, op[2], s.m[s.sp + op[3]])
        [] op[1] = "push" -> [StoreAt(s, s.sp - M.word, s.r[op[2]]) EXCEPT !.sp = @ - M.word]
        [] op[1] = "pop" -> [SetReg(s, op[2], s.m[s.sp]) EXCEPT !.sp = @ + M.word]
        [] op[1] = "bal" -> SetReg(s, "lr", Val("_pc"))
        [] op[1] = "pc" -> IF s.r["lr"] = Val("_pc") THEN SetReg(s, "gp", Val("own"))
                           ELSE [s EXCEPT !.ends = "lost"]
        [] op[1] = "call" -> Called(M, s, op[2], status)
        [] op[1] = "jnz" -> [s EXCEPT !.at = IF s.result # 0 THEN op[2] ELSE @ + 1]
        [] op[1] = "ret" -> IF M.link THEN GoesTo(s, s.r["lr"])
                            ELSE GoesTo([s EXCEPT !.sp = @ + M.word], s.m[s.sp])

_start(machine, status) ==
  FoldLeft(LAMBDA s, k : IF s.ends = "running" THEN Instruction(Starts[machine], s, status) ELSE s,
           Before(Starts[machine]), [k \in 1 .. MaxSteps |-> k])

start ==
  \E machine \in DOMAIN Starts, status \in [{"_relocate", "efi_main"} -> Statuses] :
    Answers("_start", [machine |-> machine, status |-> status], _start(machine, status))

-------------------------------------------------------------------------------
(***************************************************************************)
(* Where objcopy cannot make an image, the same files begin with the       *)
(* header that the firmware loads it by, written out field after field     *)
(* with the linker's symbols in it (elf_<machine>_efi.lds).  ImageBase is  *)
(* address 0 and the beginning of the file.                                *)
(***************************************************************************)
Field(name, bytes, value) == [name |-> name, bytes |-> bytes, value |-> value]
ZeroBytes(bytes) == Field("zero", bytes, 0)
SizeInBytes(fields) == FoldLeft(LAMBDA sum, f : sum + f.bytes, 0, fields)

\* The fields from the machine's number on, behind "PE", of 20 bytes.
coff_header(Machine, sections, OptionalSize, Characteristics) ==
  <<Field("Machine", 2, Machine), Field("nr_sections", 2, Len(sections)), ZeroBytes(12),
    Field("SizeOfOptionalHeader", 2, OptionalSize), Field("Characteristics", 2, Characteristics)>>

\* o: the sizes of code and data, and the alignments.  PE32 has words of 4 bytes, and a
\* field more.
optional_header(format, o, at) ==
  LET word == IF format = "PE32" THEN 4 ELSE 8
  IN  <<Field("Magic", 2, format), Field("LinkerVersion", 2, 532), Field("SizeOfCode", 4, o.code),
        Field("SizeOfInitializedData", 4, o.data), ZeroBytes(4),
        Field("AddressOfEntryPoint", 4, at._start), Field("BaseOfCode", 4, at._start)>>
      \o (IF format = "PE32" THEN <<ZeroBytes(4)>> ELSE << >>)
      \o <<Field("ImageBase", word, 0), Field("SectionAlignment", 4, o.memory),
           Field("FileAlignment", 4, o.file), ZeroBytes(16), Field("SizeOfImage", 4, at._edata),
           Field("SizeOfHeaders", 4, at._start), ZeroBytes(4), Field("Subsystem", 2, "EFI_SUBSYSTEM"),
           ZeroBytes(2), ZeroBytes(4 * word), ZeroBytes(4), Field("NumberOfRvaAndSizes", 4, 6),
           ZeroBytes(6 * 8)>>

\* A section's size and address are the same in the file and in memory.
Section(name, from, to, flags) ==
  <<Field(name, 8, name), Field("VirtualSize", 4, to - from), Field("VirtualAddress", 4, from),
    Field("SizeOfRawData", 4, to - from), Field("PointerToRawData", 4, from), ZeroBytes(12),
    Field("flags", 4, flags)>>

PeHeader(Machine, Characteristics, format, o, at, sections) ==
  <<Field("MZ", 2, "MZ"), ZeroBytes(58), Field("pe_header", 4, 64), Field("PE", 4, "PE")>>
    \o coff_header(Machine, sections, SizeInBytes(optional_header(format, o, at)), Characteristics)
    \o optional_header(format, o, at) \o FlattenSeq(sections)

CodeFlags == {"code", "execute", "read"}
DataFlags == {"data", "read", "write"}
AllFlags == CodeFlags \union {"write", "align 16"}
reloc_section == Section(".reloc", 0, 0, {"data", "discardable", "read", "align 1"})
Executable == {"debug stripped", "executable", "line numbers stripped"}
Sizes(code, data, memory, file) == [code |-> code, data |-> data, memory |-> memory, file |-> file]

aarch64_header(at) ==
  PeHeader(\Haa64, Executable, "PE32+", Sizes(at._data - at._start, at._data_size, 4096, 512), at,
           <<Section(".text", at._start, at._data, CodeFlags),
             Section(".data", at._data, at._data + at._data_size, DataFlags)>>)

arm_header(at) ==
  PeHeader(\H1c2, Executable \union {"32 bits"}, "PE32", Sizes(at._edata - at._start, 0, 32, 8), at,
           <<reloc_section, Section(".text", at._start, at._edata, AllFlags)>>)

mips64el_header(at) ==
  PeHeader(\H166, Executable, "PE32+", Sizes(at._edata - at._start, 0, 32, 8), at,
           <<reloc_section, Section(".text", at._start, at._edata, AllFlags)>>)

riscv64_header(at) ==
  PeHeader(\H5064, Executable, "PE32+", Sizes(at._data - at._start, at._data_size, 4096, 512), at,
           <<reloc_section, Section(".text", at._start, at._edata, AllFlags)>>)

HeaderOf(machine, at) ==
  CASE machine = "aarch64" -> aarch64_header(at) [] machine = "arm" -> arm_header(at)
    [] machine = "mips64el" -> mips64el_header(at) [] machine = "riscv64" -> riscv64_header(at)

\* The linker's addresses for so much code and so much data: _start and the data are
\* aligned as the assembler and the script have it, and so is the end of the data.
Up(n, to) == ((n + to - 1) \div to) * to
Paged == {"aarch64", "riscv64"}
LinkedAt(machine, code, data) ==
  LET nowhere == [_start |-> 0, _data |-> 0, _data_size |-> 0, _edata |-> 0]
      start_align == IF machine \in Paged THEN 4096 ELSE IF machine = "mips64el" THEN 16 ELSE 1
      first == Up(SizeInBytes(HeaderOf(machine, nowhere)), start_align)
      _etext == Up(first + code, 16)
      _data == Up(_etext, IF machine \in Paged THEN 4096 ELSE 16)
      _edata == Up(_data + data, IF machine \in Paged THEN 512 ELSE 16)
  IN  [_start |-> first, _data |-> _data, _edata |-> _edata,
       _data_size |-> _edata - (IF machine \in Paged THEN _data ELSE _etext)]

\* What the firmware reads at the offsets that the format of such files has: the value
\* of the field that begins there, and is as long.
FieldAt(fields, offset, bytes) ==
  LET there == {n \in DOMAIN fields : /\ SizeInBytes(SubSeq(fields, 1, n - 1)) = offset
                                      /\ fields[n].bytes = bytes}
  IN  IF there = {} THEN -1 ELSE fields[CHOOSE n \in there : TRUE].value

ReadHeader(fields) ==
  LET pe == FieldAt(fields, 60, 4)
      optional == pe + 24
      plus == FieldAt(fields, optional, 2) = "PE32+"
      table == optional + FieldAt(fields, pe + 20, 2)
      section(n) ==
        LET s == table + 40 * (n - 1)
        IN  [VirtualSize |-> FieldAt(fields, s + 8, 4), VirtualAddress |-> FieldAt(fields, s + 12, 4),
             SizeOfRawData |-> FieldAt(fields, s + 16, 4), PointerToRawData |-> FieldAt(fields, s + 20, 4),
             flags |-> FieldAt(fields, s + 36, 4)]
  IN  [signed |-> FieldAt(fields, 0, 2) = "MZ" /\ FieldAt(fields, pe, 4) = "PE",
       directories |-> FieldAt(fields, optional + (IF plus THEN 108 ELSE 92), 4),
       optional_size |-> (table - optional) - (IF plus THEN 112 ELSE 96),
       SizeOfCode |-> FieldAt(fields, optional + 4, 4),
       SizeOfInitializedData |-> FieldAt(fields, optional + 8, 4),
       entry |-> FieldAt(fields, optional + 16, 4),
       SectionAlignment |-> FieldAt(fields, optional + 32, 4),
       FileAlignment |-> FieldAt(fields, optional + 36, 4),
       SizeOfImage |-> FieldAt(fields, optional + 56, 4),
       SizeOfHeaders |-> FieldAt(fields, optional + 60, 4),
       table_ends |-> table + 40 * FieldAt(fields, pe + 6, 2),
       sections |-> [n \in 1 .. FieldAt(fields, pe + 6, 2) |-> section(n)]]

link ==
  \E machine \in {"aarch64", "arm", "mips64el", "riscv64"}, sizes \in LinkedSizes :
    LET at == LinkedAt(machine, sizes[1], sizes[2])
    IN  Answers("header", [machine |-> machine, at |-> at], ReadHeader(HeaderOf(machine, at)))

-------------------------------------------------------------------------------
\* An image that has relocated itself runs: efi_main is called once, with the handle and
\* the table it was given, on a stack as aligned as the convention wants it (riscv64
\* takes 24 bytes, not a multiple of 16), and its status goes back to the firmware, on
\* the firmware's stack.  One that has not is not run, and its failure goes back: but
\* x86_64 runs it all the same, riscv64 runs around its last instructions, and mips64el
\* jumps back to where it came from, and from there into nothing.
ImageStarts ==
  answer.of = "_start" =>
    LET machine == answer.in.machine
        status == answer.in.status
        out == answer.out
        failed == status["_relocate"] # 0
        called == Range(out.calls)
    IN  /\ out.calls[1].f = "_relocate" /\ out.calls[1].args = <<Val("ImageBase"), Val("_DYNAMIC")>>
        /\ \A c \in called : c.f = "efi_main" => c.args = <<Val("image"), Val("systab")>>
        /\ \A c \in called :
             CASE machine = "x86_64" -> (c.sp + 8) % 16 = 0
               [] machine \in {"aarch64", "mips64el"} -> c.sp % 16 = 0
               [] machine = "arm" -> c.sp % 8 = 0
               [] OTHER -> TRUE
        /\ Len(out.calls) = IF failed /\ machine # "x86_64" THEN 1 ELSE 2
        /\ IF failed /\ machine \in {"riscv64", "mips64el"}
           THEN out.ends = IF machine = "riscv64" THEN "running" ELSE "lost"
           ELSE /\ out.ends = "returned"
                /\ out.sp = IF Starts[machine].link THEN 0 ELSE Starts[machine].word
                /\ out.result = status[IF Len(out.calls) = 1 THEN "_relocate" ELSE "efi_main"]

\* Read at the format's offsets, a header written by hand is one: its parts have the
\* lengths it says, and what it has the firmware load is the image that was linked,
\* every byte from _start to _edata once, at the address it has in the file; it begins
\* at _start, in what can be executed, and the data can be written.  The sections begin
\* where the alignments of the header allow, but for arm and mips64el, whose code follows
\* the header at once and not at a multiple of 32 bytes.
Spans(s) == s.VirtualAddress .. s.VirtualAddress + s.VirtualSize - 1
HeadersLoad ==
  answer.of = "header" =>
    LET machine == answer.in.machine
        at == answer.in.at
        out == answer.out
        full == {n \in DOMAIN out.sections : out.sections[n].VirtualSize # 0}
        holds(address, flag) ==
          \E n \in full : address \in Spans(out.sections[n]) /\ flag \in out.sections[n].flags
    IN  /\ out.signed /\ out.optional_size = 8 * out.directories
        /\ out.table_ends <= out.SizeOfHeaders /\ out.SizeOfHeaders = at._start
        /\ UNION {Spans(out.sections[n]) : n \in full} = at._start .. out.SizeOfImage - 1
        /\ \A n, k \in full : n # k => Spans(out.sections[n]) \intersect Spans(out.sections[k]) = {}
        /\ out.SizeOfImage = at._edata
        /\ out.entry = at._start /\ holds(out.entry, "execute")
        /\ \A address \in at._data .. at._edata - 1 : holds(address, "write")
        /\ out.SizeOfCode + out.SizeOfInitializedData = at._edata - at._start
        /\ \A n \in full :
             LET s == out.sections[n]
             IN  /\ s.PointerToRawData = s.VirtualAddress /\ s.SizeOfRawData = s.VirtualSize
                 /\ s.PointerToRawData % out.FileAlignment = 0
                 /\ (s.VirtualAddress % out.SectionAlignment = 0) = (machine \in Paged)
===============================================================================

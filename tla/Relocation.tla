------------------------------ MODULE Relocation ------------------------------
(***************************************************************************)
(* _relocate (src/gnu-efi/gnuefi/reloc_*.c): before anything else runs, an *)
(* image finds its table of relocations in its dynamic section, and adds   *)
(* the address it was loaded at to the words the table names.  There is    *)
(* one such function for each architecture.                                *)
(*                                                                         *)
(* The words of the image are numbered; sums are taken modulo WordSize.    *)
(***************************************************************************)
EXTENDS Integers, Sequences

CONSTANTS
  Machines,     \* architectures
  ImageWords,   \* number of words of the image
  LoadBases,    \* where it may be loaded
  RelocTables,  \* tables: sequences of [type, offset, addend]
  GotSizes,     \* sizes of the table of local addresses, at the image's start
  WordSize,
  MAX_FUNCTION_DESCRIPTORS

\* The entries of a table name words of the image.
Elf_Rela == [type : STRING, offset : 0 .. ImageWords - 1, addend : 0 .. WordSize - 1]

ASSUME RelocationAssumption ==
  /\ WordSize \in Nat \ {0} /\ ImageWords \in 0 .. WordSize /\ MAX_FUNCTION_DESCRIPTORS \in Nat
  /\ LoadBases \subseteq Nat
  /\ GotSizes \subseteq 0 .. ImageWords
  /\ RelocTables \subseteq Seq(Elf_Rela)

\* Those that take the addend from the table: the others add to what is in the word,
\* x86_64 too, whose table has addends, because its linker puts them in both places.
FromTable == {"aarch64", "riscv64"}

VARIABLES
  machine, ldbase, table,
  dynamic,      \* the dynamic section: [rel, relsz, relent, addr, gotsz], with what
                \* is not in it FALSE or 0; sizes are in entries
  image,        \* the words
  rel, relsz,   \* the entry that is next, and how many are left
  gotsz,        \* words of the table of local addresses left
  fptr,         \* on ia64, the entry points of the function descriptors made
  relocated     \* "scan", "applying", "success", "load_error", "buffer_too_small", "hangs"

reloc_vars == <<machine, ldbase, table, dynamic, image, rel, relsz, gotsz, fptr, relocated>>

\* The types of entries that add the load address to a word.
Adding == {"RELATIVE"} \union (IF machine = "ia64" THEN {"DIR64"} ELSE {})

\* The words of entries of some types, and the last entry for one of them.
Entries(types, n) == {k \in DOMAIN table : table[k].offset = n /\ table[k].type \in types}

\* What the linker left in a word.
Linked(n) ==
  LET here == Entries(Adding, n)
  IN  IF here = {} THEN n
      ELSE IF machine \in FromTable THEN 0 ELSE table[CHOOSE k \in here : TRUE].addend

RelocInit ==
  /\ machine \in Machines /\ ldbase \in LoadBases /\ table \in RelocTables
  /\ dynamic \in [rel : BOOLEAN, relsz : {0, Len(table)}, relent : {0, 1},
                  addr : BOOLEAN, gotsz : GotSizes]
  /\ dynamic.relsz = IF dynamic.rel THEN Len(table) ELSE 0
  /\ machine # "mips64el" => dynamic.gotsz = 0 /\ ~dynamic.addr
  /\ machine = "ia64" => dynamic.rel /\ dynamic.relent = 1  \* read without being set, else
  /\ image = [n \in 0 .. ImageWords - 1 |-> Linked(n)]
  /\ rel = 1 /\ relsz = 0 /\ gotsz = 0 /\ fptr = << >> /\ relocated = "scan"

Keep == UNCHANGED <<machine, ldbase, table, dynamic>>
Added(w) == (w + ldbase) % WordSize

\* Neither the table nor the size of an entry: nothing to do.  One without the other
\* is an error; on mips64el only a size without what it is the size of.
NothingToDo == ~dynamic.rel /\ dynamic.relent = 0 /\ ~dynamic.addr /\ dynamic.gotsz = 0
Wrong == IF machine = "mips64el"
         THEN (~dynamic.rel /\ dynamic.relent # 0) \/ (~dynamic.addr /\ dynamic.gotsz # 0)
         ELSE ~dynamic.rel \/ dynamic.relent = 0

scan_dynamic ==
  /\ relocated = "scan"
  /\ relocated' = IF NothingToDo THEN "success" ELSE IF Wrong THEN "load_error" ELSE "applying"
  /\ gotsz' = dynamic.gotsz
  /\ relsz' = dynamic.relsz
  /\ UNCHANGED <<image, rel, fptr>> /\ Keep

relocate_got ==
  /\ relocated = "applying" /\ gotsz > 0
  /\ image' = [image EXCEPT ![dynamic.gotsz - gotsz] = Added(@)]
  /\ gotsz' = gotsz - 1
  /\ UNCHANGED <<rel, relsz, fptr, relocated>> /\ Keep

\* A mutation: the addend is taken to be in the word on every machine.
applied_Added(word, e) == Added(word)
applied(word, e) == IF machine \in FromTable THEN Added(e.addend) ELSE Added(word)

\* Entries of other types are passed over, but riscv64 stops at them for good, and ia64
\* gives up; with entries of size 0 mips64el does not get past the first.
relocate_entry ==
  /\ relocated = "applying" /\ gotsz = 0 /\ relsz > 0
  /\ LET e == table[rel]
     IN  /\ image' = IF e.type \in Adding THEN [image EXCEPT ![e.offset] = applied(@, e)] ELSE image
         /\ relocated' = CASE dynamic.relent = 0 -> "hangs"
                           [] machine = "riscv64" /\ e.type # "RELATIVE" -> "hangs"
                           [] machine = "ia64" /\ e.type \notin Adding \union {"NONE"} -> "load_error"
                           [] OTHER -> relocated
         /\ ~(machine = "ia64" /\ e.type = "FPTR")
  /\ rel' = rel + dynamic.relent /\ relsz' = relsz - dynamic.relent
  /\ UNCHANGED <<gotsz, fptr>> /\ Keep

\* A pointer to a function is one to a descriptor, which is made here of the symbol's
\* value (the addend) and gp; the word is written even when there is no room for it.
Descriptor(k) == WordSize + k
apply_FPTR64 ==
  /\ relocated = "applying" /\ relsz > 0 /\ machine = "ia64" /\ table[rel].type = "FPTR"
  /\ image' = [image EXCEPT ![table[rel].offset] = Descriptor(Len(fptr) + 1)]
  /\ IF Len(fptr) = MAX_FUNCTION_DESCRIPTORS THEN relocated' = "buffer_too_small" /\ UNCHANGED fptr
     ELSE fptr' = Append(fptr, Added(table[rel].addend)) /\ UNCHANGED relocated
  /\ rel' = rel + dynamic.relent /\ relsz' = relsz - dynamic.relent
  /\ UNCHANGED gotsz /\ Keep

relocate_return ==
  /\ relocated = "applying" /\ gotsz = 0 /\ relsz = 0
  /\ relocated' = "success"
  /\ UNCHANGED <<image, rel, relsz, gotsz, fptr>> /\ Keep

RelocNext == scan_dynamic \/ relocate_got \/ relocate_entry \/ apply_FPTR64 \/ relocate_return
RelocSpec == RelocInit /\ [][RelocNext]_reloc_vars /\ WF_reloc_vars(RelocNext)

-------------------------------------------------------------------------------
\* The address a word of the image stands for, as linked.
Meant(n) ==
  LET here == Entries(Adding, n)
  IN  IF here = {} THEN n ELSE table[CHOOSE k \in here : TRUE].addend

\* With success, every word the tables name stands for the address it was linked for,
\* moved by where the image was loaded, once, or on ia64 for a descriptor of the
\* function, made for it alone; every other word is as it was; and an image for which
\* it is not so is not said to be relocated: the function has failed, or never returns
\* (an entry riscv64 does not know, a size of 0 on mips64el).
RelocatedOnce ==
  relocated = "success" =>
    \A n \in 0 .. ImageWords - 1 :
      IF machine = "ia64" /\ Entries({"FPTR"}, n) # {}
      THEN \E k \in DOMAIN fptr :
             /\ image[n] = Descriptor(k)
             /\ \E e \in Entries({"FPTR"}, n) : fptr[k] = Added(table[e].addend)
             /\ \A m \in 0 .. ImageWords - 1 : image[m] = image[n] => m = n
      ELSE image[n] = IF \/ dynamic.addr /\ n < dynamic.gotsz
                         \/ dynamic.rel /\ Entries(Adding, n) # {}
                      THEN Added(Meant(n)) ELSE Linked(n)
===============================================================================

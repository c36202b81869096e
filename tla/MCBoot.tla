-------------------------------- MODULE MCBoot --------------------------------
(***************************************************************************)
(* Small machines for Boot: 24 frames, tables of 8 entries in two levels,  *)
(* two devices of two functions to a bus.                                  *)
(***************************************************************************)
EXTENDS Boot

\* Three frames of kernel, the last of them .bss.
SmallSegments == <<[frame |-> 0, mem |-> 1, file |-> 1], [frame |-> 1, mem |-> 2, file |-> 1]>>

\* Firmware in between and at the end, where the loader's stack is: a buffer its
\* timer events may free, and ACPI's tables.
Flat == [f \in 0 .. 23 |->
           CASE f \in {4, 22} -> "boot_services"
             [] f = 20 -> "event"
             [] f = 21 -> "runtime"
             [] f = 23 -> "acpi"
             [] OTHER -> "conventional"]

\* The same without some frames in the middle: memory ends above the sum.
Holed(hole) == [f \in DOMAIN Flat \ hole |-> Flat[f]]

\* Boot services where .bss is to go, so that the segment's allocation fails, or
\* where code is to go.
Taken(f) == [Flat EXCEPT ![f] = "boot_services"]

\* Little is conventional: tables, heap or IDT are left without a frame.
Scarce(n) == [f \in DOMAIN Flat |->
                IF f \in n .. 19 THEN "boot_services" ELSE Flat[f]]

Usual ==
  [types |-> Flat, kernel |-> "good", font |-> "good", dirty |-> FALSE,
   config |-> <<"other", "acpi1", "acpi2">>, xsdt |-> <<"FACP", "MCFG">>,
   mcfg |-> <<[base |-> 48, start_bus |-> 1, end_bus |-> 3]>>,
   functions |-> {<<1, 1, 0, 0>>, <<1, 1, 0, 1>>, <<1, 1, 1, 0>>, <<1, 2, 1, 1>>,
                  <<1, 3, 0, 0>>}]

\* Function 0 of a device is absent; two descriptors of one bus and none.
Sparse ==
  [Usual EXCEPT
     !.mcfg = <<[base |-> 40, start_bus |-> 0, end_bus |-> 1],
                [base |-> 48, start_bus |-> 2, end_bus |-> 2],
                [base |-> 44, start_bus |-> 0, end_bus |-> 2]>>,
     !.functions = {<<1, 0, 0, 0>>, <<1, 0, 1, 1>>, <<3, 0, 0, 1>>, <<3, 1, 0, 0>>,
                    <<3, 1, 1, 0>>, <<3, 1, 1, 1>>}]

Other(m) == [Usual EXCEPT !.types = m, !.functions = {}]

SmallMachines ==
  {Usual, Sparse,
   Other(Holed({16})), Other(Holed({16, 17})), Other(Taken(1)), Other(Taken(2)),
   Other(Scarce(15)), Other(Scarce(16)), Other(Scarce(17)),
   [Usual EXCEPT !.kernel = "absent"], [Usual EXCEPT !.kernel = "bad"],
   [Usual EXCEPT !.font = "absent"],
   [Usual EXCEPT !.font = "bad", !.functions = {}],
   [Usual EXCEPT !.config = <<"acpi2", "acpi1">>, !.dirty = TRUE],
   [Usual EXCEPT !.config = <<"other">>], [Usual EXCEPT !.xsdt = <<"FACP">>]}

None == {}
===============================================================================

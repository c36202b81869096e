------------------------------ MODULE BootProofs ------------------------------
(***************************************************************************)
(* Proofs about Boot, for any machine, disk and firmware.                  *)
(***************************************************************************)
EXTENDS Boot, PageTableManagerProofs

-------------------------------------------------------------------------------
(***************************************************************************)
(* The walk over PCI.  The functions listed are those that can be found    *)
(* and have been passed, and where the walk is it has a reason to be.      *)
(***************************************************************************)
InFunctions == {"function", "function_header"}
InDevices == {"device", "device_header"} \union InFunctions
InBuses == {"bus", "bus_header"} \union InDevices

Passed(a) ==
  \/ a[1] < entry_no
  \/ /\ a[1] = entry_no
     /\ \/ phase \notin InBuses
        \/ a[2] < bus
        \/ /\ a[2] = bus /\ phase \in InDevices
           /\ \/ a[3] < device
              \/ a[3] = device /\ phase \in InFunctions /\ a[4] < function

Position ==
  /\ entry_no \in 0 .. Len(machine.mcfg)
  /\ bus \in Nat /\ device \in Nat /\ function \in Nat
  /\ phase \in InBuses => entry_no > 0 /\ here.start_bus <= bus
  /\ phase \in InDevices \union {"bus_header"} => bus < here.end_bus
  /\ phase \in InDevices => present(bus, 0, 0) /\ device <= DevicesPerBus
  /\ phase = "device_header" => device < DevicesPerBus
  /\ phase \in InFunctions => present(bus, device, 0) /\ function <= FunctionsPerDevice
  /\ phase = "function_header" => function < FunctionsPerDevice
  /\ phase \in {"unmask", "running"} => entry_no = Len(machine.mcfg)
  /\ phase \notin InBuses \union {"enumerate_pci", "unmask", "running"} => entry_no = 0

Listed ==
  /\ listed \in Seq(machine.functions)
  /\ Range(listed) = {a \in Findable : Passed(a)}
  /\ IsInjective(listed)

PciInv ==
  /\ machine \in Machines
  /\ status = "running" => phase = "running"
  /\ status \in {"loading", "kernel", "running"} => Position /\ Listed

-------------------------------------------------------------------------------
\* What the parts of a function's address are.
LEMMA AddressFacts ==
  ASSUME machine \in Machines
  PROVE  /\ DevicesPerBus \in Nat /\ FunctionsPerDevice \in Nat /\ Len(machine.mcfg) \in Nat
         /\ \A n \in 1 .. Len(machine.mcfg) : machine.mcfg[n].start_bus \in Nat
                                               /\ machine.mcfg[n].end_bus \in Nat
         /\ \A a \in machine.functions :
              /\ a = <<a[1], a[2], a[3], a[4]>>
              /\ a[1] \in 1 .. Len(machine.mcfg) /\ a[2] \in Nat
              /\ a[3] \in 0 .. DevicesPerBus - 1 /\ a[4] \in 0 .. FunctionsPerDevice - 1
<1>1. /\ machine.mcfg \in Seq([base : Nat, start_bus : Nat, end_bus : Nat])
      /\ machine.functions \subseteq (1 .. Len(machine.mcfg)) \X Nat \X (0 .. DevicesPerBus - 1)
                                                              \X (0 .. FunctionsPerDevice - 1)
      /\ DevicesPerBus \in Nat /\ FunctionsPerDevice \in Nat
  BY PciAssumption
<1>2. /\ Len(machine.mcfg) \in Nat
      /\ \A n \in 1 .. Len(machine.mcfg) : machine.mcfg[n].start_bus \in Nat
                                            /\ machine.mcfg[n].end_bus \in Nat
  <2> DEFINE E == [base : Nat, start_bus : Nat, end_bus : Nat]
  <2>1. PICK s \in Seq(E) : s = machine.mcfg
    BY <1>1
  <2>2. \A e \in E : e.start_bus \in Nat /\ e.end_bus \in Nat
    OBVIOUS
  <2> HIDE DEF E
  <2>3. Len(s) \in Nat /\ \A n \in 1 .. Len(s) : s[n] \in E
    BY <2>1
  <2> QED
    BY <2>1, <2>2, <2>3
<1>3. ASSUME NEW a \in machine.functions
      PROVE  /\ a = <<a[1], a[2], a[3], a[4]>>
             /\ a[1] \in 1 .. Len(machine.mcfg) /\ a[2] \in Nat
             /\ a[3] \in 0 .. DevicesPerBus - 1 /\ a[4] \in 0 .. FunctionsPerDevice - 1
  <2>1. a \in (1 .. Len(machine.mcfg)) \X Nat \X (0 .. DevicesPerBus - 1)
                                       \X (0 .. FunctionsPerDevice - 1)
    BY <1>1, Zenon
  <2> QED
    BY <2>1
<1> QED
  BY <1>1, <1>2, <1>3

LEMMA FindableFacts ==
  ASSUME machine \in Machines, NEW a \in Findable
  PROVE  /\ a \in machine.functions
         /\ a[2] >= machine.mcfg[a[1]].start_bus /\ a[2] < machine.mcfg[a[1]].end_bus
         /\ <<a[1], a[2], 0, 0>> \in machine.functions
         /\ <<a[1], a[2], a[3], 0>> \in machine.functions
<1>1. /\ a \in machine.functions
      /\ a[2] \in machine.mcfg[a[1]].start_bus .. machine.mcfg[a[1]].end_bus - 1
      /\ <<a[1], a[2], 0, 0>> \in machine.functions
      /\ <<a[1], a[2], a[3], 0>> \in machine.functions
  BY DEF Findable
<1>2. machine.mcfg[a[1]].start_bus \in Nat /\ machine.mcfg[a[1]].end_bus \in Nat
  BY <1>1, AddressFacts
<1> QED
  BY <1>1, <1>2

-------------------------------------------------------------------------------
\* What is listed stays as it is, unless a function is passed.
LEMMA ListStays ==
  ASSUME machine' = machine, Listed, listed' = listed,
         \A a \in Findable : Passed(a)' <=> Passed(a)
  PROVE  Listed'
<1>1. Findable' = Findable
  BY DEF Findable
<1>2. {a \in Findable : Passed(a)}' = {a \in Findable : Passed(a)}
  BY <1>1
<1> QED
  BY <1>2 DEF Listed

\* Steps outside the walk, and within the calls of map_mem.
LEMMA WalkStays ==
  ASSUME PciInv, machine' = machine, pci_vars' = pci_vars,
         \/ phase' = phase /\ (status' = status \/ status \in {"loading", "kernel"})
         \/ /\ phase \notin InBuses \union {"enumerate_pci", "unmask", "running"}
            /\ phase' \notin InBuses \union {"enumerate_pci", "unmask", "running"}
            /\ status \in {"loading", "kernel"},
         status' # "running" \/ status = "running"
  PROVE  PciInv'
<1>1. /\ entry_no' = entry_no /\ bus' = bus /\ device' = device /\ function' = function
      /\ listed' = listed
  BY DEF pci_vars
<1>2. ASSUME status' \in {"loading", "kernel", "running"}
      PROVE  Position' /\ Listed'
  <2>1. Position /\ Listed
    BY <1>2 DEF PciInv
  <2>2. Position'
    BY <1>1, <2>1 DEF Position, here, present, InBuses, InDevices, InFunctions
  <2>3. \A a : Passed(a)' <=> Passed(a)
    BY <1>1 DEF Passed, InBuses, InDevices, InFunctions
  <2> QED
    BY <1>1, <2>1, <2>2, <2>3, ListStays
<1> QED
  BY <1>2 DEF PciInv

LEMMA WalkInit == BootInit => PciInv
<1> SUFFICES ASSUME BootInit PROVE PciInv
  OBVIOUS
<1>1. /\ machine \in Machines /\ status = "loading" /\ phase = "off" /\ entry_no = 0 /\ bus = 0
      /\ device = 0 /\ function = 0 /\ listed = << >>
  BY DEF BootInit, LoaderInit
<1>2. Position
  BY <1>1, AddressFacts DEF Position, InBuses, InDevices, InFunctions
<1>3. \A a \in Findable : ~Passed(a)
  <2>1. \A a \in Findable : a \in machine.functions
    BY <1>1, FindableFacts
  <2>2. \A a \in Findable : a[1] \in Nat /\ a[1] > 0
    BY <1>1, <2>1, AddressFacts
  <2> QED
    BY <1>1, <2>2 DEF Passed
<1>4. Listed
  BY <1>1, <1>3 DEF Listed, Range, IsInjective
<1> QED
  BY <1>1, <1>2, <1>4 DEF PciInv

\* A statement of the walk begins where the invariant holds.
LEMMA WalkAt ==
  ASSUME PciInv, NEW p, At(p)
  PROVE  /\ machine \in Machines /\ Position /\ Listed /\ phase = p /\ status = "kernel"
         /\ machine' = machine
         /\ \A a \in Findable :
              /\ a[1] \in 1 .. Len(machine.mcfg) /\ a[1] \in Nat
              /\ a[2] \in Nat /\ a[3] \in Nat /\ a[4] \in Nat
              /\ a[3] < DevicesPerBus /\ a[4] < FunctionsPerDevice
              /\ a[2] >= machine.mcfg[a[1]].start_bus /\ a[2] < machine.mcfg[a[1]].end_bus
              /\ <<a[1], a[2], 0, 0>> \in machine.functions
              /\ <<a[1], a[2], a[3], 0>> \in machine.functions
<1>1. machine \in Machines /\ Position /\ Listed /\ phase = p /\ status = "kernel"
      /\ machine' = machine
  BY DEF PciInv, At, loader_vars
<1>2. ASSUME NEW a \in Findable
      PROVE  /\ a[1] \in 1 .. Len(machine.mcfg) /\ a[1] \in Nat
             /\ a[2] \in Nat /\ a[3] \in Nat /\ a[4] \in Nat
             /\ a[3] < DevicesPerBus /\ a[4] < FunctionsPerDevice
             /\ a[2] >= machine.mcfg[a[1]].start_bus /\ a[2] < machine.mcfg[a[1]].end_bus
             /\ <<a[1], a[2], 0, 0>> \in machine.functions
             /\ <<a[1], a[2], a[3], 0>> \in machine.functions
  <2>1. a \in machine.functions
    BY <1>1, FindableFacts
  <2>2. /\ a[1] \in 1 .. Len(machine.mcfg) /\ a[2] \in Nat /\ Len(machine.mcfg) \in Nat
        /\ a[3] \in 0 .. DevicesPerBus - 1 /\ a[4] \in 0 .. FunctionsPerDevice - 1
        /\ DevicesPerBus \in Nat /\ FunctionsPerDevice \in Nat
    BY <1>1, <2>1, AddressFacts
  <2>3. /\ a[1] \in Nat /\ a[3] \in Nat /\ a[4] \in Nat
        /\ a[3] < DevicesPerBus /\ a[4] < FunctionsPerDevice
    BY <2>2
  <2> QED
    BY <1>1, <2>2, <2>3, FindableFacts
<1> QED
  BY <1>1, <1>2

-------------------------------------------------------------------------------
\* The statements of the walk.
LEMMA FindMcfgWalks == PciInv /\ find_mcfg => PciInv'
<1> SUFFICES ASSUME PciInv, find_mcfg PROVE PciInv'
  OBVIOUS
<1>1. At("find_mcfg")
  BY DEF find_mcfg
<1>2. CASE pci_vars' = pci_vars /\ phase' = phase /\ status' # "running"
  BY <1>1, <1>2, WalkAt, WalkStays
<1>3. CASE phase' = "enumerate_pci" /\ status' = status /\ pci_vars' = pci_vars
  <2>1. /\ machine' = machine /\ machine \in Machines /\ Position /\ Listed
        /\ phase = "find_mcfg" /\ status' = "kernel"
        /\ \A a \in Findable : a[1] \in 1 .. Len(machine.mcfg)
    BY <1>1, <1>3, WalkAt
  <2>2. /\ entry_no' = entry_no /\ bus' = bus /\ device' = device /\ function' = function
        /\ listed' = listed
    BY <1>3 DEF pci_vars
  <2>3. entry_no = 0
    BY <2>1 DEF Position, InBuses, InDevices, InFunctions
  <2>4. Position'
    BY <1>3, <2>1, <2>2, <2>3 DEF Position, InBuses, InDevices, InFunctions
  <2>5. \A a \in Findable : Passed(a)' <=> Passed(a)
    BY <1>3, <2>1, <2>2, <2>3 DEF Passed, InBuses, InDevices, InFunctions
  <2> QED
    BY <2>1, <2>2, <2>4, <2>5, ListStays DEF PciInv
<1> QED
  BY <1>1, <1>2, <1>3 DEF find_mcfg, Ends, Then, At, kernel_vars, boot_vars, pci_vars

LEMMA EnumeratePciWalks == PciInv /\ enumerate_pci => PciInv'
<1> SUFFICES ASSUME PciInv, enumerate_pci PROVE PciInv'
  OBVIOUS
<1>1. /\ machine' = machine /\ machine \in Machines /\ Position /\ Listed
      /\ phase = "enumerate_pci" /\ status = "kernel"
      /\ \A a \in Findable : a[1] \in 1 .. Len(machine.mcfg) /\ a[2] \in Nat
                             /\ a[2] >= machine.mcfg[a[1]].start_bus
  BY WalkAt DEF enumerate_pci
<1>2. status' = status /\ device' = device /\ function' = function /\ listed' = listed
  BY DEF enumerate_pci, Then
<1>3. Len(machine.mcfg) \in Nat /\ entry_no \in 0 .. Len(machine.mcfg)
      /\ \A n \in 1 .. Len(machine.mcfg) : machine.mcfg[n].start_bus \in Nat
  BY <1>1, AddressFacts DEF Position
<1>4. CASE entry_no < Len(machine.mcfg)
  <2>1. /\ entry_no' = entry_no + 1 /\ bus' = machine.mcfg[entry_no + 1].start_bus
        /\ phase' = "bus" /\ entry_no + 1 \in 1 .. Len(machine.mcfg)
    BY <1>3, <1>4 DEF enumerate_pci, Then
  <2>2. bus' \in Nat
    BY <1>3, <2>1
  <2>3. Position'
    BY <1>1, <1>2, <1>3, <2>1, <2>2 DEF Position, here, InBuses, InDevices, InFunctions
  <2>4. ASSUME NEW a \in Findable PROVE Passed(a)' <=> Passed(a)
    <3>1. Passed(a) <=> a[1] <= entry_no
      BY <1>1, <1>3 DEF Passed, InBuses, InDevices, InFunctions
    <3>2. Passed(a)' <=> a[1] < entry_no + 1 \/ (a[1] = entry_no + 1 /\ a[2] < bus')
      BY <2>1 DEF Passed, InBuses, InDevices, InFunctions
    <3>3. ~(a[1] = entry_no + 1 /\ a[2] < bus')
      BY <1>1, <1>3, <2>1, <2>2
    <3> QED
      BY <1>1, <1>3, <3>1, <3>2, <3>3
  <2> QED
    BY <1>1, <1>2, <2>3, <2>4, ListStays DEF PciInv
<1>5. CASE ~(entry_no < Len(machine.mcfg))
  <2>1. entry_no' = entry_no /\ bus' = bus /\ phase' = "unmask" /\ entry_no = Len(machine.mcfg)
    BY <1>3, <1>5 DEF enumerate_pci, Then
  <2>2. Position'
    BY <1>1, <1>2, <2>1 DEF Position, InBuses, InDevices, InFunctions
  <2>3. \A a \in Findable : Passed(a)' <=> Passed(a)
    BY <1>1, <1>2, <2>1 DEF Passed, InBuses, InDevices, InFunctions
  <2> QED
    BY <1>1, <1>2, <2>2, <2>3, ListStays DEF PciInv
<1> QED
  BY <1>4, <1>5

LEMMA UnmaskWalks == PciInv /\ unmask_and_sti => PciInv'
<1> SUFFICES ASSUME PciInv, unmask_and_sti PROVE PciInv'
  OBVIOUS
<1>1. /\ machine' = machine /\ machine \in Machines /\ Position /\ Listed /\ phase = "unmask"
      /\ phase' = "running"
      /\ entry_no' = entry_no /\ bus' = bus /\ device' = device /\ function' = function
      /\ listed' = listed
  BY WalkAt DEF unmask_and_sti, pci_vars
<1>2. Position'
  BY <1>1 DEF Position, InBuses, InDevices, InFunctions
<1>3. \A a \in Findable : Passed(a)' <=> Passed(a)
  BY <1>1 DEF Passed, InBuses, InDevices, InFunctions
<1> QED
  BY <1>1, <1>2, <1>3, ListStays DEF PciInv

LEMMA EnumerateBusWalks == PciInv /\ enumerate_bus => PciInv'
<1> SUFFICES ASSUME PciInv, enumerate_bus PROVE PciInv'
  OBVIOUS
<1>1. /\ machine' = machine /\ machine \in Machines /\ Position /\ Listed
      /\ phase = "bus" /\ status = "kernel"
      /\ \A a \in Findable : a[1] \in 1 .. Len(machine.mcfg) /\ a[2] \in Nat
                             /\ a[2] < machine.mcfg[a[1]].end_bus
  BY WalkAt DEF enumerate_bus
<1>2. /\ status' = status /\ entry_no' = entry_no /\ bus' = bus /\ device' = device
      /\ function' = function /\ listed' = listed
      /\ (phase' = "bus_header" /\ more_buses) \/ (phase' = "enumerate_pci" /\ ~more_buses)
  BY DEF enumerate_bus, Mapping, Then, pci_vars
<1>3. /\ entry_no \in 1 .. Len(machine.mcfg) /\ Len(machine.mcfg) \in Nat /\ bus \in Nat
      /\ machine.mcfg[entry_no].end_bus \in Nat
  <2>1. entry_no \in 0 .. Len(machine.mcfg) /\ entry_no > 0 /\ bus \in Nat
    BY <1>1 DEF Position, InBuses, InDevices, InFunctions
  <2>2. entry_no \in 1 .. Len(machine.mcfg)
    BY <1>1, <2>1, AddressFacts
  <2> QED
    BY <1>1, <2>1, <2>2, AddressFacts
<1>4. Position'
  BY <1>1, <1>2, <1>3 DEF Position, here, more_buses, InBuses, InDevices, InFunctions
<1>5. ASSUME NEW a \in Findable PROVE Passed(a)' <=> Passed(a)
  <2>1. CASE phase' = "bus_header"
    BY <1>1, <1>2, <2>1 DEF Passed, InBuses, InDevices, InFunctions
  <2>2. CASE phase' = "enumerate_pci"
    <3>1. a[1] = entry_no => a[2] < bus
      BY <1>1, <1>2, <1>3, <2>2 DEF more_buses, here
    <3> QED
      BY <1>1, <1>2, <2>2, <3>1 DEF Passed, InBuses, InDevices, InFunctions
  <2> QED
    BY <1>2, <2>1, <2>2
<1> QED
  BY <1>1, <1>2, <1>4, <1>5, ListStays DEF PciInv

LEMMA EnumerateDeviceWalks == PciInv /\ enumerate_device => PciInv'
<1> SUFFICES ASSUME PciInv, enumerate_device PROVE PciInv'
  OBVIOUS
<1>1. /\ machine' = machine /\ machine \in Machines /\ Position /\ Listed
      /\ phase = "device" /\ status = "kernel"
      /\ \A a \in Findable : a[2] \in Nat /\ a[3] \in Nat /\ a[3] < DevicesPerBus
  BY WalkAt DEF enumerate_device
<1>2. /\ status' = status /\ entry_no' = entry_no /\ device' = device
      /\ function' = function /\ listed' = listed
      /\ \/ phase' = "device_header" /\ device < DevicesPerBus /\ bus' = bus
         \/ phase' = "bus" /\ device = DevicesPerBus /\ bus' = bus + 1
  BY DEF enumerate_device, Mapping, Then, pci_vars
<1>3. /\ entry_no > 0 /\ bus \in Nat /\ machine.mcfg[entry_no].start_bus \in Nat
      /\ machine.mcfg[entry_no].start_bus <= bus
  <2>1. entry_no \in 0 .. Len(machine.mcfg) /\ entry_no > 0 /\ bus \in Nat /\ here.start_bus <= bus
    BY <1>1 DEF Position, InBuses, InDevices, InFunctions
  <2>2. entry_no \in 1 .. Len(machine.mcfg)
    BY <1>1, <2>1, AddressFacts
  <2> QED
    BY <1>1, <2>1, <2>2, AddressFacts DEF here
<1>4. Position'
  BY <1>1, <1>2, <1>3 DEF Position, here, present, InBuses, InDevices, InFunctions
<1>5. ASSUME NEW a \in Findable PROVE Passed(a)' <=> Passed(a)
  <2>1. CASE phase' = "device_header"
    BY <1>1, <1>2, <2>1 DEF Passed, InBuses, InDevices, InFunctions
  <2>2. CASE phase' = "bus"
    <3>1. Passed(a) <=> a[1] < entry_no \/ (a[1] = entry_no /\ (a[2] < bus \/ a[2] = bus))
      BY <1>1, <1>2, <2>2 DEF Passed, InBuses, InDevices, InFunctions
    <3>2. a[2] < bus + 1 <=> a[2] < bus \/ a[2] = bus
      BY <1>1, <1>3
    <3> QED
      BY <1>1, <1>2, <2>2, <3>1, <3>2 DEF Passed, InBuses, InDevices, InFunctions
  <2> QED
    BY <1>2, <2>1, <2>2
<1> QED
  BY <1>1, <1>2, <1>4, <1>5, ListStays DEF PciInv

LEMMA EnumerateFunctionWalks == PciInv /\ enumerate_function => PciInv'
<1> SUFFICES ASSUME PciInv, enumerate_function PROVE PciInv'
  OBVIOUS
<1>1. /\ machine' = machine /\ machine \in Machines /\ Position /\ Listed
      /\ phase = "function" /\ status = "kernel"
      /\ \A a \in Findable : a[3] \in Nat /\ a[4] \in Nat /\ a[4] < FunctionsPerDevice
  BY WalkAt DEF enumerate_function
<1>2. /\ status' = status /\ entry_no' = entry_no /\ bus' = bus
      /\ function' = function /\ listed' = listed
      /\ \/ phase' = "function_header" /\ function < FunctionsPerDevice /\ device' = device
         \/ phase' = "device" /\ function = FunctionsPerDevice /\ device' = device + 1
  BY DEF enumerate_function, Mapping, Then, pci_vars
<1>3. /\ device \in Nat /\ device + 1 <= DevicesPerBus
  <2>1. present(bus, device, 0) /\ device \in Nat
    BY <1>1 DEF Position, InBuses, InDevices, InFunctions
  <2>2. PICK a \in machine.functions : a = <<entry_no, bus, device, 0>>
    BY <2>1 DEF present
  <2>3. a[3] \in 0 .. DevicesPerBus - 1 /\ DevicesPerBus \in Nat /\ a[3] = device
    BY <1>1, <2>2, AddressFacts
  <2> QED
    BY <2>1, <2>3
<1>4. Position'
  BY <1>1, <1>2, <1>3 DEF Position, here, present, InBuses, InDevices, InFunctions
<1>5. ASSUME NEW a \in Findable PROVE Passed(a)' <=> Passed(a)
  <2>1. CASE phase' = "function_header"
    BY <1>1, <1>2, <2>1 DEF Passed, InBuses, InDevices, InFunctions
  <2>2. CASE phase' = "device"
    <3>1. a[3] < device + 1 <=> a[3] < device \/ a[3] = device
      BY <1>1, <1>3
    <3> QED
      BY <1>1, <1>2, <2>2, <3>1 DEF Passed, InBuses, InDevices, InFunctions
  <2> QED
    BY <1>2, <2>1, <2>2
<1> QED
  BY <1>1, <1>2, <1>4, <1>5, ListStays DEF PciInv

LEMMA BusHeaderWalks == PciInv /\ bus_header => PciInv'
<1> SUFFICES ASSUME PciInv, bus_header PROVE PciInv'
  OBVIOUS
<1>1. /\ machine' = machine /\ machine \in Machines /\ Position /\ Listed
      /\ phase = "bus_header" /\ status = "kernel"
      /\ \A a \in Findable : a[1] \in Nat /\ a[2] \in Nat /\ a[3] \in Nat
                             /\ <<a[1], a[2], 0, 0>> \in machine.functions
  <2>1. At("bus_header")
    BY DEF bus_header, Reading
  <2> QED
    BY <2>1, WalkAt
<1>2. /\ entry_no' = entry_no /\ device' = 0 /\ function' = function /\ listed' = listed
      /\ \/ status' = "fault"
         \/ /\ status' = status
            /\ \/ phase' = "device" /\ present(bus, 0, 0) /\ bus' = bus
               \/ phase' = "bus" /\ ~present(bus, 0, 0) /\ bus' = bus + 1
  BY DEF bus_header, Reading, Then, skipped
<1>3. CASE status' = "fault"
  BY <1>1, <1>3 DEF PciInv
<1>4. CASE status' = status
  <2>1. bus \in Nat /\ entry_no > 0 /\ machine.mcfg[entry_no].start_bus \in Nat
        /\ machine.mcfg[entry_no].start_bus <= bus
    <3>1. entry_no \in 0 .. Len(machine.mcfg) /\ entry_no > 0 /\ bus \in Nat /\ here.start_bus <= bus
      BY <1>1 DEF Position, InBuses, InDevices, InFunctions
    <3>2. entry_no \in 1 .. Len(machine.mcfg)
      BY <1>1, <3>1, AddressFacts
    <3> QED
      BY <1>1, <3>1, <3>2, AddressFacts DEF here
  <2>2. Position'
    <3>1. DevicesPerBus \in Nat
      BY <1>1, AddressFacts
    <3>2. CASE phase' = "device"
      BY <1>1, <1>2, <1>4, <2>1, <3>1, <3>2 DEF Position, here, present, InBuses, InDevices, InFunctions
    <3>3. CASE phase' = "bus" /\ bus' = bus + 1
      BY <1>1, <1>2, <1>4, <2>1, <3>1, <3>3 DEF Position, here, present, InBuses, InDevices, InFunctions
    <3> QED
      BY <1>1, <1>2, <1>4, <3>2, <3>3
  <2>3. ASSUME NEW a \in Findable PROVE Passed(a)' <=> Passed(a)
    <3>1. CASE phase' = "device"
      <4>1. bus' = bus /\ ~(a[3] < 0)
        <5>1. bus' = bus
          BY <1>1, <1>2, <1>4, <3>1
        <5>2. a[3] \in Nat
          BY <1>1
        <5> QED
          BY <5>1, <5>2
      <4> QED
        BY <1>1, <1>2, <1>4, <3>1, <4>1 DEF Passed, InBuses, InDevices, InFunctions
    <3>2. CASE phase' = "bus" /\ bus' = bus + 1 /\ ~present(bus, 0, 0)
      <4>1. ~(a[1] = entry_no /\ a[2] = bus)
        BY <1>1, <1>2, <1>4, <3>2 DEF present
      <4>2. ASSUME a[1] = entry_no PROVE a[2] < bus + 1 <=> a[2] < bus
        <5>1. a[2] \in Nat /\ bus \in Nat /\ a[2] # bus
          BY <1>1, <2>1, <4>1, <4>2
        <5> QED
          BY <5>1
      <4>3. Passed(a) <=> a[1] < entry_no \/ (a[1] = entry_no /\ a[2] < bus)
        BY <1>1 DEF Passed, InBuses, InDevices, InFunctions
      <4>4. Passed(a)' <=> a[1] < entry_no \/ (a[1] = entry_no /\ a[2] < bus + 1)
        BY <1>2, <1>4, <1>1, <3>2 DEF Passed, InBuses, InDevices, InFunctions
      <4> QED
        BY <4>2, <4>3, <4>4
    <3> QED
      BY <1>1, <1>2, <1>4, <3>1, <3>2
  <2> QED
    BY <1>1, <1>2, <1>4, <2>2, <2>3, ListStays DEF PciInv
<1> QED
  BY <1>2, <1>3, <1>4

LEMMA DeviceHeaderWalks == PciInv /\ device_header => PciInv'
<1> SUFFICES ASSUME PciInv, device_header PROVE PciInv'
  OBVIOUS
<1>1. /\ machine' = machine /\ machine \in Machines /\ Position /\ Listed
      /\ phase = "device_header" /\ status = "kernel"
      /\ \A a \in Findable : /\ a[1] \in Nat /\ a[2] \in Nat /\ a[3] \in Nat /\ a[4] \in Nat
                             /\ <<a[1], a[2], a[3], 0>> \in machine.functions
  <2>1. At("device_header")
    BY DEF device_header, Reading
  <2> QED
    BY <2>1, WalkAt
<1>2. /\ entry_no' = entry_no /\ bus' = bus /\ function' = 0 /\ listed' = listed
      /\ \/ status' = "fault"
         \/ /\ status' = status
            /\ \/ phase' = "function" /\ present(bus, device, 0) /\ device' = device
               \/ phase' = "device" /\ ~present(bus, device, 0) /\ device' = device + 1
  BY DEF device_header, Reading, Then, skipped
<1>3. CASE status' = "fault"
  BY <1>1, <1>3 DEF PciInv
<1>4. ASSUME status' = status, phase' = "function", present(bus, device, 0), device' = device
      PROVE  PciInv'
  <2>1. DevicesPerBus \in Nat /\ FunctionsPerDevice \in Nat
    BY <1>1, AddressFacts
  <2>2. Position'
    BY <1>1, <1>2, <1>4, <2>1 DEF Position, here, present, InBuses, InDevices, InFunctions
  <2>3. ASSUME NEW a \in Findable PROVE Passed(a)' <=> Passed(a)
    <3>1. a[4] \in Nat
      BY <1>1
    <3>2. ~(a[4] < 0)
      BY <3>1
    <3> QED
      BY <1>1, <1>2, <1>4, <3>2 DEF Passed, InBuses, InDevices, InFunctions
  <2> QED
    BY <1>1, <1>2, <1>4, <2>2, <2>3, ListStays DEF PciInv
<1>5. ASSUME status' = status, phase' = "device", ~present(bus, device, 0), device' = device + 1
      PROVE  PciInv'
  <2>1. DevicesPerBus \in Nat /\ device \in Nat /\ device < DevicesPerBus
    BY <1>1, AddressFacts DEF Position
  <2>2. Position'
    BY <1>1, <1>2, <1>5, <2>1 DEF Position, here, present, InBuses, InDevices, InFunctions
  <2>3. ASSUME NEW a \in Findable PROVE Passed(a)' <=> Passed(a)
    <3>1. ASSUME a[1] = entry_no, a[2] = bus PROVE a[3] < device + 1 <=> a[3] < device
      <4>1. a[3] # device /\ a[3] \in Nat
        BY <1>1, <1>5, <3>1 DEF present
      <4> QED
        BY <2>1, <4>1
    <3>2. Passed(a) <=> \/ a[1] < entry_no
                        \/ a[1] = entry_no /\ (a[2] < bus \/ (a[2] = bus /\ a[3] < device))
      BY <1>1 DEF Passed, InBuses, InDevices, InFunctions
    <3>3. Passed(a)' <=> \/ a[1] < entry_no
                         \/ a[1] = entry_no /\ (a[2] < bus \/ (a[2] = bus /\ a[3] < device + 1))
      BY <1>1, <1>2, <1>5 DEF Passed, InBuses, InDevices, InFunctions
    <3> QED
      BY <3>1, <3>2, <3>3
  <2> QED
    BY <1>1, <1>2, <1>5, <2>2, <2>3, ListStays DEF PciInv
<1> QED
  BY <1>2, <1>3, <1>4, <1>5

\* What is listed when one more is.
LEMMA OneMore ==
  ASSUME NEW S, NEW s \in Seq(S), NEW e \in S, e \notin Range(s), IsInjective(s)
  PROVE  /\ Append(s, e) \in Seq(S) /\ Range(Append(s, e)) = Range(s) \union {e}
         /\ IsInjective(Append(s, e))
<1>1. /\ Append(s, e) \in Seq(S) /\ DOMAIN s = 1 .. Len(s) /\ Len(s) \in Nat
      /\ DOMAIN Append(s, e) = 1 .. Len(s) + 1
      /\ \A n \in 1 .. Len(s) : Append(s, e)[n] = s[n]
      /\ Append(s, e)[Len(s) + 1] = e
  OBVIOUS
<1>2. \A n \in 1 .. Len(s) + 1 : n \in 1 .. Len(s) \/ n = Len(s) + 1
  BY <1>1
<1>3. 1 .. Len(s) \subseteq 1 .. Len(s) + 1 /\ Len(s) + 1 \in 1 .. Len(s) + 1
  BY <1>1
<1> DEFINE r == Append(s, e)
<1> HIDE DEF r
<1>4. Range(r) = Range(s) \union {e}
  BY <1>1, <1>2, <1>3 DEF Range, r
<1>5. IsInjective(r)
  <2> SUFFICES ASSUME NEW m \in DOMAIN r, NEW n \in DOMAIN r, r[m] = r[n] PROVE m = n
    BY DEF IsInjective
  <2>1. \A k \in 1 .. Len(s) : s[k] # e
    BY <1>1 DEF Range
  <2> QED
    BY <1>1, <1>2, <2>1 DEF r, IsInjective
<1> QED
  BY <1>1, <1>4, <1>5 DEF r

LEMMA FunctionHeaderWalks == PciInv /\ function_header => PciInv'
<1> SUFFICES ASSUME PciInv, function_header PROVE PciInv'
  OBVIOUS
<1> DEFINE cur == <<entry_no, bus, device, function>>
<1>1. /\ machine' = machine /\ machine \in Machines /\ Position /\ Listed
      /\ phase = "function_header" /\ status = "kernel"
      /\ \A a \in Findable : a[1] \in Nat /\ a[2] \in Nat /\ a[3] \in Nat /\ a[4] \in Nat
  BY WalkAt DEF function_header
<1>2. /\ entry_no' = entry_no /\ bus' = bus /\ device' = device /\ function' = function + 1
      /\ listed' = IF cur \in machine.functions THEN Append(listed, cur) ELSE listed
      /\ status' \in {"fault", "lost"} \/ (status' = status /\ phase' = "function")
  BY DEF function_header, Reading, Then, present
<1>3. CASE status' \in {"fault", "lost"}
  BY <1>1, <1>3 DEF PciInv
<1>4. ASSUME status' = status, phase' = "function"
      PROVE  PciInv'
  <2>1. /\ entry_no \in 0 .. Len(machine.mcfg) /\ entry_no > 0
        /\ bus \in Nat /\ device \in Nat /\ function \in Nat
        /\ bus < here.end_bus /\ here.start_bus <= bus
        /\ present(bus, 0, 0) /\ present(bus, device, 0)
        /\ function < FunctionsPerDevice /\ device <= DevicesPerBus
    BY <1>1 DEF Position, InBuses, InDevices, InFunctions
  <2>2. FunctionsPerDevice \in Nat /\ here.start_bus \in Nat /\ here.end_bus \in Nat
    <3>1. entry_no \in 1 .. Len(machine.mcfg)
      BY <1>1, <2>1, AddressFacts
    <3> QED
      BY <1>1, <3>1, AddressFacts DEF here
  <2>3. Position'
    BY <1>1, <1>2, <1>4, <2>1, <2>2 DEF Position, here, present, InBuses, InDevices, InFunctions
  <2>4. Findable' = Findable
    BY <1>1 DEF Findable
  <2>5. \A a \in Findable : a = <<a[1], a[2], a[3], a[4]>> /\ a \in machine.functions
    BY <1>1, FindableFacts, AddressFacts
  <2>6. ASSUME NEW a \in Findable PROVE Passed(a)' <=> Passed(a) \/ a = cur
    <3>1. a = cur <=> a[1] = entry_no /\ a[2] = bus /\ a[3] = device /\ a[4] = function
      BY <2>5
    <3>2. a[4] < function + 1 <=> a[4] < function \/ a[4] = function
      BY <1>1, <2>1
    <3> QED
      BY <1>1, <1>2, <1>4, <3>1, <3>2 DEF Passed, InBuses, InDevices, InFunctions
  <2>7. CASE cur \in machine.functions
    <3>1. cur \in Findable
      <4>1. bus \in here.start_bus .. here.end_bus - 1
        BY <2>1, <2>2
      <4> QED
        BY <2>1, <2>7, <4>1 DEF Findable, here, present
    <3>2. ~Passed(cur)
      BY <1>1, <2>1 DEF Passed, InBuses, InDevices, InFunctions
    <3>3. cur \notin Range(listed) /\ listed \in Seq(machine.functions) /\ IsInjective(listed)
          /\ Range(listed) = {a \in Findable : Passed(a)}
      BY <1>1, <3>2 DEF Listed
    <3>4. /\ listed' \in Seq(machine.functions) /\ IsInjective(listed')
          /\ Range(listed') = Range(listed) \union {cur}
      BY <1>2, <2>7, <3>3, OneMore
    <3>5. {a \in Findable : Passed(a)}' = {a \in Findable : Passed(a)} \union {cur}
      BY <2>4, <2>6, <3>1
    <3>6. Listed'
      BY <1>1, <3>3, <3>4, <3>5 DEF Listed
    <3> QED
      BY <1>1, <1>4, <2>3, <3>6 DEF PciInv
  <2>8. CASE cur \notin machine.functions
    <3>1. \A a \in Findable : Passed(a)' <=> Passed(a)
      BY <2>5, <2>6, <2>8
    <3>2. Listed'
      BY <1>1, <1>2, <2>8, <3>1, ListStays
    <3> QED
      BY <1>1, <1>4, <2>3, <3>2 DEF PciInv
  <2> QED
    BY <2>7, <2>8
<1> QED
  BY <1>2, <1>3, <1>4

\* The statements before the walk, the steps of map_mem, and the loader.
LEMMA EarlierWalks ==
  ASSUME PciInv,
         \/ start \/ read_map \/ lock_kernel \/ new_tables \/ identity \/ lock_buffer
         \/ map_buffer \/ load_cr3 \/ clear_buffer \/ init_heap \/ make_idt \/ starve
         \/ status = "kernel" /\ map_step /\ UNCHANGED <<loader_vars, status, boot_vars>>
  PROVE  PciInv'
<1> DEFINE Late == InBuses \union {"enumerate_pci", "unmask", "running"}
           Stays == /\ machine' = machine /\ pci_vars' = pci_vars /\ status = "kernel"
                    /\ status' # "running"
                    /\ phase' = phase \/ (phase \notin Late /\ phase' \notin Late)
<1>1. Stays => PciInv'
  BY WalkStays
<1>2. CASE start
  BY <1>1, <1>2 DEF start, loader_vars, InBuses, InDevices, InFunctions
<1>3. CASE read_map
  BY <1>1, <1>3 DEF read_map, At, Then, Ends, loader_vars, kernel_vars, boot_vars,
                    InBuses, InDevices, InFunctions
<1>4. CASE lock_kernel \/ new_tables \/ load_cr3
  BY <1>1, <1>4 DEF lock_kernel, new_tables, load_cr3, At, Then, loader_vars,
                    InBuses, InDevices, InFunctions
<1>5. CASE identity \/ map_buffer \/ init_heap
  BY <1>1, <1>5 DEF identity, map_buffer, init_heap, Round, At, Then, loader_vars,
                    InBuses, InDevices, InFunctions
<1>6. CASE lock_buffer \/ clear_buffer
  BY <1>1, <1>6 DEF lock_buffer, clear_buffer, At, Then, Ends, loader_vars, kernel_vars, boot_vars,
                    InBuses, InDevices, InFunctions
<1>7. CASE make_idt
  BY <1>1, <1>7 DEF make_idt, At, loader_vars, InBuses, InDevices, InFunctions
<1>8. CASE starve
  BY <1>1, <1>8 DEF starve, Ends, loader_vars, kernel_vars, boot_vars
<1>9. CASE status = "kernel" /\ map_step /\ UNCHANGED <<loader_vars, status, boot_vars>>
  BY <1>1, <1>9 DEF loader_vars, boot_vars
<1> QED
  BY <1>2, <1>3, <1>4, <1>5, <1>6, <1>7, <1>8, <1>9

LEMMA LoaderRuns ==
  loader => status = "loading" /\ status' \in {"loading", "kernel", "lost"} /\ machine' = machine
<1> SUFFICES ASSUME loader
             PROVE  status = "loading" /\ status' \in {"loading", "kernel", "lost"} /\ machine' = machine
  OBVIOUS
<1>1. CASE firmware_event
  BY <1>1 DEF firmware_event
<1>2. CASE open_kernel \/ read_header \/ read_program_headers \/ load_segment \/ segments_done
  BY <1>2 DEF open_kernel, read_header, read_program_headers, load_segment, segments_done, Goto
<1>3. CASE load_font \/ check_font \/ final_font \/ init_gop
  BY <1>3 DEF load_font, check_font, final_font, init_gop, Goto
<1>4. CASE get_map_size \/ allocate_map \/ get_map \/ find_rsdp
  BY <1>4 DEF get_map_size, allocate_map, get_map, find_rsdp, Goto
<1>5. CASE exit_boot_services
  BY <1>5 DEF exit_boot_services
<1> QED
  BY <1>1, <1>2, <1>3, <1>4, <1>5 DEF loader, efi_main

LEMMA LoaderWalks == PciInv /\ loader => PciInv'
<1> SUFFICES ASSUME PciInv, loader PROVE PciInv'
  OBVIOUS
<1>1. /\ machine' = machine /\ status = "loading" /\ status' \in {"loading", "kernel", "lost"}
  BY LoaderRuns
<1>2. pci_vars' = pci_vars /\ phase' = phase
  BY DEF loader, kernel_vars, boot_vars, pci_vars
<1> QED
  BY <1>1, <1>2, WalkStays

LEMMA WalkNext == PciInv /\ [BootNext]_everything => PciInv'
<1> SUFFICES ASSUME PciInv, [BootNext]_everything PROVE PciInv'
  OBVIOUS
<1>1. CASE UNCHANGED everything
  BY <1>1, WalkStays DEF everything, kernel_vars, boot_vars, loader_vars
<1>2. CASE loader
  BY <1>2, LoaderWalks
<1>3. CASE kernel
  BY <1>3, EarlierWalks, FindMcfgWalks, EnumeratePciWalks, EnumerateBusWalks, EnumerateDeviceWalks,
     EnumerateFunctionWalks, BusHeaderWalks, DeviceHeaderWalks, FunctionHeaderWalks, UnmaskWalks
     DEF kernel
<1> QED
  BY <1>1, <1>2, <1>3 DEF BootNext

\* The walk lists every function that can be found, and each once: for any number of
\* areas, buses, devices and functions, and wherever the functions are (pci.cpp:5-77).
THEOREM WalkListsFunctions == BootSpec => []ListsFunctions
<1>1. PciInv => ListsFunctions
  <2> SUFFICES ASSUME PciInv, status = "running"
               PROVE  Range(listed) = Findable /\ IsInjective(listed)
    BY DEF ListsFunctions
  <2>1. machine \in Machines /\ phase = "running" /\ Position /\ Listed
    BY DEF PciInv
  <2>2. entry_no = Len(machine.mcfg) /\ Len(machine.mcfg) \in Nat
    BY <2>1, AddressFacts DEF Position
  <2>3. \A a \in Findable : a[1] \in 1 .. Len(machine.mcfg)
    BY <2>1, FindableFacts, AddressFacts
  <2>4. \A a \in Findable : Passed(a)
    BY <2>1, <2>2, <2>3 DEF Passed, InBuses, InDevices, InFunctions
  <2> QED
    BY <2>1, <2>4 DEF Listed
<1> QED
  BY <1>1, WalkInit, WalkNext, PTL DEF BootSpec

-------------------------------------------------------------------------------
(***************************************************************************)
(* The memory map.  The descriptors the kernel is given are the runs of    *)
(* the map that was read; they are numbered by rank, and every run has one.*)
(***************************************************************************)
LEMMA FiniteBounded ==
  ASSUME NEW S \in SUBSET Nat, IsFiniteSet(S)
  PROVE  \E b \in Nat : \A y \in S : y <= b
<1> DEFINE N == {n \in Nat : \A f \in [1 .. n -> Nat] : \E b \in Nat : \A k \in 1 .. n : f[k] <= b}
<1>1. 0 \in N
  OBVIOUS
<1>2. ASSUME NEW n \in Nat, n \in N PROVE n + 1 \in N
  <2>1. ASSUME NEW f \in [1 .. n + 1 -> Nat]
        PROVE  \E b \in Nat : \A k \in 1 .. n + 1 : f[k] <= b
    <3> DEFINE g == [k \in 1 .. n |-> f[k]]
    <3>1. g \in [1 .. n -> Nat]
      OBVIOUS
    <3>2. PICK b \in Nat : \A k \in 1 .. n : g[k] <= b
      BY <1>2, <3>1
    <3>3. PICK c \in Nat : c = f[n + 1]
      OBVIOUS
    <3>4. ASSUME NEW k \in 1 .. n + 1 PROVE f[k] <= b + c
      <4>1. CASE k \in 1 .. n
        <5>1. f[k] <= b /\ f[k] \in Nat
          BY <3>2, <4>1
        <5> QED
          BY <5>1
      <4>2. CASE k = n + 1
        BY <3>3, <4>2
      <4> QED
        BY <4>1, <4>2
    <3>5. b + c \in Nat
      OBVIOUS
    <3> QED
      BY <3>4, <3>5
  <2>2. n + 1 \in Nat
    OBVIOUS
  <2> QED
    BY <2>1, <2>2
<1> HIDE DEF N
<1>3. Nat \subseteq N
  BY <1>1, <1>2, NatSetInduction
<1>4. PICK n \in Nat : ExistsSurjection(1 .. n, S)
  BY FS_NatSurjection
<1>5. PICK f \in [1 .. n -> S] : \A y \in S : \E k \in 1 .. n : f[k] = y
  BY <1>4 DEF ExistsSurjection, Surjection
<1>6. f \in [1 .. n -> Nat]
  BY <1>5
<1>7. PICK b \in Nat : \A k \in 1 .. n : f[k] <= b
  BY <1>3, <1>6 DEF N
<1> QED
  BY <1>5, <1>7

LEMMA MaxOfNats ==
  ASSUME NEW S \in SUBSET Nat, IsFiniteSet(S), S # {}
  PROVE  Max(S) \in S /\ \A y \in S : y <= Max(S)
<1>1. PICK b \in Nat : \A y \in S : y <= b
  BY FiniteBounded
<1> DEFINE T == {b - y : y \in S}
<1>2. T \in SUBSET Nat /\ T # {}
  <2>1. \A y \in S : b - y \in Nat
    BY <1>1
  <2> QED
    BY <2>1
<1>3. PICK z \in T : \A t \in T : z <= t
  BY <1>2, MinOfNats
<1>4. PICK x \in S : z = b - x
  BY <1>3
<1>5. ASSUME NEW y \in S PROVE x >= y
  <2>1. b - x <= b - y
    BY <1>3, <1>4
  <2> QED
    BY <1>1, <1>4, <2>1
<1> QED
  BY <1>4, <1>5 DEF Max

\* The rank of an element: every rank up to the cardinality is that of one element.
Upto(S, f) == {g \in S : g <= f}

LEMMA Ranks ==
  ASSUME NEW S \in SUBSET Nat, IsFiniteSet(S)
  PROVE  /\ Cardinality(S) \in Nat
         /\ \A f \in S : Cardinality(Upto(S, f)) \in 1 .. Cardinality(S)
         /\ \A f, g \in S : Cardinality(Upto(S, f)) = Cardinality(Upto(S, g)) => f = g
         /\ \A n \in 1 .. Cardinality(S) : \E f \in S : Cardinality(Upto(S, f)) = n
<1>1. \A f : Upto(S, f) \in SUBSET S
  BY DEF Upto
<1>2. Cardinality(S) \in Nat
  BY FS_CardinalityType
<1>3. ASSUME NEW f \in S PROVE Cardinality(Upto(S, f)) \in 1 .. Cardinality(S)
  <2>1. IsFiniteSet(Upto(S, f)) /\ Cardinality(Upto(S, f)) <= Cardinality(S)
    BY <1>1, FS_Subset
  <2>2. Cardinality(Upto(S, f)) \in Nat /\ Cardinality(Upto(S, f)) # 0
    <3>1. f \in Upto(S, f)
      BY DEF Upto
    <3> QED
      BY <2>1, <3>1, FS_CardinalityType, FS_EmptySet
  <2> QED
    BY <1>2, <2>1, <2>2
<1>4. ASSUME NEW f \in S, NEW g \in S, f < g
      PROVE  Cardinality(Upto(S, f)) # Cardinality(Upto(S, g))
  <2>1. Upto(S, f) \in SUBSET Upto(S, g) /\ g \in Upto(S, g) /\ g \notin Upto(S, f)
    <3>1. \A h \in S : h <= f => h <= g
      BY <1>4
    <3>2. ~(g <= f) /\ g <= g
      BY <1>4
    <3> QED
      BY <3>1, <3>2 DEF Upto
  <2>2. IsFiniteSet(Upto(S, g))
    BY <1>1, FS_Subset
  <2> QED
    BY <2>1, <2>2, FS_Subset
<1>5. \A f, g \in S : Cardinality(Upto(S, f)) = Cardinality(Upto(S, g)) => f = g
  <2> SUFFICES ASSUME NEW f \in S, NEW g \in S, Cardinality(Upto(S, f)) = Cardinality(Upto(S, g))
               PROVE  f = g
    OBVIOUS
  <2>1. ~(f < g) /\ ~(g < f)
    BY <1>4
  <2> QED
    BY <2>1
<1> DEFINE r == [f \in S |-> Cardinality(Upto(S, f))]
<1>6. r \in Injection(S, 1 .. Cardinality(S))
  <2>1. r \in [S -> 1 .. Cardinality(S)]
    BY <1>3
  <2>2. \A f, g \in S : r[f] = r[g] => f = g
    BY <1>5
  <2> QED
    BY <2>1, <2>2 DEF Injection, IsInjective
<1>7. IsFiniteSet(1 .. Cardinality(S)) /\ Cardinality(1 .. Cardinality(S)) = Cardinality(S)
  BY <1>2, FS_Interval
<1>8. r \in Surjection(S, 1 .. Cardinality(S))
  BY <1>6, <1>7, FS_Injection
<1>9. \A n \in 1 .. Cardinality(S) : \E f \in S : r[f] = n
  BY <1>8 DEF Surjection
<1> QED
  BY <1>2, <1>3, <1>5, <1>9

-------------------------------------------------------------------------------
\* A run of frames of one type, from its first frame, and the descriptor of it.
Alike(f) == {g \in DOMAIN map : \A h \in f .. g : h \in DOMAIN map /\ map[h] = map[f]}
Run(f) == [type |-> IF map[f] = "conventional" THEN EfiConventionalMemory ELSE 0,
           phys_addr |-> f, num_pages |-> Max(Alike(f)) - f + 1]

IsMap(m) == DOMAIN m \subseteq Nat /\ IsFiniteSet(DOMAIN m)

LEMMA RunsCover ==
  ASSUME IsMap(map)
  PROVE  /\ \A f \in RunStarts(map) :
              /\ f \in Nat /\ Max(Alike(f)) \in Nat /\ Max(Alike(f)) >= f
              /\ \A x \in f .. Max(Alike(f)) : x \in DOMAIN map /\ map[x] = map[f]
         /\ \A x \in DOMAIN map : \E f \in RunStarts(map) :
              x \in f .. Max(Alike(f)) /\ map[x] = map[f]
<1>1. ASSUME NEW f \in DOMAIN map
      PROVE  /\ f \in Nat /\ f \in Alike(f) /\ Alike(f) \in SUBSET Nat
             /\ Max(Alike(f)) \in Alike(f) /\ \A y \in Alike(f) : y <= Max(Alike(f))
  <2>1. f \in Nat
    BY DEF IsMap
  <2>2. \A h \in f .. f : h = f
    BY <2>1
  <2>3. f \in Alike(f)
    BY <2>2 DEF Alike
  <2>4. Alike(f) \in SUBSET DOMAIN map
    BY DEF Alike
  <2>5. Alike(f) \in SUBSET Nat /\ IsFiniteSet(Alike(f))
    BY <2>4, FS_Subset DEF IsMap
  <2> QED
    BY <2>1, <2>3, <2>5, MaxOfNats
<1>2. ASSUME NEW f \in RunStarts(map)
      PROVE  /\ f \in Nat /\ Max(Alike(f)) \in Nat /\ Max(Alike(f)) >= f
             /\ \A x \in f .. Max(Alike(f)) : x \in DOMAIN map /\ map[x] = map[f]
  <2>1. f \in DOMAIN map
    BY DEF RunStarts
  <2>2. Max(Alike(f)) \in Alike(f) /\ Max(Alike(f)) \in Nat /\ Max(Alike(f)) >= f /\ f \in Nat
    BY <1>1, <2>1
  <2> QED
    BY <2>2 DEF Alike
<1>3. ASSUME NEW x \in DOMAIN map
      PROVE  \E f \in RunStarts(map) : x \in f .. Max(Alike(f)) /\ map[x] = map[f]
  <2> DEFINE B == {f \in Nat : f <= x /\ \A h \in f .. x : h \in DOMAIN map /\ map[h] = map[x]}
  <2>1. x \in Nat /\ x \in B
    <3>1. x \in Nat
      BY DEF IsMap
    <3>2. \A h \in x .. x : h = x
      BY <3>1
    <3> QED
      BY <3>1, <3>2
  <2>2. PICK f \in B : \A y \in B : f <= y
    BY <2>1, MinOfNats
  <2>3. f \in Nat /\ f <= x /\ \A h \in f .. x : h \in DOMAIN map /\ map[h] = map[x]
    OBVIOUS
  <2>4. f \in DOMAIN map /\ map[f] = map[x]
    BY <2>1, <2>3
  <2>5. ~(f - 1 \in DOMAIN map /\ map[f - 1] = map[f])
    <3> SUFFICES ASSUME f - 1 \in DOMAIN map, map[f - 1] = map[f] PROVE FALSE
      OBVIOUS
    <3>1. f - 1 \in Nat
      BY DEF IsMap
    <3>2. \A h \in f - 1 .. x : h = f - 1 \/ h \in f .. x
      BY <2>1, <2>3
    <3>3. f - 1 \in B
      BY <2>1, <2>3, <2>4, <3>1, <3>2
    <3> QED
      BY <2>2, <2>3, <3>3
  <2>6. f \in RunStarts(map)
    BY <2>4, <2>5 DEF RunStarts
  <2>7. x \in Alike(f)
    BY <2>3, <2>4 DEF Alike
  <2>8. x <= Max(Alike(f)) /\ Max(Alike(f)) \in Nat
    BY <1>1, <2>4, <2>7
  <2> QED
    BY <2>1, <2>3, <2>4, <2>6, <2>8
<1> QED
  BY <1>2, <1>3

LEMMA DescriptorsAreRuns ==
  ASSUME IsMap(map)
  PROVE  /\ \A n \in DOMAIN descriptors : \E f \in RunStarts(map) : descriptors[n] = Run(f)
         /\ \A f \in RunStarts(map) : \E n \in DOMAIN descriptors : descriptors[n] = Run(f)
<1> DEFINE S == RunStarts(map)
           all == {Run(f) : f \in S}
           has(d, n) == Cardinality({f \in S : f <= d.phys_addr}) = n
<1>1. /\ S \in SUBSET Nat /\ IsFiniteSet(S)
  <2>1. S \in SUBSET DOMAIN map
    BY DEF RunStarts
  <2> QED
    BY <2>1, FS_Subset DEF IsMap
<1>2. \A f \in S : Run(f) \in all /\ Run(f).phys_addr = f
  BY DEF Run
<1>3. descriptors = [n \in 1 .. Cardinality(S) |-> CHOOSE d \in all : has(d, n)]
  BY DEF descriptors, Run, Alike
<1> HIDE DEF S
<1>4. \A n : \A f \in S : has(Run(f), n) <=> Cardinality(Upto(S, f)) = n
  BY <1>2 DEF Upto
<1> HIDE DEF has, all
<1>5. ASSUME NEW n \in 1 .. Cardinality(S)
      PROVE  descriptors[n] \in all /\ has(descriptors[n], n)
  <2>1. \E f \in S : Cardinality(Upto(S, f)) = n
    BY <1>1, Ranks
  <2>2. \E d \in all : has(d, n)
    BY <1>2, <1>4, <2>1
  <2>3. PICK d : d = CHOOSE e \in all : has(e, n)
    OBVIOUS
  <2>4. d \in all /\ has(d, n)
    BY <2>2, <2>3
  <2> QED
    BY <1>3, <2>3, <2>4
<1>6. ASSUME NEW f \in S
      PROVE  \E n \in DOMAIN descriptors : descriptors[n] = Run(f)
  <2>1. PICK n \in 1 .. Cardinality(S) : Cardinality(Upto(S, f)) = n
    BY <1>1, Ranks
  <2>2. PICK g \in S : descriptors[n] = Run(g) /\ has(Run(g), n)
    BY <1>5 DEF all
  <2>3. g = f
    <3>1. Cardinality(Upto(S, g)) = n
      BY <1>4, <2>2
    <3>2. Cardinality(Upto(S, g)) = Cardinality(Upto(S, f))
      BY <2>1, <3>1
    <3> QED
      BY <1>1, <3>2, Ranks
  <2> QED
    BY <1>3, <2>2, <2>3
<1>7. \A n \in DOMAIN descriptors : \E f \in S : descriptors[n] = Run(f)
  BY <1>3, <1>5 DEF all
<1> QED
  BY <1>6, <1>7 DEF S

\* The conventional frames of the kernel's map are those of the map that was read.
LEMMA DescriptorsDescribe ==
  ASSUME IsMap(map), mem_map = descriptors
  PROVE  ConventionalFrames = {f \in DOMAIN map : map[f] = "conventional"}
<1> DEFINE frames(d) == d.phys_addr .. d.phys_addr + d.num_pages - 1
<1>1. ASSUME NEW f \in RunStarts(map)
      PROVE  frames(Run(f)) = f .. Max(Alike(f))
             /\ (Run(f).type = EfiConventionalMemory <=> map[f] = "conventional")
  <2>1. f \in Nat /\ Max(Alike(f)) \in Nat
    BY RunsCover
  <2>2. f + (Max(Alike(f)) - f + 1) - 1 = Max(Alike(f))
    BY <2>1
  <2> QED
    BY <2>2 DEF Run, EfiConventionalMemory
<1>2. ConventionalFrames = UNION {frames(mem_map[n]) : n \in Conventional(mem_map)}
  BY DEF ConventionalFrames
<1> HIDE DEF frames
<1>3. ASSUME NEW x \in ConventionalFrames
      PROVE  x \in DOMAIN map /\ map[x] = "conventional"
  <2>1. PICK n \in DOMAIN descriptors :
          descriptors[n].type = EfiConventionalMemory /\ x \in frames(descriptors[n])
    BY <1>2 DEF Conventional
  <2>2. PICK f \in RunStarts(map) : descriptors[n] = Run(f)
    BY DescriptorsAreRuns
  <2> QED
    BY <1>1, <2>1, <2>2, RunsCover
<1>4. ASSUME NEW x \in DOMAIN map, map[x] = "conventional"
      PROVE  x \in ConventionalFrames
  <2>1. PICK f \in RunStarts(map) : x \in f .. Max(Alike(f)) /\ map[x] = map[f]
    BY RunsCover
  <2>2. PICK n \in DOMAIN descriptors : descriptors[n] = Run(f)
    BY DescriptorsAreRuns
  <2>3. n \in Conventional(mem_map) /\ x \in frames(mem_map[n])
    BY <1>1, <1>4, <2>1, <2>2 DEF Conventional
  <2> QED
    BY <1>2, <2>3
<1> QED
  BY <1>3, <1>4

(***************************************************************************)
(* The key and the map.  From the call that read the map to the one that   *)
(* uses its key nobody but an event allocates.                             *)
(***************************************************************************)
Read == {"find_rsdp", "exit_boot_services"}

MapInv ==
  /\ IsMap(types) /\ key \in Nat /\ late \in BOOLEAN /\ exited \in BOOLEAN
  /\ status = "loading" =>
       /\ ~exited /\ phase = "off"
       /\ late => lpc \in Read
       /\ lpc \in Read =>
            /\ map_key \in Nat /\ map_key <= key /\ (map_key = key <=> ~late)
            /\ ~late => map \in {types, << >>}
  /\ status = "kernel" => exited = ~late
  /\ exited => map \in {types, << >>}
  /\ IF phase = "off" THEN mem_map = << >> /\ walk = {} /\ ~starved ELSE mem_map = descriptors

LEMMA MapInit == BootInit => MapInv
<1> SUFFICES ASSUME BootInit PROVE MapInv
  OBVIOUS
<1>1. /\ machine \in Machines /\ types = machine.types /\ key = 0 /\ late = FALSE /\ exited = FALSE
      /\ status = "loading" /\ phase = "off" /\ mem_map = << >> /\ lpc = "open_kernel"
      /\ walk = {} /\ starved = FALSE
  BY DEF BootInit, LoaderInit
<1>2. IsMap(types)
  BY <1>1, MachinesAssumption DEF IsMap
<1> QED
  BY <1>1, <1>2 DEF MapInv, Read

\* A call of efi_main before the map is read, whatever it allocates.
LEMMA LoadingKeepsMap ==
  ASSUME MapInv, lpc \notin Read, lpc' \notin Read, status = "loading",
         status' \in {"loading", "lost"}, DOMAIN types' = DOMAIN types, key' \in Nat,
         late' = late, exited' = exited, phase' = phase, mem_map' = mem_map,
         walk' = walk, starved' = starved
  PROVE  MapInv'
<1>1. IsMap(types)'
  BY DEF MapInv, IsMap
<1>2. late = FALSE /\ exited = FALSE /\ phase = "off" /\ mem_map = << >> /\ walk = {} /\ ~starved
  BY DEF MapInv
<1> QED
  BY <1>1, <1>2 DEF MapInv

LEMMA PoolKeepsMap ==
  ASSUME MapInv, PoolServed \/ PoolRefused
  PROVE  DOMAIN types' = DOMAIN types /\ key' \in Nat
<1>1. CASE PoolRefused
  BY <1>1 DEF PoolRefused, MapInv
<1>2. CASE PoolServed
  <2>1. CASE UNCHANGED <<types, key, pool>>
    BY <2>1 DEF MapInv
  <2>2. CASE ~UNCHANGED <<types, key, pool>>
    <3>1. PICK f : types' = [types EXCEPT ![f] = "loader"] /\ key' = key + 1
      BY <1>2, <2>2 DEF PoolServed
    <3> QED
      BY <3>1 DEF MapInv
  <2> QED
    BY <2>1, <2>2
<1> QED
  BY <1>1, <1>2

LEMMA LoaderKeepsMap == MapInv /\ loader => MapInv'
<1> SUFFICES ASSUME MapInv, loader PROVE MapInv'
  OBVIOUS
<1>1. /\ phase' = phase /\ mem_map' = mem_map /\ walk' = walk /\ starved' = starved
      /\ efi_main \/ firmware_event
  BY DEF loader, kernel_vars, boot_vars, all_vars, vars, geometry, ptm_vars
<1>2. CASE firmware_event
  <2>1. /\ status = "loading" /\ status' = status /\ ~exited /\ exited' = exited /\ lpc' = lpc
        /\ key' = key + 1 /\ late' = (lpc \in Read) /\ map_key' = map_key /\ map' = map
    BY <1>2 DEF firmware_event, Read
  <2>2. DOMAIN types' = DOMAIN types
    <3>1. PICK f, t : types' = [types EXCEPT ![f] = t]
      BY <1>2 DEF firmware_event
    <3> QED
      BY <3>1
  <2>3. IsMap(types)'
    BY <2>2 DEF MapInv, IsMap
  <2>4. lpc \in Read => map_key \in Nat /\ map_key <= key + 1 /\ map_key # key + 1
    BY <2>1 DEF MapInv
  <2>5. key' \in Nat /\ phase = "off" /\ mem_map = << >> /\ walk = {} /\ ~starved
    BY <2>1 DEF MapInv
  <2>6. lpc \in Read => map_key' \in Nat /\ map_key' <= key' /\ map_key' # key'
    BY <2>1, <2>4
  <2>7. CASE lpc \in Read
    <3>1. late' = TRUE
      BY <2>1, <2>7
    <3> QED
      BY <1>1, <2>1, <2>3, <2>5, <2>6, <2>7, <3>1 DEF MapInv
  <2>8. CASE lpc \notin Read
    <3>1. late' = FALSE
      <4>1. (lpc \in Read) = FALSE
        BY <2>8
      <4> QED
        BY <2>1, <4>1, Zenon
    <3> QED
      BY <1>1, <2>1, <2>3, <2>5, <2>8, <3>1 DEF MapInv
  <2> QED
    BY <2>7, <2>8
<1>3. CASE open_kernel \/ segments_done \/ get_map_size \/ init_gop
  <2>1. types' = types /\ key' = key
    BY <1>3 DEF open_kernel, segments_done, get_map_size, init_gop
  <2>2. /\ lpc \notin Read /\ lpc' \notin Read /\ status = "loading"
        /\ status' \in {"loading", "lost"} /\ late' = late /\ exited' = exited
    BY <1>3 DEF open_kernel, segments_done, get_map_size, init_gop, Goto, Read
  <2> QED
    BY <1>1, <2>1, <2>2, LoadingKeepsMap DEF MapInv
<1>4. CASE read_header \/ read_program_headers \/ final_font \/ allocate_map
  <2>1. PoolServed \/ PoolRefused
    BY <1>4 DEF read_header, read_program_headers, final_font, allocate_map
  <2>2. /\ lpc \notin Read /\ lpc' \notin Read /\ status = "loading"
        /\ status' \in {"loading", "lost"} /\ late' = late /\ exited' = exited
    BY <1>4 DEF read_header, read_program_headers, final_font, allocate_map, Goto, Read
  <2> QED
    BY <1>1, <2>1, <2>2, PoolKeepsMap, LoadingKeepsMap
<1>5. CASE load_font \/ check_font
  <2>1. (types' = types /\ key' = key) \/ PoolServed \/ PoolRefused
    BY <1>5 DEF load_font, check_font
  <2>2. /\ lpc \notin Read /\ lpc' \notin Read /\ status = "loading"
        /\ status' \in {"loading", "lost"} /\ late' = late /\ exited' = exited
    BY <1>5 DEF load_font, check_font, Goto, Read
  <2>3. DOMAIN types' = DOMAIN types /\ key' \in Nat
    BY <2>1, PoolKeepsMap DEF MapInv
  <2> QED
    BY <1>1, <2>2, <2>3, LoadingKeepsMap
<1>6. CASE load_segment
  <2>1. DOMAIN types' = DOMAIN types /\ key' \in Nat
    BY <1>6 DEF load_segment, MapInv
  <2>2. /\ lpc \notin Read /\ lpc' \notin Read /\ status = "loading"
        /\ status' \in {"loading", "lost"} /\ late' = late /\ exited' = exited
    BY <1>6 DEF load_segment, Goto, Read
  <2> QED
    BY <1>1, <2>1, <2>2, LoadingKeepsMap
<1>7. CASE get_map
  <2>1. /\ status = "loading" /\ status' = status /\ lpc = "get_map" /\ lpc' \in Read
        /\ types' = types /\ key' = key /\ late' = late /\ exited' = exited
        /\ map_key' = key /\ map' \in {types, << >>}
    BY <1>7 DEF get_map, Goto, Read, renewed_key
  <2>2. late = FALSE /\ exited = FALSE /\ lpc \notin Read
    BY <2>1 DEF MapInv, Read
  <2> QED
    BY <1>1, <2>1, <2>2 DEF MapInv
<1>8. CASE find_rsdp
  <2>1. /\ status = "loading" /\ status' = status /\ lpc \in Read /\ lpc' \in Read
        /\ types' = types /\ key' = key /\ late' = late /\ exited' = exited
        /\ map_key' = map_key /\ map' = map
    BY <1>8 DEF find_rsdp, Goto, Read, map_vars
  <2> QED
    BY <1>1, <2>1 DEF MapInv
<1>9. CASE exit_boot_services
  <2>1. /\ status = "loading" /\ status' \in {"kernel", "lost"} /\ lpc \in Read
        /\ types' = types /\ key' = 0 /\ late' = late /\ exited' = (map_key = key)
        /\ map' = map
    BY <1>9 DEF exit_boot_services, Read
  <2>2. exited' = ~late /\ exited' \in BOOLEAN
    BY <2>1 DEF MapInv
  <2>3. exited' => map \in {types, << >>}
    BY <2>1, <2>2 DEF MapInv
  <2> QED
    BY <1>1, <2>1, <2>2, <2>3 DEF MapInv
<1> QED
  BY <1>1, <1>2, <1>3, <1>4, <1>5, <1>6, <1>7, <1>8, <1>9 DEF efi_main

\* Once the kernel has its map, nothing changes what the map depends on.
LEMMA KernelKeepsMap ==
  ASSUME MapInv, kernel
  PROVE  MapInv'
<1>1. /\ status = "kernel" /\ status' # "loading" /\ UNCHANGED loader_vars
      /\ phase' # "off" /\ mem_map' = IF phase = "off" THEN descriptors ELSE mem_map
  <2>1. CASE start
    BY <2>1 DEF start
  <2>2. CASE read_map
    BY <2>2 DEF read_map, read_efi_memory_map, At, Then, Ends, kernel_vars, all_vars, boot_vars,
                vars, geometry
  <2>3. CASE lock_kernel \/ new_tables \/ load_cr3
    BY <2>3 DEF lock_kernel, new_tables, load_cr3, lock_pages, new_page_table_manager, request_page,
                At, Then, all_vars, vars, geometry
  <2>4. CASE identity \/ map_buffer \/ init_heap
    BY <2>4 DEF identity, map_buffer, init_heap, Round, map_mem, map_mem_requested, request_page,
                At, Then, all_vars, vars, geometry
  <2>5. CASE lock_buffer \/ clear_buffer
    BY <2>5 DEF lock_buffer, clear_buffer, lock_pages, At, Then, Ends, kernel_vars, all_vars,
                boot_vars, vars, geometry
  <2>6. CASE make_idt
    BY <2>6 DEF make_idt, request_page, At, geometry
  <2>7. CASE find_mcfg \/ enumerate_pci
    BY <2>7 DEF find_mcfg, enumerate_pci, At, Then, Ends, kernel_vars, all_vars, boot_vars,
                vars, geometry
  <2>8. CASE enumerate_bus \/ enumerate_device \/ enumerate_function
    BY <2>8 DEF enumerate_bus, enumerate_device, enumerate_function, Mapping, map_mem, At, Then,
                all_vars, vars, geometry
  <2>9. CASE bus_header \/ device_header
    BY <2>9 DEF bus_header, device_header, Reading, At, Then, all_vars, vars, geometry
  <2>10. CASE function_header
    BY <2>10 DEF function_header, Reading, At, Then, all_vars, vars, geometry
  <2>11. CASE unmask_and_sti
    BY <2>11 DEF unmask_and_sti, At, all_vars, vars, geometry
  <2>12. CASE starve
    BY <2>12 DEF MapInv, starve, Ends, kernel_vars, all_vars, boot_vars, vars, geometry
  <2>13. CASE status = "kernel" /\ map_step /\ UNCHANGED <<loader_vars, status, boot_vars>>
    BY <2>13 DEF MapInv, map_step, map_descend, map_new_table, map_leaf, request_page, boot_vars, vars,
                 geometry
  <2> QED
    BY <2>1, <2>2, <2>3, <2>4, <2>5, <2>6, <2>7, <2>8, <2>9, <2>10, <2>11, <2>12, <2>13 DEF kernel
<1>2. /\ types' = types /\ key' = key /\ late' = late /\ exited' = exited /\ map' = map
  BY <1>1 DEF loader_vars
<1>3. descriptors' = descriptors
  BY <1>2 DEF descriptors, RunStarts
<1>4. mem_map' = descriptors'
  BY <1>1, <1>3 DEF MapInv
<1>5. IsMap(types)'
  BY <1>2 DEF MapInv, IsMap
<1>6. status' = "kernel" => exited' = ~late'
  BY <1>1, <1>2 DEF MapInv
<1>7. exited' => map' \in {types', << >>}
  BY <1>2 DEF MapInv
<1>8. key' \in Nat /\ late' \in BOOLEAN /\ exited' \in BOOLEAN
  BY <1>2 DEF MapInv
<1> QED
  BY <1>1, <1>4, <1>5, <1>6, <1>7, <1>8 DEF MapInv

LEMMA MapStep == MapInv /\ [BootNext]_everything => MapInv'
<1> SUFFICES ASSUME MapInv, [BootNext]_everything PROVE MapInv'
  OBVIOUS
<1>1. CASE UNCHANGED everything
  <2>1. /\ types' = types /\ key' = key /\ late' = late /\ exited' = exited /\ map' = map
        /\ status' = status /\ lpc' = lpc /\ map_key' = map_key /\ phase' = phase
        /\ mem_map' = mem_map /\ walk' = walk /\ starved' = starved
    BY <1>1 DEF everything, loader_vars, kernel_vars, boot_vars, all_vars, vars, geometry, ptm_vars
  <2>2. descriptors' = descriptors /\ IsMap(types)'
    BY <2>1 DEF descriptors, RunStarts, IsMap, MapInv
  <2> QED
    BY <2>1, <2>2 DEF MapInv
<1> QED
  BY <1>1, LoaderKeepsMap, KernelKeepsMap DEF BootNext

\* What MapInv says of the two maps is what a reader wants to know of them.
LEMMA MapMeans == MapInv => MapIsCurrent
<1> SUFFICES ASSUME MapInv PROVE MapIsCurrent
  OBVIOUS
<1>1. ASSUME exited, mem_map # << >>
      PROVE  ConventionalFrames = Frames("conventional")
  <2>1. mem_map = descriptors /\ map \in {types, << >>} /\ IsMap(types)
    BY <1>1 DEF MapInv
  <2>2. map # << >>
    <3> SUFFICES ASSUME map = << >> PROVE FALSE
      OBVIOUS
    <3>1. RunStarts(map) = {}
      BY DEF RunStarts
    <3>2. Cardinality(RunStarts(map)) = 0
      BY <3>1, FS_EmptySet
    <3>3. IsMap(map)
      BY FS_EmptySet DEF IsMap
    <3>4. DOMAIN descriptors = {}
      BY <3>2 DEF descriptors
    <3>5. descriptors = << >>
      BY <3>2 DEF descriptors
    <3> QED
      BY <1>1, <2>1, <3>5
  <2>3. map = types
    BY <2>1, <2>2
  <2>4. IsMap(map)
    BY <2>1, <2>3
  <2> QED
    BY <2>1, <2>3, <2>4, DescriptorsDescribe DEF Frames
<1> QED
  BY <1>1 DEF MapIsCurrent, MapInv

\* What the kernel is told of the memory is what the firmware last said, for every
\* machine and wherever an event falls (main.c:254-292).
THEOREM MapStaysCurrent == BootSpec => []MapIsCurrent
  BY MapInit, MapStep, MapMeans, PTL DEF BootSpec

-------------------------------------------------------------------------------
(***************************************************************************)
(* What is touched is mapped.  A page the kernel has asked to be mapped to *)
(* itself is, or will be by the call under way; the pages of the heap are  *)
(* the only ones that are mapped elsewhere.                                *)
(***************************************************************************)
HeapArea == HeapBase .. HeapBase + HeapPages - 1
BufferArea == BufferBase .. BufferBase + BufferPages
MemoryArea == 0 .. mem_size - 1

\* The memory maps and the areas a boot maps lie below the highest address, the heap's
\* area apart from the others, and what the loader put in memory is in the map.
BootFits ==
  /\ BitsPerByte >= 2 /\ DevicesPerBus > 0 /\ FunctionsPerDevice > 0
  /\ {BufferBase, BufferPages, HeapBase, HeapPages} \subseteq Nat
  /\ HeapArea \subseteq VirtPages /\ BufferArea \subseteq VirtPages \ HeapArea
  /\ \A m \in MemMaps : 0 .. get_memory_size(m) - 1 \subseteq VirtPages \ HeapArea
  /\ \A m \in Machines :
       /\ Image \union {InfoFrame} \subseteq DOMAIN m.types
       /\ \A n \in 1 .. Len(m.mcfg) :
            \A b \in m.mcfg[n].start_bus .. m.mcfg[n].end_bus - 1,
               d \in 0 .. DevicesPerBus - 1, f \in 0 .. FunctionsPerDevice - 1 :
              m.mcfg[n].base + (b * DevicesPerBus + d) * FunctionsPerDevice + f
                \in VirtPages \ HeapArea

\* What the kernel does to the allocator and the tables.
Calls ==
  \/ read_efi_memory_map /\ UNCHANGED ptm_vars
  \/ \E addr, count : lock_pages(addr, count) /\ UNCHANGED ptm_vars
  \/ new_page_table_manager
  \/ \E virt \in VirtPages, phys \in Nat : map_mem(virt, phys)
  \/ \E virt \in VirtPages : map_mem_requested(virt)
  \/ map_step
  \/ request_page /\ pml4_addr # Absent /\ ~starved /\ UNCHANGED ptm_vars
  \/ UNCHANGED all_vars

\* The bitmap is as long as the memory, and the scan does not go beyond its limit.
SizeInv ==
  /\ initialized => size = bitmap_size(mem_size)
  /\ owned \subseteq 0 .. size - 1

LEMMA RequestKeepsSize ==
  ASSUME Core, SizeInv, request_page
  PROVE  SizeInv'
<1>1. /\ initialized' = initialized /\ size' = size /\ mem_map' = mem_map
      /\ owned' = owned \/ (Candidates # {} /\ owned' = owned \union {Min(Candidates)})
  BY DEF request_page, geometry
<1>2. owned' \subseteq 0 .. size - 1
  <2>1. Candidates # {} => Min(Candidates) \in 0 .. size - 1
    BY FoundFrame
  <2> QED
    BY <1>1, <2>1, Zenon DEF SizeInv
<1> QED
  BY <1>1, <1>2 DEF SizeInv, mem_size

LEMMA CallKeepsSize ==
  ASSUME Core, SizeInv, Calls
  PROVE  SizeInv'
<1>1. CASE request_page
  BY <1>1, RequestKeepsSize
<1>2. CASE UNCHANGED <<mem_map, initialized, size, owned>>
  BY <1>2 DEF SizeInv, mem_size
<1>3. CASE read_efi_memory_map
  <2>1. /\ ~initialized /\ size' = bitmap_size(get_memory_size(mem_map)) /\ owned' = owned
        /\ mem_map' = mem_map
    BY <1>3 DEF read_efi_memory_map
  <2>2. owned = {}
    BY <2>1 DEF Core, BeforeBoot
  <2> QED
    BY <2>1, <2>2 DEF SizeInv, mem_size
<1> QED
  BY <1>1, <1>2, <1>3 DEF Calls, lock_pages, new_page_table_manager, map_mem, map_mem_requested,
     map_step, map_descend, map_new_table, map_leaf, all_vars, vars, geometry

LEMMA CallKeepsSpace ==
  ASSUME PagesDiffer, SpaceInv, Calls
  PROVE  SpaceInv'
<1>0. PtmInv /\ PathInv /\ Core /\ TreeInv /\ starved \in BOOLEAN
  BY DEF SpaceInv, PtmInv
<1>1. CASE [PtmNext]_all_vars
  BY <1>1, PtmInvStep, SpaceStep, StarvedType DEF SpaceInv
<1>2. CASE \E addr, count : lock_pages(addr, count) /\ UNCHANGED ptm_vars
  <2>1. Core' /\ owned' = owned
    BY <1>0, <1>2, CoreLock DEF lock_pages
  <2>2. TreeInv' /\ PathInv'
    BY <1>0, <1>2, <2>1, SameKeeps, StillShows DEF ptm_vars
  <2> QED
    BY <1>0, <1>2, <2>1, <2>2 DEF SpaceInv, PtmInv, ptm_vars
<1>3. CASE request_page /\ pml4_addr # Absent /\ ~starved /\ UNCHANGED ptm_vars
  <2>1. Core' /\ owned \subseteq owned'
    BY <1>0, <1>3, CoreRequest, FrameRequested
  <2>2. PathInv'
    BY <1>0, <1>3, StillShows DEF ptm_vars
  <2>3. TreeInv'
    <3>1. \A level \in [DOMAIN tables -> 1 .. Levels] :
            Levelled(level) => \A w \in walk' : StandsOn(level, w)
      BY <1>3 DEF Levelled, ptm_vars
    <3> QED
      BY <1>0, <1>3, <2>1, <3>1, WalkKeeps DEF ptm_vars
  <2> QED
    BY <1>0, <1>3, <2>1, <2>2, <2>3 DEF SpaceInv, PtmInv, ptm_vars
<1>4. ASSUME NEW virt \in VirtPages, NEW phys \in Nat, map_mem(virt, phys)
      PROVE  SpaceInv'
  <2>1. /\ ~starved /\ pml4_addr # Absent /\ UNCHANGED <<vars, pml4_addr, tables, starved>>
        /\ walk' = {[virt |-> virt, phys |-> phys, level |-> 1, table |-> pml4_addr]}
    BY <1>4 DEF map_mem, Callable
  <2>2. Core' /\ owned' = owned
    <3>1. Core /\ [Next]_vars
      BY <1>0, <2>1
    <3> QED
      BY <2>1, <3>1, CoreNext DEF vars
  <2>3. virt \in Nat
    BY PagingAssumption
  <2>4. TreeInv'
    BY <1>0, <2>1, <2>2, <2>3, MapKeeps
  <2>5. PathInv'
    BY <2>1, MapShows
  <2> QED
    BY <1>0, <2>1, <2>2, <2>4, <2>5 DEF SpaceInv, PtmInv
<1> QED
  BY <1>1, <1>2, <1>3, <1>4 DEF Calls, PtmNext

\* The page is mapped to itself, or the call under way is going to do it.
Kept(f) == translate(f) = f \/ \E w \in walk : w.virt = f /\ w.phys = f

\* No call under way maps it elsewhere.
Straight == \A w \in walk : w.virt = w.phys \/ w.virt \in HeapArea

PagesStayKept == \A f \in VirtPages \ HeapArea : Kept(f) => Kept(f)'

LEMMA SameTranslations ==
  ASSUME translation' = translation, NEW f \in VirtPages, translate(f) = f
  PROVE  translate(f)' = f
<1>1. f \in Nat /\ f # Absent
  BY PagingAssumption DEF Absent
<1>2. f \in DOMAIN translation /\ translation[f] = f
  BY <1>1 DEF translation
<1>3. f \in DOMAIN translation' /\ translation'[f] = f
  BY <1>2
<1> QED
  BY <1>3 DEF translation

LEMMA MapStepKeeps ==
  ASSUME PagesDiffer, SpaceInv, map_step, ~starved, ~starved', Straight
  PROVE  Straight' /\ PagesStayKept
<1>1. PICK w \in walk : map_descend(w) \/ map_new_table(w) \/ map_leaf(w)
  BY DEF map_step
<1>2. \A u \in walk : u = w
  BY DEF SpaceInv, PathInv
<1>3. w \in [virt : Nat, phys : Nat, level : 1 .. Levels, table : DOMAIN tables]
  BY DEF SpaceInv, PtmInv, TreeInv, Levelled, StandsOn
<1>4. CASE map_descend(w) \/ map_new_table(w)
  <2>1. translation' = translation
    BY <1>4, DescendShows, NewTableShows
  <2>2. PICK u : walk' = {u} /\ u.virt = w.virt /\ u.phys = w.phys
    <3> DEFINE moved(t) == [w EXCEPT !.level = @ + 1, !.table = t]
    <3>1. PICK a, b : a = entry(w) /\ b = returned'
      OBVIOUS
    <3>2. walk' = {moved(a)} \/ walk' = {moved(b)}
      BY <1>4, <3>1, Zenon DEF map_descend, map_new_table
    <3>3. \A t : moved(t).virt = w.virt /\ moved(t).phys = w.phys
      BY <1>3
    <3> HIDE DEF moved
    <3> QED
      BY <3>2, <3>3
  <2>3. Straight'
    BY <2>2 DEF Straight
  <2>4. ASSUME NEW f \in VirtPages, Kept(f) PROVE Kept(f)'
    BY <1>2, <2>1, <2>2, <2>4, SameTranslations DEF Kept
  <2> QED
    BY <2>3, <2>4 DEF PagesStayKept
<1>5. CASE map_leaf(w)
  <2>1. /\ walk' = {} /\ walk = {w} /\ translate(w.virt)' = w.phys
        /\ \A v \in VirtPages : v # w.virt => translate(v)' = translate(v)
    BY <1>5, LeafShows DEF map_leaf
  <2>2. Straight'
    BY <2>1 DEF Straight
  <2>3. ASSUME NEW f \in VirtPages \ HeapArea, Kept(f) PROVE Kept(f)'
    <3>1. CASE f = w.virt
      <4>1. w.phys = f
        BY <3>1, <2>3 DEF Straight
      <4> QED
        BY <2>1, <3>1, <4>1 DEF Kept
    <3>2. CASE f # w.virt
      BY <2>1, <2>3, <3>2 DEF Kept
    <3> QED
      BY <3>1, <3>2
  <2> QED
    BY <2>2, <2>3 DEF PagesStayKept
<1> QED
  BY <1>1, <1>4, <1>5

\* While no call is under way nothing but a call changes what a page translates to.
LEMMA OthersKeep ==
  ASSUME SpaceInv, Calls, ~map_step, walk = {}, ~starved, ~starved'
  PROVE  PagesStayKept /\ \A f \in VirtPages : translate(f) = f => translate(f)' = f
<1>1. translation' = translation
  <2>1. CASE UNCHANGED <<pml4_addr, tables>>
    BY <2>1, SameTables
  <2>2. CASE new_page_table_manager
    BY <2>2, NewManagerShows
  <2> QED
    BY <2>1, <2>2 DEF Calls, ptm_vars, all_vars, map_mem, map_mem_requested
<1>2. \A f \in VirtPages : translate(f) = f => translate(f)' = f
  BY <1>1, SameTranslations
<1> QED
  BY <1>2 DEF PagesStayKept, Kept

-------------------------------------------------------------------------------
Early == {"off", "read_map", "lock_kernel", "new_tables"}
Headers == {"bus_header", "device_header", "function_header"}

\* Before the map is read there is neither bitmap nor table.
Booting ==
  /\ initialized = FALSE
  /\ size = 0 /\ buffer = NULL /\ bits = {} /\ page_bitmap_index = 0
  /\ free_memory = 0 /\ reserved_memory = 0 /\ used_memory = 0
  /\ returned = NULL /\ owned = {} /\ pinned = {} /\ stray = 0
  /\ pml4_addr = Absent /\ tables = << >> /\ walk = {} /\ starved = FALSE /\ i = 0

\* What each statement may take to be mapped.
Promises ==
  /\ phase = "identity" => \A f \in MemoryArea : f < i => Kept(f)
  /\ phase \notin Early \union {"identity"} => \A f \in MemoryArea : Kept(f)
  /\ phase = "map_buffer" => \A f \in BufferArea : f < BufferBase + i => Kept(f)
  /\ phase \in {"load_cr3", "clear_buffer"} => \A f \in BufferArea : Kept(f)
  /\ status = "kernel" =>
       /\ phase = "bus_header" => \A f : f = config_page(bus, 0, 0) => Kept(f)
       /\ phase = "device_header" => \A f : f = config_page(bus, device, 0) => Kept(f)
       /\ phase = "function_header" =>
            \A f : f = config_page(bus, device, function) => Kept(f)

TablesInv ==
  /\ SpaceInv /\ SizeInv
  /\ IF phase \in Early THEN i = 0 /\ pml4_addr = Absent ELSE pml4_addr # Absent
  /\ phase = "lock_buffer" => i = 0
  /\ ~starved => Straight /\ Promises

FrameInv ==
  /\ i \in Nat
  /\ IF mem_map = << >> \/ phase = "off" THEN Booting /\ phase \in {"off", "read_map"}
     ELSE TablesInv

KnownMap == mem_map = << >> \/ mem_map \in MemMaps

LEMMA Areas ==
  ASSUME BootFits, mem_map \in MemMaps
  PROVE  /\ MemoryArea \subseteq VirtPages \ HeapArea /\ mem_size \in Nat
         /\ BufferArea \subseteq VirtPages \ HeapArea /\ HeapArea \subseteq VirtPages
         /\ BufferBase \in Nat /\ BufferPages \in Nat /\ HeapBase \in Nat /\ HeapPages \in Nat
         /\ VirtPages \subseteq Nat
  BY MapTypes, PagingAssumption DEF BootFits, MemoryArea, mem_size

\* The pages of the walk over PCI are among those that can be mapped.
ConfigPages ==
  /\ phase = "bus" /\ more_buses => config_page(bus, 0, 0) \in VirtPages \ HeapArea
  /\ phase = "device" /\ device < DevicesPerBus =>
       config_page(bus, device, 0) \in VirtPages \ HeapArea
  /\ phase = "function" /\ function < FunctionsPerDevice =>
       config_page(bus, device, function) \in VirtPages \ HeapArea
  /\ phase = "bus_header" => config_page(bus, 0, 0) \in VirtPages \ HeapArea
  /\ phase = "device_header" => config_page(bus, device, 0) \in VirtPages \ HeapArea
  /\ phase = "function_header" => config_page(bus, device, function) \in VirtPages \ HeapArea

LEMMA PagesOfConfig ==
  ASSUME BootFits, PciInv, status = "kernel"
  PROVE  ConfigPages
<1>1. machine \in Machines /\ Position
  BY DEF PciInv
<1>2. /\ DevicesPerBus \in Nat /\ FunctionsPerDevice \in Nat
      /\ DevicesPerBus > 0 /\ FunctionsPerDevice > 0
      /\ \A n \in 1 .. Len(machine.mcfg) :
           machine.mcfg[n].start_bus \in Nat /\ machine.mcfg[n].end_bus \in Nat
  BY <1>1, AddressFacts DEF BootFits
<1>3. ASSUME phase \in InBuses, bus < here.end_bus, NEW d \in 0 .. DevicesPerBus - 1,
             NEW f \in 0 .. FunctionsPerDevice - 1
      PROVE  config_page(bus, d, f) \in VirtPages \ HeapArea
  <2>1. entry_no \in 1 .. Len(machine.mcfg) /\ bus \in here.start_bus .. here.end_bus - 1
    BY <1>1, <1>2, <1>3 DEF Position, here
  <2> QED
    BY <1>1, <1>3, <2>1 DEF BootFits, config_page, here
<1>4. /\ phase \in InBuses => bus \in Nat /\ device \in Nat /\ function \in Nat
      /\ phase \in InDevices \union {"bus_header"} => bus < here.end_bus
      /\ phase \in InDevices => device \in Nat
      /\ phase = "device_header" => device < DevicesPerBus
      /\ phase = "function_header" => function < FunctionsPerDevice
  BY <1>1 DEF Position
<1>5. phase \in InFunctions => device < DevicesPerBus
  <2> SUFFICES ASSUME phase \in InFunctions PROVE device < DevicesPerBus
    OBVIOUS
  <2>1. <<entry_no, bus, device, 0>> \in machine.functions
    BY <1>1 DEF Position, present, InDevices
  <2>2. PICK a \in machine.functions : a = <<entry_no, bus, device, 0>>
    BY <2>1
  <2>3. a[3] \in 0 .. DevicesPerBus - 1
    BY <1>1, AddressFacts
  <2> QED
    BY <1>2, <2>2, <2>3
<1>6. phase \in {"bus", "bus_header", "device", "device_header", "function", "function_header"}
        => phase \in InBuses
  BY DEF InBuses, InDevices, InFunctions
<1>7. /\ phase = "bus" /\ more_buses => config_page(bus, 0, 0) \in VirtPages \ HeapArea
      /\ phase = "bus_header" => config_page(bus, 0, 0) \in VirtPages \ HeapArea
  BY <1>2, <1>3, <1>4, <1>6 DEF more_buses
<1>8. /\ phase = "device" /\ device < DevicesPerBus =>
           config_page(bus, device, 0) \in VirtPages \ HeapArea
      /\ phase = "device_header" => config_page(bus, device, 0) \in VirtPages \ HeapArea
  <2>1. phase \in {"device", "device_header"} => phase \in InDevices
    BY DEF InDevices
  <2> QED
    BY <1>2, <1>3, <1>4, <1>6, <2>1
<1>9. /\ phase = "function" /\ function < FunctionsPerDevice =>
           config_page(bus, device, function) \in VirtPages \ HeapArea
      /\ phase = "function_header" => config_page(bus, device, function) \in VirtPages \ HeapArea
  <2>1. phase \in {"function", "function_header"} => phase \in InDevices /\ phase \in InFunctions
    BY DEF InDevices, InFunctions
  <2> QED
    BY <1>2, <1>3, <1>4, <1>5, <1>6, <2>1
<1> QED
  BY <1>7, <1>8, <1>9 DEF ConfigPages

-------------------------------------------------------------------------------
\* A statement that calls something, with no call of map_mem under way: what was kept
\* is kept, and what the next statement may take to be mapped is left to show.
LEMMA StatementKeeps ==
  ASSUME PagesDiffer, TablesInv, Calls, walk = {}, ~starved, mem_map # << >>, mem_map' = mem_map,
         i' \in Nat, phase' # "off",
         phase' \in Early => i' = 0 /\ pml4_addr' = Absent,
         phase' \notin Early => pml4_addr' # Absent,
         phase' = "lock_buffer" => i' = 0,
         ~starved' /\ PagesStayKept => Straight' /\ Promises'
  PROVE  FrameInv'
<1>1. SpaceInv' /\ SizeInv'
  BY CallKeepsSpace, CallKeepsSize DEF TablesInv, SpaceInv, PtmInv
<1>2. ~starved' => PagesStayKept
  BY OthersKeep DEF TablesInv, map_step
<1>3. TablesInv'
  BY <1>1, <1>2 DEF TablesInv
<1> QED
  BY <1>3 DEF FrameInv

LEMMA LockKernelKeeps ==
  ASSUME PagesDiffer, TablesInv, mem_map # << >>, lock_kernel
  PROVE  FrameInv'
<1>1. /\ walk = {} /\ ~starved /\ phase = "lock_kernel" /\ phase' = "new_tables"
      /\ mem_map' = mem_map /\ i' = i /\ UNCHANGED ptm_vars /\ Calls
  BY DEF lock_kernel, At, Then, lock_pages, geometry, Calls
<1>2. i = 0 /\ pml4_addr = Absent
  BY <1>1 DEF TablesInv, Early
<1>3. Straight' /\ Promises'
  BY <1>1 DEF Straight, Promises, Early, ptm_vars
<1> QED
  BY <1>1, <1>2, <1>3, StatementKeeps DEF Early, ptm_vars

LEMMA ReadMapKeeps ==
  ASSUME PagesDiffer, FrameInv, read_map
  PROVE  FrameInv'
<1>1. phase = "read_map" /\ walk = {} /\ ~starved
  BY DEF read_map, At
<1>2. CASE mem_map = << >>
  BY <1>1, <1>2 DEF read_map, Ends, FrameInv, Booting, kernel_vars, all_vars, vars, geometry, counters,
     ptm_vars, boot_vars
<1>3. CASE mem_map # << >>
  <2>1. /\ phase' = "lock_kernel" /\ mem_map' = mem_map /\ i' = i /\ UNCHANGED ptm_vars /\ Calls
    BY <1>3 DEF read_map, Then, read_efi_memory_map, Calls
  <2>2. TablesInv /\ i = 0 /\ pml4_addr = Absent
    BY <1>1, <1>3 DEF FrameInv, TablesInv, Early
  <2>3. Straight' /\ Promises'
    BY <1>1, <2>1 DEF Straight, Promises, Early, ptm_vars
  <2> QED
    BY <1>1, <1>3, <2>1, <2>2, <2>3, StatementKeeps DEF Early, ptm_vars
<1> QED
  BY <1>2, <1>3

LEMMA NewTablesKeeps ==
  ASSUME PagesDiffer, BootFits, TablesInv, mem_map # << >>, new_tables
  PROVE  FrameInv'
<1>1. /\ walk = {} /\ ~starved /\ phase = "new_tables" /\ phase' = "identity"
      /\ mem_map' = mem_map /\ i' = i /\ walk' = walk /\ Calls
      /\ request_page /\ pml4_addr' = returned'
  BY DEF new_tables, At, Then, new_page_table_manager, request_page, geometry, Calls
<1>2. i = 0 /\ mem_map \in MemMaps /\ Core
  BY <1>1 DEF TablesInv, Early, SpaceInv, PtmInv, Core, TypeOK
<1>3. pml4_addr' # Absent
  BY <1>1, <1>2, FrameRequested DEF Absent
<1>4. MemoryArea' = MemoryArea /\ \A f \in MemoryArea : ~(f < 0)
  BY <1>1 DEF MemoryArea, mem_size
<1>5. Straight' /\ Promises'
  BY <1>1, <1>2, <1>4 DEF Straight, Promises, Early
<1> QED
  BY <1>1, <1>2, <1>3, <1>5, StatementKeeps DEF Early

\* A round of a loop that maps pages to themselves, and its end.
LEMMA IdentityKeeps ==
  ASSUME PagesDiffer, BootFits, TablesInv, mem_map # << >>, i \in Nat, identity
  PROVE  FrameInv'
<1>1. /\ walk = {} /\ ~starved /\ phase = "identity"
      /\ IF i < mem_size THEN map_mem(i, i) /\ i' = i + 1 /\ phase' = "identity"
                         ELSE i' = 0 /\ phase' = "lock_buffer" /\ UNCHANGED all_vars
  BY DEF identity, Round, At, Then, identity_pages
<1>2. mem_map' = mem_map /\ pml4_addr' = pml4_addr /\ pml4_addr # Absent /\ mem_map \in MemMaps
  BY <1>1 DEF map_mem, all_vars, ptm_vars, vars, geometry, TablesInv, Early, SpaceInv, PtmInv, Core,
              TypeOK
<1>3. MemoryArea' = MemoryArea
  BY <1>2 DEF MemoryArea, mem_size
<1>4. /\ MemoryArea \subseteq VirtPages \ HeapArea /\ mem_size \in Nat
      /\ \A f \in MemoryArea : f \in Nat /\ f < mem_size
  BY <1>2, Areas DEF MemoryArea
<1>5. \A f \in MemoryArea : f < i => Kept(f)
  BY <1>1 DEF TablesInv, Promises
<1>6. CASE i < mem_size
  <2>1. i \in MemoryArea
    BY <1>4, <1>6 DEF MemoryArea
  <2>2. Calls
    BY <1>1, <1>4, <1>6, <2>1 DEF Calls
  <2>3. walk' = {[virt |-> i, phys |-> i, level |-> 1, table |-> pml4_addr]}
    BY <1>1, <1>6 DEF map_mem
  <2>4. Straight'
    BY <2>3 DEF Straight
  <2>5. PagesStayKept => \A f \in MemoryArea : f < i + 1 => Kept(f)'
    <3> SUFFICES ASSUME PagesStayKept, NEW f \in MemoryArea, f < i + 1 PROVE Kept(f)'
      OBVIOUS
    <3>1. CASE f < i
      BY <1>4, <1>5, <3>1 DEF PagesStayKept
    <3>2. CASE f = i
      BY <2>3, <3>2 DEF Kept
    <3> QED
      BY <1>4, <3>1, <3>2
  <2>6. PagesStayKept => Promises'
    BY <1>1, <1>3, <1>6, <2>5 DEF Promises, Early
  <2> QED
    BY <1>1, <1>2, <1>6, <2>2, <2>4, <2>6, StatementKeeps DEF Early
<1>7. CASE ~(i < mem_size)
  <2>1. Calls /\ walk' = {}
    BY <1>1, <1>7 DEF Calls, all_vars, ptm_vars
  <2>2. \A f \in MemoryArea : f < i
    BY <1>4, <1>7
  <2>3. PagesStayKept => \A f \in MemoryArea : Kept(f)'
    BY <1>4, <1>5, <2>2 DEF PagesStayKept
  <2>4. PagesStayKept => Promises'
    BY <1>1, <1>3, <1>7, <2>3 DEF Promises, Early
  <2>5. Straight'
    BY <2>1 DEF Straight
  <2> QED
    BY <1>1, <1>2, <1>7, <2>1, <2>4, <2>5, StatementKeeps DEF Early
<1> QED
  BY <1>6, <1>7

\* The statements after the loop that maps memory: what follows from it stays.
LEMMA MemoryStaysKept ==
  ASSUME BootFits, TablesInv, ~starved, phase \notin Early \union {"identity"}, PagesStayKept,
         mem_map' = mem_map
  PROVE  (\A f \in MemoryArea : Kept(f))'
<1>1. MemoryArea \subseteq VirtPages \ HeapArea
  BY Areas DEF TablesInv, SpaceInv, PtmInv, Core, TypeOK
<1>2. MemoryArea' = MemoryArea
  BY DEF MemoryArea, mem_size
<1>3. \A f \in MemoryArea : Kept(f)
  BY DEF TablesInv, Promises
<1>4. \A f \in MemoryArea : Kept(f)'
  BY <1>1, <1>3 DEF PagesStayKept
<1> QED
  BY <1>2, <1>4

\* A statement after that loop that maps nothing and is not one the framebuffer is due at.
Plain == {"lock_buffer", "init_heap", "make_idt", "find_mcfg", "enumerate_pci", "bus", "device",
          "function", "unmask", "running"}

LEMMA PlainKeeps ==
  ASSUME PagesDiffer, BootFits, TablesInv, mem_map # << >>, mem_map' = mem_map, i' \in Nat,
         Calls, walk = {}, ~starved, phase \notin Early \union {"identity"},
         phase' \in Plain, phase' = "lock_buffer" => i' = 0, pml4_addr' = pml4_addr,
         \A w \in walk' : w.virt \in HeapArea
  PROVE  FrameInv'
<1>1. pml4_addr # Absent
  BY DEF TablesInv
<1>2. phase' \notin Early \union Headers
                     \union {"off", "identity", "map_buffer", "load_cr3", "clear_buffer"}
  BY DEF Plain, Early, Headers
<1>3. Straight'
  BY DEF Straight
<1>4. PagesStayKept => Promises'
  BY <1>2, MemoryStaysKept DEF Promises, Headers
<1> QED
  BY <1>1, <1>2, <1>3, <1>4, StatementKeeps

\* The statements that may end the boot instead.
LEMMA SameKept ==
  ASSUME UNCHANGED <<pml4_addr, tables, walk>>
  PROVE  \A f : Kept(f) => Kept(f)'
<1>1. \A virt, f : Walks(virt, f) => Walks(virt, f)'
  BY DEF Walks, Follow
<1>2. \A v : translate(v)' = translate(v)
  BY <1>1, AlwaysShown DEF Shown
<1> QED
  BY <1>2 DEF Kept

LEMMA EndKeeps ==
  ASSUME PagesDiffer, FrameInv, UNCHANGED <<loader_vars, kernel_vars>>,
         status' = "kernel" => status = "kernel"
  PROVE  FrameInv'
<1>1. /\ UNCHANGED <<mem_map, initialized, size, buffer, bits, page_bitmap_index, free_memory,
                     reserved_memory, used_memory, returned, owned, pinned, stray>>
      /\ UNCHANGED <<pml4_addr, tables, walk, starved, phase, i, entry_no, bus, device, function>>
      /\ UNCHANGED machine
  BY DEF loader_vars, kernel_vars, all_vars, vars, geometry, counters, ptm_vars, boot_vars, pci_vars
<1>2. CASE mem_map = << >> \/ phase = "off"
  BY <1>1, <1>2 DEF FrameInv, Booting
<1>3. CASE ~(mem_map = << >> \/ phase = "off")
  <2>1. TablesInv
    BY <1>3 DEF FrameInv
  <2>2. SpaceInv' /\ SizeInv'
    BY <2>1, CallKeepsSpace, CallKeepsSize DEF Calls, TablesInv, SpaceInv, PtmInv, kernel_vars
  <2>3. Straight => Straight'
    BY <1>1 DEF Straight
  <2>4. Promises => Promises'
    <3>1. MemoryArea' = MemoryArea /\ \A d, f : config_page(bus, d, f)' = config_page(bus, d, f)
      BY <1>1 DEF MemoryArea, mem_size, config_page, here
    <3>2. /\ config_page(bus, 0, 0)' = config_page(bus, 0, 0)
          /\ config_page(bus, device, 0)' = config_page(bus, device, 0)
          /\ config_page(bus, device, function)' = config_page(bus, device, function)
      BY <1>1 DEF config_page, here
    <3> QED
      BY <1>1, <3>1, <3>2, SameKept DEF Promises
  <2> QED
    BY <1>1, <1>3, <2>1, <2>2, <2>3, <2>4 DEF FrameInv, TablesInv
<1> QED
  BY <1>2, <1>3

LEMMA LockBufferKeeps ==
  ASSUME PagesDiffer, BootFits, FrameInv, TablesInv, mem_map # << >>, lock_buffer
  PROVE  FrameInv'
<1>1. walk = {} /\ ~starved /\ phase = "lock_buffer" /\ i = 0 /\ status = "kernel"
      /\ UNCHANGED loader_vars
  BY DEF lock_buffer, At, TablesInv
<1>2. CASE gop
  <2>1. /\ phase' = "map_buffer" /\ mem_map' = mem_map /\ i' = i /\ UNCHANGED ptm_vars /\ Calls
    BY <1>2 DEF lock_buffer, Then, lock_pages, geometry, Calls
  <2>2. pml4_addr' # Absent /\ Straight'
    BY <1>1, <2>1 DEF TablesInv, Early, ptm_vars, Straight
  <2>3. \A f \in BufferArea : ~(f < BufferBase + 0)
    BY DEF BufferArea, BootFits
  <2>4. PagesStayKept => Promises'
    BY <1>1, <2>1, <2>3, MemoryStaysKept DEF Promises, Early
  <2> QED
    BY <1>1, <2>1, <2>2, <2>4, StatementKeeps DEF Early
<1>3. CASE ~gop
  BY <1>1, <1>3, EndKeeps DEF lock_buffer, Ends
<1> QED
  BY <1>2, <1>3

LEMMA MapBufferKeeps ==
  ASSUME PagesDiffer, BootFits, TablesInv, mem_map # << >>, i \in Nat, map_buffer
  PROVE  FrameInv'
<1>1. /\ walk = {} /\ ~starved /\ phase = "map_buffer"
      /\ IF i < BufferPages + 1
         THEN map_mem(BufferBase + i, BufferBase + i) /\ i' = i + 1 /\ phase' = "map_buffer"
         ELSE i' = 0 /\ phase' = "load_cr3" /\ UNCHANGED all_vars
  BY DEF map_buffer, Round, At, Then, buffer_loop
<1>2. mem_map' = mem_map /\ pml4_addr' = pml4_addr /\ pml4_addr # Absent /\ mem_map \in MemMaps
  BY <1>1 DEF map_mem, all_vars, ptm_vars, vars, geometry, TablesInv, Early, SpaceInv, PtmInv, Core,
              TypeOK
<1>3. /\ BufferArea \subseteq VirtPages \ HeapArea /\ BufferBase \in Nat /\ BufferPages \in Nat
      /\ \A f \in BufferArea : f \in Nat /\ f < BufferBase + (BufferPages + 1)
  BY <1>2, Areas DEF BufferArea
<1>4. \A f \in BufferArea : f < BufferBase + i => Kept(f)
  BY <1>1 DEF TablesInv, Promises
<1>5. CASE i < BufferPages + 1
  <2>1. BufferBase + i \in BufferArea
    BY <1>3, <1>5 DEF BufferArea
  <2>2. Calls
    BY <1>1, <1>3, <1>5, <2>1 DEF Calls
  <2>3. walk' = {[virt |-> BufferBase + i, phys |-> BufferBase + i, level |-> 1,
                  table |-> pml4_addr]}
    BY <1>1, <1>5 DEF map_mem
  <2>4. Straight'
    BY <2>3 DEF Straight
  <2>5. PagesStayKept => \A f \in BufferArea : f < BufferBase + (i + 1) => Kept(f)'
    <3> SUFFICES ASSUME PagesStayKept, NEW f \in BufferArea, f < BufferBase + (i + 1)
                 PROVE  Kept(f)'
      OBVIOUS
    <3>1. CASE f < BufferBase + i
      BY <1>3, <1>4, <3>1 DEF PagesStayKept
    <3>2. CASE f = BufferBase + i
      BY <2>3, <3>2 DEF Kept
    <3> QED
      BY <1>3, <3>1, <3>2
  <2>6. PagesStayKept => Promises'
    BY <1>1, <1>2, <1>5, <2>5, MemoryStaysKept DEF Promises, Early
  <2> QED
    BY <1>1, <1>2, <1>5, <2>2, <2>4, <2>6, StatementKeeps DEF Early
<1>6. CASE ~(i < BufferPages + 1)
  <2>1. Calls /\ walk' = {}
    BY <1>1, <1>6 DEF Calls, all_vars, ptm_vars
  <2>2. \A f \in BufferArea : f < BufferBase + i
    BY <1>3, <1>6
  <2>3. PagesStayKept => \A f \in BufferArea : Kept(f)'
    BY <1>3, <1>4, <2>2 DEF PagesStayKept
  <2>4. PagesStayKept => Promises'
    BY <1>1, <1>2, <1>6, <2>3, MemoryStaysKept DEF Promises, Early
  <2>5. Straight'
    BY <2>1 DEF Straight
  <2> QED
    BY <1>1, <1>2, <1>6, <2>1, <2>4, <2>5, StatementKeeps DEF Early
<1> QED
  BY <1>5, <1>6

LEMMA LoadCr3Keeps ==
  ASSUME PagesDiffer, BootFits, TablesInv, mem_map # << >>, i \in Nat, load_cr3
  PROVE  FrameInv'
<1>1. /\ walk = {} /\ ~starved /\ phase = "load_cr3" /\ phase' = "clear_buffer"
      /\ mem_map' = mem_map /\ i' = i /\ pml4_addr' = pml4_addr /\ walk' = walk /\ Calls
  BY DEF load_cr3, At, Then, all_vars, vars, geometry, ptm_vars, Calls
<1>2. /\ BufferArea \subseteq VirtPages \ HeapArea /\ \A f \in BufferArea : Kept(f)
  BY <1>1, Areas DEF TablesInv, Promises, SpaceInv, PtmInv, Core, TypeOK
<1>3. PagesStayKept => \A f \in BufferArea : Kept(f)'
  BY <1>2 DEF PagesStayKept
<1>4. PagesStayKept => Promises'
  BY <1>1, <1>3, MemoryStaysKept DEF Promises, Early
<1>5. Straight' /\ pml4_addr # Absent
  BY <1>1 DEF Straight, TablesInv, Early
<1> QED
  BY <1>1, <1>4, <1>5, StatementKeeps DEF Early

LEMMA ClearBufferKeeps ==
  ASSUME PagesDiffer, BootFits, FrameInv, TablesInv, mem_map # << >>, clear_buffer
  PROVE  FrameInv'
<1>1. walk = {} /\ ~starved /\ phase = "clear_buffer" /\ status = "kernel" /\ UNCHANGED loader_vars
  BY DEF clear_buffer, At
<1>2. \/ phase' = "init_heap" /\ UNCHANGED <<all_vars, i>>
      \/ UNCHANGED kernel_vars
  BY DEF clear_buffer, Then, Ends
<1>3. CASE phase' = "init_heap" /\ UNCHANGED <<all_vars, i>>
  BY <1>1, <1>3, PlainKeeps DEF Plain, Early, FrameInv, Calls, all_vars, vars, geometry, ptm_vars
<1> QED
  BY <1>1, <1>2, <1>3, EndKeeps

LEMMA InitHeapKeeps ==
  ASSUME PagesDiffer, BootFits, TablesInv, mem_map # << >>, i \in Nat, init_heap
  PROVE  FrameInv'
<1>1. /\ walk = {} /\ ~starved /\ phase = "init_heap"
      /\ IF i < HeapPages THEN map_mem_requested(HeapBase + i) /\ i' = i + 1 /\ phase' = "init_heap"
                          ELSE i' = 0 /\ phase' = "make_idt" /\ UNCHANGED all_vars
  BY DEF init_heap, Round, At, Then
<1>2. CASE i < HeapPages
  <2>1. HeapBase + i \in HeapArea /\ HeapArea \subseteq VirtPages
    BY <1>2 DEF HeapArea, BootFits
  <2>2. Calls /\ mem_map' = mem_map /\ pml4_addr' = pml4_addr
    BY <1>1, <1>2, <2>1 DEF Calls, map_mem_requested, request_page, geometry
  <2>3. \A w \in walk' : w.virt \in HeapArea
    BY <1>1, <1>2, <2>1 DEF map_mem_requested
  <2> QED
    BY <1>1, <1>2, <2>2, <2>3, PlainKeeps DEF Plain, Early
<1>3. CASE ~(i < HeapPages)
  <2>1. Calls /\ mem_map' = mem_map /\ pml4_addr' = pml4_addr /\ walk' = {}
    BY <1>1, <1>3 DEF Calls, all_vars, vars, geometry, ptm_vars
  <2> QED
    BY <1>1, <1>3, <2>1, PlainKeeps DEF Plain, Early
<1> QED
  BY <1>2, <1>3

LEMMA MakeIdtKeeps ==
  ASSUME PagesDiffer, BootFits, TablesInv, mem_map # << >>, i \in Nat, make_idt
  PROVE  FrameInv'
<1>1. /\ walk = {} /\ ~starved /\ phase = "make_idt" /\ phase' = "find_mcfg"
      /\ request_page /\ UNCHANGED ptm_vars /\ i' = i
  BY DEF make_idt, At
<1>2. mem_map' = mem_map /\ pml4_addr # Absent /\ pml4_addr' = pml4_addr /\ walk' = walk
  BY <1>1 DEF request_page, geometry, ptm_vars, TablesInv, Early
<1>3. Calls
  BY <1>1, <1>2 DEF Calls
<1> QED
  BY <1>1, <1>2, <1>3, PlainKeeps DEF Plain, Early

LEMMA FindMcfgKeeps ==
  ASSUME PagesDiffer, BootFits, FrameInv, TablesInv, mem_map # << >>, find_mcfg
  PROVE  FrameInv'
<1>1. walk = {} /\ ~starved /\ phase = "find_mcfg" /\ status = "kernel" /\ UNCHANGED loader_vars
  BY DEF find_mcfg, At
<1>2. \/ phase' = "enumerate_pci" /\ UNCHANGED <<all_vars, i>>
      \/ UNCHANGED kernel_vars
  BY DEF find_mcfg, Then, Ends
<1>3. CASE phase' = "enumerate_pci" /\ UNCHANGED <<all_vars, i>>
  BY <1>1, <1>3, PlainKeeps DEF Plain, Early, FrameInv, Calls, all_vars, vars, geometry, ptm_vars
<1> QED
  BY <1>1, <1>2, <1>3, EndKeeps

\* The steps of the walk over PCI that map nothing.
LEMMA WalkingKeeps ==
  ASSUME PagesDiffer, BootFits, TablesInv, mem_map # << >>, i \in Nat, walk = {}, ~starved,
         phase \in {"enumerate_pci", "bus", "device", "function", "unmask"} \union Headers,
         phase' \in {"enumerate_pci", "bus", "device", "function", "unmask", "running"},
         UNCHANGED <<all_vars, i>>
  PROVE  FrameInv'
<1>1. phase' \in Plain /\ phase' # "lock_buffer" /\ phase \notin Early \union {"identity"}
  BY DEF Plain, Early, Headers
<1>2. Calls /\ mem_map' = mem_map /\ pml4_addr' = pml4_addr /\ walk' = walk
  BY DEF Calls, all_vars, vars, geometry, ptm_vars
<1> QED
  BY <1>1, <1>2, PlainKeeps

\* A round of one of its three loops: the page is mapped, its header is read next.
LEMMA MappingKeeps ==
  ASSUME PagesDiffer, BootFits, TablesInv, mem_map # << >>, i \in Nat, walk = {}, ~starved,
         phase \in {"bus", "device", "function"}, phase' \in Headers,
         NEW page \in VirtPages \ HeapArea, map_mem(page, page), i' = i,
         phase' = "bus_header" => page = config_page(bus, 0, 0)',
         phase' = "device_header" => page = config_page(bus, device, 0)',
         phase' = "function_header" => page = config_page(bus, device, function)'
  PROVE  FrameInv'
<1>1. page \in Nat
  BY PagingAssumption
<1>2. Calls
  BY <1>1 DEF Calls
<1>3. /\ mem_map' = mem_map /\ pml4_addr' = pml4_addr
      /\ walk' = {[virt |-> page, phys |-> page, level |-> 1, table |-> pml4_addr]}
  BY DEF map_mem, vars, geometry
<1>4. Straight' /\ Kept(page)' /\ pml4_addr # Absent
  BY <1>3 DEF Straight, Kept, TablesInv, Early
<1>5. PagesStayKept => (\A f \in MemoryArea : Kept(f))'
  BY <1>3, MemoryStaysKept DEF Early
<1>6. PagesStayKept => Promises'
  BY <1>4, <1>5 DEF Promises, Headers
<1> QED
  BY <1>2, <1>3, <1>4, <1>6, StatementKeeps DEF Headers, Early

LEMMA EnumerateBusKeeps ==
  ASSUME PagesDiffer, BootFits, PciInv, TablesInv, mem_map # << >>, i \in Nat, enumerate_bus
  PROVE  FrameInv'
<1>1. walk = {} /\ ~starved /\ phase = "bus" /\ ConfigPages
  BY PagesOfConfig DEF enumerate_bus, At
<1>2. CASE more_buses /\ Mapping(config_page(bus, 0, 0), "bus_header")
  <2>1. PICK page \in VirtPages \ HeapArea : page = config_page(bus, 0, 0)
    BY <1>1, <1>2 DEF ConfigPages
  <2>2. /\ phase' = "bus_header" /\ i' = i /\ map_mem(page, page)
        /\ page = config_page(bus, 0, 0)'
    BY <1>2, <2>1 DEF Mapping, Then, enumerate_bus, At, pci_vars, loader_vars, config_page, here
  <2> QED
    BY <1>1, <2>2, MappingKeeps DEF Headers
<1>3. CASE phase' = "enumerate_pci" /\ UNCHANGED <<all_vars, i>>
  BY <1>1, <1>3, WalkingKeeps
<1> QED
  BY <1>2, <1>3 DEF enumerate_bus, Then

LEMMA EnumerateDeviceKeeps ==
  ASSUME PagesDiffer, BootFits, PciInv, TablesInv, mem_map # << >>, i \in Nat, enumerate_device
  PROVE  FrameInv'
<1>1. walk = {} /\ ~starved /\ phase = "device" /\ ConfigPages
  BY PagesOfConfig DEF enumerate_device, At
<1>2. CASE device < DevicesPerBus /\ Mapping(config_page(bus, device, 0), "device_header")
  <2>1. PICK page \in VirtPages \ HeapArea : page = config_page(bus, device, 0)
    BY <1>1, <1>2 DEF ConfigPages
  <2>2. /\ phase' = "device_header" /\ i' = i /\ map_mem(page, page)
        /\ page = config_page(bus, device, 0)'
    BY <1>2, <2>1 DEF Mapping, Then, enumerate_device, At, pci_vars, loader_vars, config_page, here
  <2> QED
    BY <1>1, <2>2, MappingKeeps DEF Headers
<1>3. CASE phase' = "bus" /\ UNCHANGED <<all_vars, i>>
  BY <1>1, <1>3, WalkingKeeps
<1> QED
  BY <1>2, <1>3 DEF enumerate_device, Then

LEMMA EnumerateFunctionKeeps ==
  ASSUME PagesDiffer, BootFits, PciInv, TablesInv, mem_map # << >>, i \in Nat, enumerate_function
  PROVE  FrameInv'
<1>1. walk = {} /\ ~starved /\ phase = "function" /\ ConfigPages
  BY PagesOfConfig DEF enumerate_function, At
<1>2. CASE /\ function < FunctionsPerDevice
           /\ Mapping(config_page(bus, device, function), "function_header")
  <2>1. PICK page \in VirtPages \ HeapArea : page = config_page(bus, device, function)
    BY <1>1, <1>2 DEF ConfigPages
  <2>2. /\ phase' = "function_header" /\ i' = i /\ map_mem(page, page)
        /\ page = config_page(bus, device, function)'
    BY <1>2, <2>1 DEF Mapping, Then, enumerate_function, At, pci_vars, loader_vars, config_page, here
  <2> QED
    BY <1>1, <2>2, MappingKeeps DEF Headers
<1>3. CASE phase' = "device" /\ UNCHANGED <<all_vars, i>>
  BY <1>1, <1>3, WalkingKeeps
<1> QED
  BY <1>2, <1>3 DEF enumerate_function, Then

\* Where a header ends the boot.
LEMMA StuckKeeps ==
  ASSUME PagesDiffer, BootFits, TablesInv, mem_map # << >>, i \in Nat, walk = {}, ~starved,
         phase \in Headers, phase' = phase, status' # "kernel", UNCHANGED <<all_vars, i>>
  PROVE  FrameInv'
<1>1. Calls /\ mem_map' = mem_map /\ pml4_addr' = pml4_addr /\ walk' = walk
  BY DEF Calls, all_vars, vars, geometry, ptm_vars
<1>2. phase \notin Early
                    \union {"off", "identity", "lock_buffer", "map_buffer", "load_cr3", "clear_buffer"}
  BY DEF Headers, Early
<1>3. PagesStayKept => Promises'
  BY <1>1, <1>2, MemoryStaysKept DEF Promises
<1>4. Straight' /\ pml4_addr # Absent
  BY <1>1, <1>2 DEF Straight, TablesInv
<1> QED
  BY <1>1, <1>2, <1>3, <1>4, StatementKeeps

LEMMA HeaderKeeps ==
  ASSUME PagesDiffer, BootFits, TablesInv, mem_map # << >>, i \in Nat,
         bus_header \/ device_header \/ function_header
  PROVE  FrameInv'
<1>1. /\ walk = {} /\ ~starved /\ phase \in Headers /\ UNCHANGED <<all_vars, i>>
      /\ phase' \in {"bus", "device", "function"} \/ (phase' = phase /\ status' # "kernel")
  <2>1. CASE bus_header
    BY <2>1 DEF bus_header, Reading, At, Then, Headers
  <2>2. CASE device_header
    BY <2>2 DEF device_header, Reading, At, Then, Headers
  <2>3. CASE function_header
    BY <2>3 DEF function_header, Reading, At, Then, Headers
  <2> QED
    BY <2>1, <2>2, <2>3
<1>2. CASE phase' \in {"bus", "device", "function"}
  BY <1>1, <1>2, WalkingKeeps
<1>3. CASE phase' = phase /\ status' # "kernel"
  BY <1>1, <1>3, StuckKeeps
<1> QED
  BY <1>1, <1>2, <1>3

LEMMA EnumerationKeeps ==
  ASSUME PagesDiffer, BootFits, TablesInv, mem_map # << >>, i \in Nat,
         enumerate_pci \/ unmask_and_sti
  PROVE  FrameInv'
<1>1. /\ walk = {} /\ ~starved /\ phase \in {"enumerate_pci", "unmask"} /\ UNCHANGED <<all_vars, i>>
      /\ phase' \in {"bus", "unmask", "running"}
  BY DEF enumerate_pci, unmask_and_sti, At, Then
<1> QED
  BY <1>1, WalkingKeeps

\* A step of a call.
LEMMA WalkKeepsFrames ==
  ASSUME PagesDiffer, BootFits, PciInv, TablesInv, mem_map # << >>, phase # "off", i \in Nat,
         status = "kernel", map_step, UNCHANGED <<loader_vars, status, boot_vars>>
  PROVE  FrameInv'
<1>1. /\ i' = i /\ phase' = phase /\ bus' = bus /\ device' = device /\ function' = function
      /\ entry_no' = entry_no /\ machine' = machine /\ status' = status
  BY DEF boot_vars, pci_vars, loader_vars
<1>2. /\ mem_map' = mem_map /\ pml4_addr' = pml4_addr /\ Calls
      /\ starved => starved'
  <2>1. PICK w \in walk : map_descend(w) \/ map_new_table(w) \/ map_leaf(w)
    BY DEF map_step
  <2>2. mem_map' = mem_map
    BY <2>1 DEF map_descend, map_new_table, map_leaf, request_page, vars, geometry
  <2>3. pml4_addr' = pml4_addr
    BY <2>1 DEF map_descend, map_new_table, map_leaf
  <2>4. starved => starved'
    BY <2>1, Zenon DEF map_descend, map_new_table, map_leaf
  <2> QED
    BY <2>2, <2>3, <2>4 DEF Calls
<1>3. SpaceInv' /\ SizeInv' /\ starved' \in BOOLEAN /\ starved \in BOOLEAN
  BY <1>2, CallKeepsSpace, CallKeepsSize DEF TablesInv, SpaceInv, PtmInv
<1>4. ASSUME ~starved' PROVE Straight' /\ Promises'
  <2>1. ~starved /\ Straight /\ Promises
    BY <1>2, <1>4 DEF TablesInv
  <2>2. Straight' /\ PagesStayKept
    BY <1>4, <2>1, MapStepKeeps DEF TablesInv
  <2>3. /\ MemoryArea' = MemoryArea
        /\ config_page(bus, 0, 0)' = config_page(bus, 0, 0)
        /\ config_page(bus, device, 0)' = config_page(bus, device, 0)
        /\ config_page(bus, device, function)' = config_page(bus, device, function)
    BY <1>1, <1>2 DEF MemoryArea, mem_size, config_page, here
  <2>4. ConfigPages /\ mem_map \in MemMaps
    BY PagesOfConfig DEF TablesInv, SpaceInv, PtmInv, Core, TypeOK
  <2>5. MemoryArea \subseteq VirtPages \ HeapArea /\ BufferArea \subseteq VirtPages \ HeapArea
    BY <2>4, Areas
  <2>6. /\ phase = "identity" => \A f \in MemoryArea : f < i => Kept(f)'
        /\ phase \notin Early \union {"identity"} => \A f \in MemoryArea : Kept(f)'
        /\ phase = "map_buffer" => \A f \in BufferArea : f < BufferBase + i => Kept(f)'
        /\ phase \in {"load_cr3", "clear_buffer"} => \A f \in BufferArea : Kept(f)'
    BY <2>1, <2>2, <2>5 DEF Promises, PagesStayKept
  <2>7. /\ phase = "bus_header" => \A f : f = config_page(bus, 0, 0) => Kept(f)'
        /\ phase = "device_header" => \A f : f = config_page(bus, device, 0) => Kept(f)'
        /\ phase = "function_header" =>
             \A f : f = config_page(bus, device, function) => Kept(f)'
    BY <2>1, <2>2, <2>4 DEF Promises, PagesStayKept, ConfigPages
  <2> QED
    BY <1>1, <2>2, <2>3, <2>6, <2>7 DEF Promises
<1>5. TablesInv'
  BY <1>1, <1>2, <1>3, <1>4 DEF TablesInv
<1> QED
  BY <1>1, <1>2, <1>5 DEF FrameInv

\* The map is there: the allocator and the tables are as they start.
LEMMA StartSpace == PtmInit => SpaceInv /\ SizeInv
<1>1. PtmInit => SpaceInv
  BY PtmInvInit, SpaceStart DEF SpaceInv, PtmInit
<1>2. PtmInit => SizeInv
  BY DEF PtmInit, Init, SizeInv
<1> QED
  BY <1>1, <1>2

LEMMA StartKeeps ==
  ASSUME FrameInv, KnownMap', start
  PROVE  FrameInv'
<1>1. Booting
  BY DEF FrameInv, start
<1>2. /\ phase' = "read_map" /\ i' = i
      /\ UNCHANGED <<initialized, size, buffer, stray, bits, page_bitmap_index, free_memory,
                     reserved_memory, used_memory, returned, owned, pinned,
                     pml4_addr, tables, walk, starved>>
  BY DEF start, counters, ptm_vars
<1>3. Booting' /\ i \in Nat
  BY <1>1, <1>2 DEF Booting
<1>4. CASE mem_map' = << >>
  BY <1>2, <1>3, <1>4 DEF FrameInv
<1>5. CASE mem_map' # << >>
  <2>1. PtmInit'
    BY <1>3, <1>5 DEF Booting, KnownMap, PtmInit, Init
  <2>2. SpaceInv' /\ SizeInv'
    BY <2>1, StartSpace, PTL
  <2>3. Straight' /\ Promises'
    BY <1>2, <1>3 DEF Booting, Straight, Promises, Early
  <2>4. TablesInv'
    BY <1>2, <1>3, <2>2, <2>3 DEF Booting, TablesInv, Early
  <2> QED
    BY <1>2, <1>3, <1>5, <2>4 DEF FrameInv
<1> QED
  BY <1>4, <1>5

LEMMA FrameStep ==
  ASSUME PagesDiffer, BootFits, FrameInv, PciInv, MapInv, KnownMap', [BootNext]_everything
  PROVE  FrameInv'
<1>1. CASE UNCHANGED everything
  BY <1>1, EndKeeps DEF everything
<1>2. CASE loader
  <2>1. phase = "off"
    BY <1>2, LoaderRuns DEF MapInv
  <2>2. Booting
    BY <2>1 DEF FrameInv
  <2>3. /\ UNCHANGED <<mem_map, initialized, size, buffer, bits, page_bitmap_index, free_memory,
                       reserved_memory, used_memory, returned, owned, pinned, stray>>
        /\ UNCHANGED <<pml4_addr, tables, walk, starved, phase, i>>
    BY <1>2 DEF loader, kernel_vars, all_vars, vars, geometry, counters, ptm_vars, boot_vars
  <2> QED
    BY <2>1, <2>2, <2>3 DEF FrameInv, Booting
<1>3. CASE kernel
  <2>1. CASE start
    BY <2>1, StartKeeps
  <2>2. CASE read_map
    BY <2>2, ReadMapKeeps
  <2>3. CASE starve
    <3>1. UNCHANGED loader_vars /\ UNCHANGED kernel_vars /\ status = "kernel"
      BY <2>3 DEF starve, Ends
    <3> QED
      BY <3>1, EndKeeps
  <2>4. CASE status = "kernel" /\ map_step /\ UNCHANGED <<loader_vars, status, boot_vars>>
    <3>1. walk # {}
      BY <2>4 DEF map_step
    <3>2. TablesInv /\ mem_map # << >> /\ phase # "off" /\ i \in Nat
      BY <3>1 DEF FrameInv, Booting
    <3> QED
      BY <2>4, <3>2, WalkKeepsFrames
  <2>5. ASSUME phase \notin {"off", "read_map"}
        PROVE  TablesInv /\ mem_map # << >> /\ i \in Nat
    BY <2>5 DEF FrameInv
  <2>6. CASE lock_kernel
    BY <2>5, <2>6, LockKernelKeeps DEF lock_kernel, At
  <2>7. CASE new_tables
    BY <2>5, <2>7, NewTablesKeeps DEF new_tables, At
  <2>8. CASE identity
    BY <2>5, <2>8, IdentityKeeps DEF identity, Round, At
  <2>9. CASE lock_buffer
    BY <2>5, <2>9, LockBufferKeeps DEF lock_buffer, At
  <2>10. CASE map_buffer
    BY <2>5, <2>10, MapBufferKeeps DEF map_buffer, Round, At
  <2>11. CASE load_cr3
    BY <2>5, <2>11, LoadCr3Keeps DEF load_cr3, At
  <2>12. CASE clear_buffer
    BY <2>5, <2>12, ClearBufferKeeps DEF clear_buffer, At
  <2>13. CASE init_heap
    BY <2>5, <2>13, InitHeapKeeps DEF init_heap, Round, At
  <2>14. CASE make_idt
    BY <2>5, <2>14, MakeIdtKeeps DEF make_idt, At
  <2>15. CASE find_mcfg
    BY <2>5, <2>15, FindMcfgKeeps DEF find_mcfg, At
  <2>16. CASE enumerate_pci \/ unmask_and_sti
    BY <2>5, <2>16, EnumerationKeeps DEF enumerate_pci, unmask_and_sti, At
  <2>17. CASE enumerate_bus
    BY <2>5, <2>17, EnumerateBusKeeps DEF enumerate_bus, At
  <2>18. CASE enumerate_device
    BY <2>5, <2>18, EnumerateDeviceKeeps DEF enumerate_device, At
  <2>19. CASE enumerate_function
    BY <2>5, <2>19, EnumerateFunctionKeeps DEF enumerate_function, At
  <2>20. CASE bus_header \/ device_header \/ function_header
    <3>1. phase \in Headers
      BY <2>20 DEF bus_header, device_header, function_header, Reading, At, Headers
    <3> QED
      BY <2>5, <2>20, <3>1, HeaderKeeps DEF Headers
  <2> QED
    BY <1>3, <2>1, <2>2, <2>3, <2>4, <2>6, <2>7, <2>8, <2>9, <2>10, <2>11, <2>12, <2>13, <2>14, <2>15,
       <2>16, <2>17, <2>18, <2>19, <2>20 DEF kernel
<1> QED
  BY <1>1, <1>2, <1>3 DEF BootNext

-------------------------------------------------------------------------------
\* The frames the firmware describes stay the machine's.
TypesInv == machine \in Machines /\ DOMAIN types = DOMAIN machine.types

LEMMA TypesStep == TypesInv /\ [BootNext]_everything => TypesInv'
<1> SUFFICES ASSUME TypesInv, [BootNext]_everything PROVE TypesInv'
  OBVIOUS
<1>0. PoolServed \/ PoolRefused => DOMAIN types' = DOMAIN types
  BY DEF PoolServed, PoolRefused
<1>1. machine' = machine /\ DOMAIN types' = DOMAIN types
  <2>1. CASE UNCHANGED loader_vars
    BY <2>1 DEF loader_vars
  <2>2. CASE loader
    <3>1. CASE firmware_event
      BY <3>1 DEF firmware_event
    <3>2. CASE open_kernel \/ segments_done \/ init_gop \/ get_map_size \/ get_map \/ find_rsdp
               \/ exit_boot_services
      BY <3>2 DEF open_kernel, segments_done, init_gop, get_map_size, get_map, find_rsdp,
                  exit_boot_services, Goto
    <3>3. CASE read_header \/ read_program_headers \/ load_font \/ check_font \/ final_font
               \/ allocate_map
      BY <1>0, <3>3 DEF read_header, read_program_headers, load_font, check_font, final_font,
                        allocate_map, Goto
    <3>4. CASE load_segment
      BY <3>4 DEF load_segment, Goto
    <3> QED
      BY <2>2, <3>1, <3>2, <3>3, <3>4 DEF loader, efi_main
  <2>3. CASE kernel
    <3>1. UNCHANGED loader_vars
      BY <2>3 DEF kernel, start, read_map, lock_kernel, new_tables, identity, lock_buffer, map_buffer,
         load_cr3, clear_buffer, init_heap, make_idt, find_mcfg, enumerate_pci, enumerate_bus,
         enumerate_device, enumerate_function, bus_header, device_header, function_header,
         unmask_and_sti, starve, Round, Reading, At
    <3> QED
      BY <2>1, <3>1
  <2> QED
    BY <2>1, <2>2, <2>3 DEF BootNext, everything
<1> QED
  BY <1>1 DEF TypesInv

\* With no call under way what is kept is mapped, and if the map leaves nothing out, all
\* that the firmware describes, and all that the allocator may give out.
LEMMA AllMapped ==
  ASSUME BootFits, TypesInv, TablesInv, walk = {}, ~starved,
         phase \notin Early \union {"identity"},
         ~ \E f \in DOMAIN types : f >= mem_size
  PROVE  /\ \A f \in DOMAIN types : translate(f) = f
         /\ \A f \in 0 .. size - 1 : translate(f) = f
         /\ \A f \in DOMAIN tables : translate(f) = f
<1>1. \A f \in MemoryArea : translate(f) = f
  BY DEF TablesInv, Promises, Kept
<1>2. mem_map \in MemMaps /\ Core /\ TypedTables
  BY DEF TablesInv, SpaceInv, PtmInv, Core, TypeOK, TreeInv
<1>3. mem_size \in Nat
  BY <1>2, Areas
<1>4. DOMAIN types \subseteq Nat /\ InfoFrame \in DOMAIN types
  BY MachinesAssumption DEF TypesInv, BootFits
<1>5. DOMAIN types \subseteq MemoryArea /\ mem_size > 0
  BY <1>3, <1>4 DEF MemoryArea
<1>6. size <= mem_size /\ size \in Nat
  <2>1. CASE initialized
    <3>1. size = bitmap_size(mem_size)
      BY <2>1 DEF TablesInv, SizeInv
    <3>2. \A n, b \in Nat : n > 0 /\ b >= 2 => n \div b + 1 <= n /\ n \div b \in Nat
      <4> SUFFICES ASSUME NEW n \in Nat, NEW b \in Nat, n > 0, b >= 2
                   PROVE  n \div b + 1 <= n /\ n \div b \in Nat
        OBVIOUS
      <4>1. n \div b \in Int /\ n = b * (n \div b) + (n % b) /\ n % b \in 0 .. b - 1
        OBVIOUS
      <4>2. PICK q \in Int : q = n \div b
        BY <4>1
      <4>3. b * q <= n /\ n < b * q + b
        BY <4>1, <4>2
      <4>4. q >= 0
        BY <4>3, SMT
      <4>5. 2 * q <= b * q
        BY <4>4, SMT
      <4> QED
        BY <4>2, <4>3, <4>4, <4>5, SMT
    <3> QED
      BY <1>3, <1>5, <3>1, <3>2, ConstantsAssumption DEF bitmap_size, BootFits
  <2>2. CASE ~initialized
    BY <1>2, <1>3, <2>2 DEF Core, BeforeBoot
  <2> QED
    BY <2>1, <2>2
<1>7. 0 .. size - 1 \subseteq MemoryArea
  BY <1>3, <1>6 DEF MemoryArea
<1>8. DOMAIN tables \subseteq 0 .. size - 1
  BY <1>2, Zenon DEF TypedTables, TablesInv, SizeInv
<1> QED
  BY <1>1, <1>5, <1>7, <1>8

\* The steps at which memory is touched.
LEMMA FaultsAt ==
  ASSUME kernel, status' = "fault"
  PROVE  clear_buffer \/ make_idt \/ find_mcfg \/ bus_header \/ device_header \/ function_header
<1>1. start \/ read_map \/ lock_kernel \/ new_tables \/ identity => status' # "fault"
  BY DEF start, read_map, lock_kernel, new_tables, identity, Round, At, Then, Ends
<1>2. lock_buffer \/ map_buffer \/ load_cr3 \/ init_heap => status' # "fault"
  BY DEF lock_buffer, map_buffer, load_cr3, init_heap, Round, At, Then, Ends
<1>3. enumerate_pci \/ enumerate_bus \/ enumerate_device \/ enumerate_function => status' # "fault"
  BY DEF enumerate_pci, enumerate_bus, enumerate_device, enumerate_function, Mapping, At, Then
<1>4. unmask_and_sti \/ starve => status' # "fault"
  BY DEF unmask_and_sti, starve, Ends
<1>5. status = "kernel" /\ map_step /\ UNCHANGED <<loader_vars, status, boot_vars>> => status' # "fault"
  OBVIOUS
<1> QED
  BY <1>1, <1>2, <1>3, <1>4, <1>5 DEF kernel

LEMMA FaultsStep ==
  ASSUME BootFits, TypesInv, FrameInv, FaultsOnlyWithHoles, [BootNext]_everything
  PROVE  FaultsOnlyWithHoles'
<1> SUFFICES ASSUME status' = "fault", ~ \E f \in DOMAIN types' : f >= mem_size'
             PROVE  FALSE
  BY DEF FaultsOnlyWithHoles
<1>1. CASE UNCHANGED everything
  <2>1. status = "fault" /\ types' = types /\ mem_map' = mem_map
    BY <1>1 DEF everything, loader_vars, kernel_vars, all_vars, vars, geometry
  <2> QED
    BY <2>1 DEF FaultsOnlyWithHoles, mem_size
<1>2. CASE loader
  BY <1>2, LoaderRuns
<1>3. CASE kernel
  <2>1. clear_buffer \/ make_idt \/ find_mcfg \/ bus_header \/ device_header \/ function_header
    BY <1>3, FaultsAt
  <2>2. /\ status = "kernel" /\ walk = {} /\ ~starved
        /\ phase \in {"clear_buffer", "make_idt", "find_mcfg"} \union Headers
        /\ types' = types /\ mem_map' = mem_map
    <3>1. CASE clear_buffer \/ find_mcfg
      BY <3>1 DEF clear_buffer, find_mcfg, At, Then, Ends, loader_vars, kernel_vars, all_vars, vars,
         geometry
    <3>2. CASE make_idt
      BY <3>2 DEF make_idt, At, request_page, loader_vars, geometry
    <3>3. CASE bus_header \/ device_header \/ function_header
      BY <3>3 DEF bus_header, device_header, function_header, Reading, At, Then, loader_vars, Headers,
         all_vars, vars, geometry
    <3> QED
      BY <2>1, <3>1, <3>2, <3>3
  <2>3. TablesInv /\ phase \notin Early \union {"identity"}
    BY <2>2 DEF FrameInv, Early, Headers
  <2>4. ~ \E f \in DOMAIN types : f >= mem_size
    BY <2>2 DEF mem_size
  <2>5. /\ \A f \in DOMAIN types : translate(f) = f
        /\ \A f \in 0 .. size - 1 : translate(f) = f
        /\ \A f \in DOMAIN tables : translate(f) = f
    BY <2>2, <2>3, <2>4, AllMapped
  <2>6. \A f \in Image \union {InfoFrame} : f \in DOMAIN types
    BY DEF TypesInv, BootFits
  <2>7. Promises /\ Core
    BY <2>2, <2>3 DEF TablesInv, SpaceInv, PtmInv
  <2>8. CASE clear_buffer
    <3>1. phase = "clear_buffer" /\ \A f \in BufferArea : translate(f) = f
      BY <2>2, <2>7, <2>8 DEF clear_buffer, At, Promises, Kept
    <3>2. \A f \in BufferFrames : f \in BufferArea
      BY DEF BufferFrames, BufferArea, BootFits
    <3>3. Touches(Image \union {InfoFrame} \union BufferFrames \union DOMAIN tables)
      BY <2>5, <2>6, <3>1, <3>2 DEF Touches
    <3> QED
      BY <2>2, <2>8, <3>3 DEF clear_buffer, Then
  <2>9. CASE make_idt
    <3>1. returned' # NULL /\ ~Touches({returned'}) /\ request_page
      BY <2>2, <2>9 DEF make_idt
    <3>2. Candidates # {} /\ returned' = Min(Candidates)
      BY <3>1 DEF request_page
    <3>3. Min(Candidates) \in 0 .. size - 1
      BY <2>7, <3>2, FoundFrame
    <3> QED
      BY <2>5, <3>1, <3>2, <3>3 DEF Touches
  <2>10. CASE find_mcfg
    <3>1. Touches(Frames("acpi") \union {InfoFrame})
      BY <2>5, <2>6 DEF Touches, Frames
    <3> QED
      BY <2>2, <2>10, <3>1 DEF find_mcfg, Then, Ends
  <2>11. CASE bus_header
    <3>1. phase = "bus_header" /\ translate(config_page(bus, 0, 0)) = config_page(bus, 0, 0)
      BY <2>2, <2>7, <2>11 DEF bus_header, Reading, At, Promises, Kept
    <3>2. Touches({config_page(bus, 0, 0)})
      BY <3>1 DEF Touches
    <3> QED
      BY <2>2, <2>11, <3>2 DEF bus_header, Reading, Then
  <2>12. CASE device_header
    <3>1. phase = "device_header" /\ translate(config_page(bus, device, 0)) = config_page(bus, device, 0)
      BY <2>2, <2>7, <2>12 DEF device_header, Reading, At, Promises, Kept
    <3>2. Touches({config_page(bus, device, 0)})
      BY <3>1 DEF Touches
    <3> QED
      BY <2>2, <2>12, <3>2 DEF device_header, Reading, Then
  <2>13. CASE function_header
    <3>1. /\ phase = "function_header"
          /\ translate(config_page(bus, device, function)) = config_page(bus, device, function)
      BY <2>2, <2>7, <2>13 DEF function_header, At, Promises, Kept
    <3>2. Touches({config_page(bus, device, function)})
      BY <3>1 DEF Touches
    <3> QED
      BY <2>2, <2>13, <3>2 DEF function_header, Reading, Then
  <2> QED
    BY <2>1, <2>8, <2>9, <2>10, <2>11, <2>12, <2>13
<1> QED
  BY <1>1, <1>2, <1>3 DEF BootNext

LEMMA FrameInit == BootInit => FrameInv /\ TypesInv /\ FaultsOnlyWithHoles
<1> SUFFICES ASSUME BootInit PROVE FrameInv /\ TypesInv /\ FaultsOnlyWithHoles
  OBVIOUS
<1>1. machine \in Machines /\ types = machine.types /\ status = "loading"
  BY DEF BootInit, LoaderInit
<1> QED
  BY <1>1 DEF BootInit, FrameInv, Booting, TypesInv, FaultsOnlyWithHoles

\* As long as the firmware's memory ends where the sum of its map's sizes says, nothing the
\* kernel touches after it loads cr3 is unmapped: its image, the loader's stack, the
\* framebuffer, its tables, the IDT, ACPI's tables and every header of PCI, for machines of
\* any size, and whatever frames the requests return (kernel_util.cpp:22-66, pci.cpp:5-77).
THEOREM NothingTouchedIsUnmapped ==
  ASSUME PagesDiffer, BootFits
  PROVE  BootSpec /\ []KnownMap => []FaultsOnlyWithHoles
<1> DEFINE Inv == FrameInv /\ TypesInv /\ FaultsOnlyWithHoles /\ PciInv /\ MapInv
<1>1. BootInit => Inv
  BY FrameInit, WalkInit, MapInit
<1>2. Inv /\ KnownMap' /\ [BootNext]_everything => Inv'
  <2> SUFFICES ASSUME Inv, KnownMap', [BootNext]_everything PROVE Inv'
    OBVIOUS
  <2>1. FrameInv' /\ TypesInv' /\ FaultsOnlyWithHoles'
    BY FrameStep, TypesStep, FaultsStep
  <2>2. PciInv' /\ MapInv'
    BY WalkNext, MapStep
  <2> QED
    BY <2>1, <2>2
<1>3. Inv => FaultsOnlyWithHoles
  OBVIOUS
<1> QED
  BY <1>1, <1>2, <1>3, PTL DEF BootSpec

-------------------------------------------------------------------------------
(***************************************************************************)
(* One use per frame.  What the kernel's parts have, the allocator gave    *)
(* out, each time a frame that nobody had; what it gives out, the firmware *)
(* has called conventional; and the loader's frames are not that any more. *)
(***************************************************************************)
HeapFrames == Range(heap) \ {NULL}
IdtFrames == {idt} \ {Absent, NULL}

\* The frames of the heap and of the IDT are granted, and are not tables.
Granted ==
  /\ HeapFrames \subseteq owned \ DOMAIN tables
  /\ IdtFrames \subseteq owned \ (DOMAIN tables \union HeapFrames)

UsesInv ==
  /\ heap \in Seq(Nat)
  /\ IF mem_map = << >> \/ phase = "off" THEN heap = << >> /\ idt = Absent
     ELSE /\ ClearFramesAreUsable
          /\ initialized => buffer = largest_free_mem_seg(mem_map)
          /\ ~starved => Granted

\* What the kernel asks of the allocator, in one of its steps.
Asks ==
  \/ read_efi_memory_map
  \/ request_page
  \/ \E addr, count : lock_pages(addr, count)
  \/ UNCHANGED vars

LEMMA AskedSorts ==
  ASSUME IntsSuffice, Sorted, Asks, initialized => buffer = largest_free_mem_seg(mem_map)
  PROVE  /\ ClearFramesAreUsable' /\ owned \subseteq owned' /\ mem_map' = mem_map
         /\ initialized' => buffer' = largest_free_mem_seg(mem_map)
<1>1. CASE read_efi_memory_map
  BY <1>1, SortedRead DEF read_efi_memory_map
<1>2. CASE request_page
  <2>1. [Next]_vars
    BY <1>2 DEF Next
  <2> QED
    BY <1>2, <2>1, SortedNext, FrameRequested DEF Sorted, request_page, geometry
<1>3. CASE \E addr, count : lock_pages(addr, count)
  <2>1. bits \subseteq bits' /\ owned' = owned /\ UNCHANGED geometry
    BY <1>3 DEF lock_pages
  <2>2. Usable' = Usable /\ mem_size' = mem_size
    BY <2>1 DEF Usable, ConventionalFrames, BitmapFrames, mem_size, geometry
  <2> QED
    BY <2>1, <2>2 DEF Sorted, ClearFramesAreUsable, geometry
<1>4. CASE UNCHANGED vars
  <2>1. [Next]_vars
    BY <1>4
  <2> QED
    BY <1>4, <2>1, SortedNext DEF Sorted, vars, geometry
<1> QED
  BY <1>1, <1>2, <1>3, <1>4 DEF Asks

\* A frame that is returned is one nobody had.
LEMMA FreshFrame ==
  ASSUME Core, request_page
  PROVE  /\ owned \subseteq owned'
         /\ returned' \in Nat
         /\ returned' = NULL \/ (returned' \notin owned /\ returned' \in owned')
<1>1. CASE Candidates = {}
  BY <1>1, FrameRequested DEF request_page
<1>2. CASE Candidates # {}
  <2>1. Min(Candidates) \notin bits
    BY <1>2, FoundFrame
  <2>2. returned' \notin owned /\ returned' \in owned'
    BY <1>2, <2>1 DEF request_page, Core, HeldFramesAreMarked
  <2> QED
    BY <2>2, FrameRequested
<1> QED
  BY <1>1, <1>2

LEMMA UsesKept ==
  ASSUME IntsSuffice, UsesInv, TablesInv, mem_map # << >>, phase # "off", Asks,
         phase' # "off", heap' \in Seq(Nat), ~starved' => Granted'
  PROVE  UsesInv'
<1>1. Sorted /\ (initialized => buffer = largest_free_mem_seg(mem_map))
  BY DEF UsesInv, Sorted, TablesInv, SpaceInv, PtmInv
<1>2. /\ ClearFramesAreUsable' /\ mem_map' = mem_map
      /\ initialized' => buffer' = largest_free_mem_seg(mem_map)
  BY <1>1, AskedSorts
<1> QED
  BY <1>2 DEF UsesInv

\* A step that gives no frame to anyone.
LEMMA UsesSame ==
  ASSUME IntsSuffice, UsesInv, TablesInv, mem_map # << >>, phase # "off", phase' # "off", Asks,
         heap' = heap, idt' = idt, DOMAIN tables' = DOMAIN tables, starved => starved'
  PROVE  UsesInv'
<1>1. Sorted /\ (initialized => buffer = largest_free_mem_seg(mem_map))
  BY DEF UsesInv, Sorted, TablesInv, SpaceInv, PtmInv
<1>2. owned \subseteq owned'
  BY <1>1, AskedSorts
<1>3. ~starved' => Granted'
  BY <1>2 DEF UsesInv, Granted, HeapFrames, IdtFrames
<1> QED
  BY <1>3, UsesKept DEF UsesInv

\* A step that gives a frame to the tables.
LEMMA UsesTable ==
  ASSUME IntsSuffice, UsesInv, TablesInv, mem_map # << >>, phase # "off", phase' # "off",
         request_page, heap' = heap, idt' = idt,
         DOMAIN tables' = DOMAIN tables \union {returned'}, starved' = (starved \/ owned' = owned)
  PROVE  UsesInv'
<1>1. Core
  BY DEF TablesInv, SpaceInv, PtmInv
<1>2. owned \subseteq owned' /\ (owned' # owned => returned' \notin owned)
  BY <1>1, FrameRequested
<1>3. ~starved' => Granted'
  <2> SUFFICES ASSUME ~starved' PROVE Granted'
    OBVIOUS
  <2>1. ~starved /\ owned' # owned
    OBVIOUS
  <2>2. Granted /\ returned' \notin owned
    BY <1>2, <2>1 DEF UsesInv
  <2>3. HeapFrames' = HeapFrames /\ IdtFrames' = IdtFrames
    BY DEF HeapFrames, IdtFrames
  <2> QED
    BY <1>2, <2>2, <2>3 DEF Granted
<1> QED
  BY <1>3, UsesKept DEF UsesInv, Asks

\* A step that gives a frame to the heap.
LEMMA UsesHeap ==
  ASSUME IntsSuffice, UsesInv, TablesInv, mem_map # << >>, phase # "off", phase' # "off",
         request_page, heap' = Append(heap, returned'), idt' = idt, tables' = tables,
         starved' = starved
  PROVE  UsesInv'
<1>1. Core
  BY DEF TablesInv, SpaceInv, PtmInv
<1>2. /\ owned \subseteq owned' /\ returned' \in Nat
      /\ returned' = NULL \/ (returned' \notin owned /\ returned' \in owned')
  BY <1>1, FreshFrame
<1>3. heap \in Seq(Nat) /\ heap' \in Seq(Nat)
  BY <1>2 DEF UsesInv
<1>4. Range(heap') = Range(heap) \union {returned'}
  <2> PICK r \in Nat : r = returned'
    BY <1>2
  <2>1. Range(Append(heap, r)) = Range(heap) \union {r}
    <3>1. DOMAIN heap = 1 .. Len(heap) /\ Len(heap) \in Nat
      BY <1>3
    <3>2. DOMAIN Append(heap, r) = 1 .. Len(heap) + 1
      BY <1>3
    <3>3. /\ \A n \in 1 .. Len(heap) : Append(heap, r)[n] = heap[n]
          /\ Append(heap, r)[Len(heap) + 1] = r
      BY <1>3
    <3> QED
      BY <3>1, <3>2, <3>3 DEF Range
  <2> QED
    BY <2>1
<1>5. ~starved' => Granted'
  <2> SUFFICES ASSUME ~starved' PROVE Granted'
    OBVIOUS
  <2>1. Granted /\ TypedTables
    BY DEF UsesInv, TablesInv, SpaceInv, PtmInv, TreeInv
  <2>2. DOMAIN tables \subseteq owned
    BY <2>1 DEF TypedTables
  <2>3. HeapFrames' = HeapFrames \union ({returned'} \ {NULL}) /\ IdtFrames' = IdtFrames
    BY <1>4 DEF HeapFrames, IdtFrames
  <2> QED
    BY <1>2, <2>1, <2>2, <2>3 DEF Granted
<1> QED
  BY <1>3, <1>5, UsesKept DEF Asks

\* The step that gives a frame to the IDT.
LEMMA UsesIdt ==
  ASSUME IntsSuffice, UsesInv, TablesInv, mem_map # << >>, phase # "off", phase' # "off",
         request_page, heap' = heap, idt' = returned', tables' = tables, starved' = starved
  PROVE  UsesInv'
<1>1. Core
  BY DEF TablesInv, SpaceInv, PtmInv
<1>2. /\ owned \subseteq owned'
      /\ returned' = NULL \/ (returned' \notin owned /\ returned' \in owned')
  BY <1>1, FreshFrame
<1>3. ~starved' => Granted'
  <2> SUFFICES ASSUME ~starved' PROVE Granted'
    OBVIOUS
  <2>1. Granted /\ TypedTables
    BY DEF UsesInv, TablesInv, SpaceInv, PtmInv, TreeInv
  <2>2. DOMAIN tables \subseteq owned
    BY <2>1 DEF TypedTables
  <2>3. HeapFrames' = HeapFrames /\ IdtFrames' = {returned'} \ {Absent, NULL}
    BY DEF HeapFrames, IdtFrames
  <2> QED
    BY <1>2, <2>1, <2>2, <2>3 DEF Granted
<1> QED
  BY <1>3, UsesKept DEF UsesInv, Asks

\* A step that is not the kernel's, or ends the boot.
LEMMA UsesIdle ==
  ASSUME UsesInv, UNCHANGED kernel_vars
  PROVE  UsesInv'
<1>1. /\ UNCHANGED <<mem_map, initialized, size, buffer, bits, owned>>
      /\ UNCHANGED <<tables, starved, phase, heap, idt>>
  BY DEF kernel_vars, all_vars, vars, geometry, ptm_vars, boot_vars
<1>2. Usable' = Usable /\ mem_size' = mem_size
  BY <1>1 DEF Usable, ConventionalFrames, BitmapFrames, mem_size
<1>3. Granted => Granted'
  BY <1>1 DEF Granted, HeapFrames, IdtFrames
<1> QED
  BY <1>1, <1>2, <1>3 DEF UsesInv, ClearFramesAreUsable

LEMMA StartUses ==
  ASSUME UsesInv, FrameInv, start
  PROVE  UsesInv'
<1>1. Booting /\ heap = << >> /\ idt = Absent
  BY DEF UsesInv, FrameInv, start
<1>2. initialized' = FALSE /\ heap' = << >> /\ idt' = Absent
  BY <1>1 DEF start, Booting
<1>3. HeapFrames' = {} /\ IdtFrames' = {}
  BY <1>2 DEF HeapFrames, IdtFrames, Range
<1> QED
  BY <1>2, <1>3 DEF UsesInv, ClearFramesAreUsable, Granted

LEMMA WalkUses ==
  ASSUME IntsSuffice, UsesInv, TablesInv, mem_map # << >>, phase # "off", map_step,
         UNCHANGED boot_vars
  PROVE  UsesInv'
<1>1. phase' = phase /\ heap' = heap /\ idt' = idt
  BY DEF boot_vars
<1>2. PICK w \in walk : map_descend(w) \/ map_new_table(w) \/ map_leaf(w)
  BY DEF map_step
<1>3. CASE map_descend(w) \/ map_leaf(w)
  <2>1. Asks /\ DOMAIN tables' = DOMAIN tables /\ starved' = starved
    BY <1>3 DEF map_descend, map_leaf, Asks
  <2> QED
    BY <1>1, <2>1, UsesSame
<1>4. CASE map_new_table(w)
  <2>1. request_page /\ starved' = (starved \/ owned' = owned)
    BY <1>4 DEF map_new_table
  <2>2. DOMAIN tables' = DOMAIN tables \union {returned'}
    <3>1. DOMAIN tables' = DOMAIN zeroed(returned')
      BY <1>4 DEF map_new_table
    <3> QED
      BY <3>1 DEF zeroed
  <2> QED
    BY <1>1, <2>1, <2>2, UsesTable
<1> QED
  BY <1>2, <1>3, <1>4

LEMMA UsesStep ==
  ASSUME IntsSuffice, UsesInv, FrameInv, [BootNext]_everything
  PROVE  UsesInv'
<1>1. CASE UNCHANGED everything \/ loader
  <2>1. UNCHANGED kernel_vars
    BY <1>1 DEF everything, loader
  <2> QED
    BY <2>1, UsesIdle
<1>2. CASE kernel
  <2>1. CASE start
    BY <2>1, StartUses
  <2>2. CASE UNCHANGED kernel_vars
    BY <2>2, UsesIdle
  <2>3. CASE status = "kernel" /\ map_step /\ UNCHANGED <<loader_vars, status, boot_vars>>
    <3>1. walk # {}
      BY <2>3 DEF map_step
    <3>2. TablesInv /\ mem_map # << >> /\ phase # "off"
      BY <3>1 DEF FrameInv, Booting
    <3> QED
      BY <2>3, <3>2, WalkUses
  <2>4. ASSUME ~starved, mem_map # << >>, phase # "off", phase' # "off", Asks, heap' = heap,
               idt' = idt, tables' = tables
        PROVE  UsesInv'
    BY <2>4, UsesSame DEF FrameInv
  <2>5. CASE read_map
    <3>1. CASE mem_map = << >>
      BY <2>2, <2>5, <3>1 DEF read_map, Ends
    <3>2. CASE mem_map # << >>
      BY <2>4, <2>5, <3>2 DEF read_map, At, Then, Asks, ptm_vars
    <3> QED
      BY <3>1, <3>2
  <2>6. ASSUME phase \notin {"off", "read_map"}
        PROVE  TablesInv /\ mem_map # << >> /\ phase # "off"
    BY <2>6 DEF FrameInv
  <2>7. CASE lock_kernel
    BY <2>4, <2>6, <2>7 DEF lock_kernel, At, Then, Asks, ptm_vars
  <2>8. CASE new_tables
    <3>1. /\ request_page /\ phase = "new_tables" /\ phase' = "identity" /\ ~starved
          /\ heap' = heap /\ idt' = idt
          /\ tables' = zeroed(returned') /\ starved' = (owned' = owned)
      BY <2>8 DEF new_tables, At, Then, new_page_table_manager
    <3>2. DOMAIN tables' = DOMAIN tables \union {returned'}
      BY <3>1 DEF zeroed
    <3> QED
      BY <2>6, <3>1, <3>2, UsesTable
  <2>9. CASE identity \/ map_buffer
    <3>1. /\ phase \in {"identity", "map_buffer"} /\ ~starved
          /\ phase' \in {"identity", "map_buffer", "lock_buffer", "load_cr3"}
          /\ heap' = heap /\ idt' = idt /\ vars' = vars /\ tables' = tables
      BY <2>9 DEF identity, map_buffer, Round, At, Then, map_mem, all_vars, ptm_vars
    <3> QED
      BY <2>4, <2>6, <3>1 DEF Asks
  <2>10. CASE lock_buffer
    <3>1. CASE gop
      BY <2>4, <2>6, <2>10, <3>1 DEF lock_buffer, At, Then, Asks, ptm_vars
    <3>2. CASE ~gop
      BY <2>2, <2>10, <3>2 DEF lock_buffer, Ends
    <3> QED
      BY <3>1, <3>2
  <2>11. CASE load_cr3
    BY <2>4, <2>6, <2>11 DEF load_cr3, At, Then, Asks, all_vars, ptm_vars
  <2>12. CASE clear_buffer
    <3>1. /\ phase = "clear_buffer" /\ ~starved
          /\ \/ phase' = "init_heap" /\ UNCHANGED <<all_vars, heap, idt>>
             \/ UNCHANGED kernel_vars
      BY <2>12 DEF clear_buffer, At, Then, Ends
    <3> QED
      BY <2>2, <2>4, <2>6, <3>1 DEF Asks, all_vars, ptm_vars
  <2>13. CASE init_heap
    <3>1. phase = "init_heap" /\ ~starved /\ idt' = idt /\ phase' \in {"init_heap", "make_idt"}
      BY <2>13 DEF init_heap, Round, At, Then
    <3>2. CASE i < HeapPages
      <4>1. /\ request_page /\ heap' = Append(heap, returned')
            /\ tables' = tables /\ starved' = starved
        BY <2>13, <3>2 DEF init_heap, Round, map_mem_requested
      <4> QED
        BY <2>6, <3>1, <4>1, UsesHeap
    <3>3. CASE ~(i < HeapPages)
      BY <2>4, <2>6, <2>13, <3>1, <3>3 DEF init_heap, Round, Asks, all_vars, ptm_vars
    <3> QED
      BY <3>2, <3>3
  <2>14. CASE make_idt
    <3>1. /\ request_page /\ phase = "make_idt" /\ phase' = "find_mcfg" /\ heap' = heap
          /\ idt' = returned' /\ tables' = tables /\ starved' = starved
      BY <2>14 DEF make_idt, At, ptm_vars
    <3> QED
      BY <2>6, <3>1, UsesIdt
  <2>15. CASE find_mcfg
    <3>1. /\ phase = "find_mcfg" /\ ~starved
          /\ \/ phase' = "enumerate_pci" /\ UNCHANGED <<all_vars, heap, idt>>
             \/ UNCHANGED kernel_vars
      BY <2>15 DEF find_mcfg, At, Then, Ends
    <3> QED
      BY <2>2, <2>4, <2>6, <3>1 DEF Asks, all_vars, ptm_vars
  <2>16. CASE enumerate_pci \/ unmask_and_sti
    <3>1. /\ phase \in {"enumerate_pci", "unmask"} /\ ~starved
          /\ phase' \in {"bus", "unmask", "running"} /\ UNCHANGED <<all_vars, heap, idt>>
      BY <2>16 DEF enumerate_pci, unmask_and_sti, At, Then
    <3> QED
      BY <2>4, <2>6, <3>1 DEF Asks, all_vars, ptm_vars
  <2>17. CASE enumerate_bus \/ enumerate_device \/ enumerate_function
    <3>1. /\ phase \in {"bus", "device", "function"} /\ ~starved
          /\ phase' \in {"enumerate_pci", "bus", "device"} \union Headers
          /\ heap' = heap /\ idt' = idt /\ vars' = vars /\ tables' = tables
      BY <2>17 DEF enumerate_bus, enumerate_device, enumerate_function, Mapping, map_mem, At, Then,
         all_vars, ptm_vars, Headers
    <3> QED
      BY <2>4, <2>6, <3>1 DEF Asks, Headers
  <2>18. CASE bus_header \/ device_header \/ function_header
    <3>1. /\ phase \in Headers /\ ~starved
          /\ phase' \in {"bus", "device", "function"} \union Headers
          /\ UNCHANGED <<all_vars, heap, idt>>
      BY <2>18 DEF bus_header, device_header, function_header, Reading, At, Then, Headers
    <3> QED
      BY <2>4, <2>6, <3>1 DEF Asks, all_vars, ptm_vars, Headers
  <2>19. CASE starve
    BY <2>2, <2>19 DEF starve, Ends
  <2> QED
    BY <1>2, <2>1, <2>3, <2>5, <2>7, <2>8, <2>9, <2>10, <2>11, <2>12, <2>13, <2>14, <2>15, <2>16,
       <2>17, <2>18, <2>19 DEF kernel
<1> QED
  BY <1>1, <1>2 DEF BootNext

-------------------------------------------------------------------------------
\* Conventional frames beyond the kernel's image.
AboveImage(t) == {f \in DOMAIN t : t[f] = "conventional" /\ \A g \in Image : g < f}

\* There is more of them than loader and events may take, the framebuffer is not
\* memory, and the segment that is to hold the bitmap is long enough.
PartsFit ==
  /\ {MaxPool, MaxEvents} \subseteq Nat
  /\ \A m \in Machines : /\ Cardinality(AboveImage(m.types)) > MaxPool + MaxEvents
                         /\ BufferFrames \cap DOMAIN m.types = {}
  /\ \A m \in MemMaps : \E n \in Conventional(m) :
       /\ m[n].phys_addr = largest_free_mem_seg(m)
       /\ m[n].num_pages > bitmap_size(get_memory_size(m)) \div PageBytes

\* So the pool's frames, taken from the end of the memory, are not the image's.
PoolInv ==
  /\ IsFiniteSet(pool) /\ pool \cap Image = {} /\ pool \subseteq Frames("loader")
  /\ seg \in Nat \ {0}
  /\ status = "loading" =>
       /\ events \in 0 .. MaxEvents
       /\ Cardinality(AboveImage(types)) + Cardinality(pool) + events > MaxPool + MaxEvents

LEMMA AboveFinite ==
  ASSUME IsMap(types)
  PROVE  IsFiniteSet(AboveImage(types)) /\ Cardinality(AboveImage(types)) \in Nat
<1>1. AboveImage(types) \in SUBSET DOMAIN types
  BY DEF AboveImage
<1> QED
  BY <1>1, FS_Subset, FS_CardinalityType DEF IsMap

LEMMA TakenAbove ==
  ASSUME IsMap(types), NEW f \in DOMAIN types, NEW t, t # "conventional",
         types' = [types EXCEPT ![f] = t]
  PROVE  /\ AboveImage(types') = AboveImage(types) \ {f}
         /\ Cardinality(AboveImage(types')) =
              IF f \in AboveImage(types) THEN Cardinality(AboveImage(types)) - 1
                                         ELSE Cardinality(AboveImage(types))
<1>1. AboveImage(types') = AboveImage(types) \ {f}
  BY DEF AboveImage
<1> QED
  BY <1>1, AboveFinite, FS_RemoveElement

LEMMA PoolKeepsApart ==
  ASSUME PartsFit, BootFits, TypesInv, PoolInv, IsMap(types), status = "loading",
         PoolServed \/ PoolRefused
  PROVE  /\ IsFiniteSet(pool') /\ pool' \cap Image = {} /\ pool' \subseteq Frames("loader")'
         /\ Cardinality(AboveImage(types')) + Cardinality(pool') + events > MaxPool + MaxEvents
<1>1. CASE UNCHANGED <<types, pool>>
  BY <1>1 DEF PoolInv, Frames
<1>2. CASE ~UNCHANGED <<types, pool>>
  <2> DEFINE free == Frames("conventional")
  <2>1. PICK f : /\ f = Max(free) /\ free # {} /\ Cardinality(pool) < MaxPool
                 /\ types' = [types EXCEPT ![f] = "loader"] /\ pool' = pool \union {f}
    BY <1>2 DEF PoolServed, PoolRefused
  <2>2. free \in SUBSET DOMAIN types
    BY DEF Frames
  <2>3. free \in SUBSET Nat /\ IsFiniteSet(free)
    BY <2>2, FS_Subset DEF IsMap
  <2>4. f \in free /\ \A g \in free : g <= f
    BY <2>1, <2>3, MaxOfNats
  <2>5. /\ MaxPool \in Nat /\ MaxEvents \in Nat /\ events \in 0 .. MaxEvents
        /\ Cardinality(pool) \in Nat /\ Cardinality(AboveImage(types)) \in Nat
        /\ Cardinality(AboveImage(types)) + Cardinality(pool) + events > MaxPool + MaxEvents
    BY AboveFinite, FS_CardinalityType DEF PoolInv, PartsFit
  <2>6. AboveImage(types) # {}
    BY <2>1, <2>5, FS_EmptySet
  <2>7. f \in AboveImage(types) /\ f \notin Image
    <3>1. PICK h \in AboveImage(types) : TRUE
      BY <2>6
    <3>2. h \in free /\ \A g \in Image : g < h
      BY <3>1 DEF AboveImage, Frames
    <3>3. \A g \in Image : g \in Nat
      BY DEF BootFits, TypesInv, IsMap
    <3>4. \A g \in Image : g < f
      BY <2>3, <2>4, <3>2, <3>3
    <3>5. f \notin Image
      BY <2>3, <2>4, <3>4
    <3> QED
      BY <2>4, <3>4, <3>5 DEF AboveImage, Frames
  <2>8. f \in DOMAIN types /\ types[f] = "conventional" /\ f \notin pool
    BY <2>4 DEF PoolInv, Frames
  <2>9. Cardinality(AboveImage(types')) = Cardinality(AboveImage(types)) - 1
    BY <2>1, <2>7, <2>8, TakenAbove
  <2>10. IsFiniteSet(pool') /\ Cardinality(pool') = Cardinality(pool) + 1
    BY <2>1, <2>8, FS_AddElement DEF PoolInv
  <2>11. pool' \subseteq Frames("loader")'
    BY <2>1, <2>8 DEF PoolInv, Frames
  <2> QED
    BY <2>1, <2>5, <2>7, <2>9, <2>10, <2>11 DEF PoolInv
<1> QED
  BY <1>1, <1>2

LEMMA EventKeepsApart ==
  ASSUME PartsFit, PoolInv, IsMap(types), firmware_event
  PROVE  PoolInv'
<1>1. /\ status = "loading" /\ pool' = pool /\ seg' = seg /\ status' = status
      /\ events < MaxEvents /\ events' = events + 1
  BY DEF firmware_event
<1>2. /\ MaxEvents \in Nat /\ MaxPool \in Nat /\ events \in 0 .. MaxEvents
      /\ Cardinality(pool) \in Nat /\ Cardinality(AboveImage(types)) \in Nat
      /\ Cardinality(AboveImage(types)) + Cardinality(pool) + events > MaxPool + MaxEvents
  BY <1>1, AboveFinite, FS_CardinalityType DEF PoolInv, PartsFit
<1>3. PICK f \in DOMAIN types :
        \/ types[f] = "conventional" /\ types' = [types EXCEPT ![f] = "event"]
        \/ types[f] = "event" /\ types' = [types EXCEPT ![f] = "conventional"]
  <2>1. CASE /\ Frames("conventional") # {}
             /\ types' = [types EXCEPT ![Max(Frames("conventional"))] = "event"]
    <3>1. Frames("conventional") \in SUBSET DOMAIN types
      BY DEF Frames
    <3>2. Frames("conventional") \in SUBSET Nat /\ IsFiniteSet(Frames("conventional"))
      BY <3>1, FS_Subset DEF IsMap
    <3>3. Max(Frames("conventional")) \in Frames("conventional")
      BY <2>1, <3>2, MaxOfNats
    <3> QED
      BY <2>1, <3>3 DEF Frames
  <2>2. CASE \E f \in Frames("event") : types' = [types EXCEPT ![f] = "conventional"]
    BY <2>2 DEF Frames
  <2> QED
    BY <2>1, <2>2 DEF firmware_event
<1>4. pool \subseteq Frames("loader")'
  BY <1>3 DEF PoolInv, Frames
<1>5. /\ Cardinality(AboveImage(types')) \in Nat
      /\ Cardinality(AboveImage(types')) >= Cardinality(AboveImage(types)) - 1
  <2>1. CASE types' = [types EXCEPT ![f] = "event"]
    <3>1. IsMap(types')
      BY <2>1 DEF IsMap
    <3>2. Cardinality(AboveImage(types')) =
            IF f \in AboveImage(types) THEN Cardinality(AboveImage(types)) - 1
                                       ELSE Cardinality(AboveImage(types))
      BY <2>1, TakenAbove
    <3>3. f \in AboveImage(types) => Cardinality(AboveImage(types)) # 0
      BY AboveFinite, FS_EmptySet
    <3> QED
      BY <1>2, <3>2, <3>3
  <2>2. CASE types[f] = "event" /\ types' = [types EXCEPT ![f] = "conventional"]
    <3>1. AboveImage(types) \in SUBSET AboveImage(types')
      BY <2>2 DEF AboveImage
    <3>2. AboveImage(types') \in SUBSET DOMAIN types
      BY <2>2 DEF AboveImage
    <3>3. IsFiniteSet(AboveImage(types'))
      BY <3>2, FS_Subset DEF IsMap
    <3> QED
      BY <1>2, <3>1, <3>3, FS_Subset, FS_CardinalityType
  <2> QED
    BY <1>3, <2>1, <2>2
<1> QED
  BY <1>1, <1>2, <1>4, <1>5 DEF PoolInv

LEMMA SegmentKeepsApart ==
  ASSUME PoolInv, IsMap(types), load_segment
  PROVE  PoolInv'
<1>1. /\ status = "loading" /\ pool' = pool /\ seg' = seg + 1 /\ events' = events
  BY DEF load_segment, Goto
<1>2. CASE types' = types
  BY <1>1, <1>2 DEF PoolInv, Frames
<1>3. CASE types' # types
  <2> DEFINE here_pages == pages(program_headers[seg])
  <2>1. /\ seg <= Len(program_headers) /\ here_pages \subseteq Frames("conventional")
        /\ types' = [f \in DOMAIN types |-> IF f \in here_pages THEN "loader" ELSE types[f]]
    BY <1>3 DEF load_segment
  <2>2. program_headers = Segments /\ seg \in DOMAIN Segments
    <3>1. Segments \in Seq([frame : Nat, mem : Nat, file : Nat]) /\ seg \in Nat \ {0}
      BY SegmentsAssumption DEF PoolInv
    <3>2. Len(<< >>) = 0
      OBVIOUS
    <3> QED
      BY <2>1, <3>1, <3>2 DEF program_headers
  <2>3. here_pages \subseteq Image
    BY <2>2 DEF Image, pages
  <2> HIDE DEF here_pages
  <2>4. AboveImage(types') = AboveImage(types)
    <3>1. \A f \in DOMAIN types : f \in Nat
      BY DEF IsMap
    <3>2. \A f \in DOMAIN types : f \in here_pages => ~ \A g \in Image : g < f
      BY <2>3, <3>1
    <3> QED
      BY <2>1, <3>2 DEF AboveImage
  <2>5. pool \subseteq Frames("loader")'
    BY <2>1 DEF PoolInv, Frames
  <2> QED
    BY <1>1, <2>4, <2>5 DEF PoolInv
<1> QED
  BY <1>2, <1>3

LEMMA PoolStep ==
  ASSUME PartsFit, BootFits, TypesInv, PoolInv, IsMap(types), [BootNext]_everything
  PROVE  PoolInv'
<1>1. ASSUME types' = types, pool' = pool, seg' \in {seg, seg + 1},
             status' = "loading" => status = "loading" /\ events' = events
      PROVE  PoolInv'
  BY <1>1 DEF PoolInv, Frames
<1>2. CASE UNCHANGED everything
  BY <1>1, <1>2 DEF everything, loader_vars
<1>3. CASE kernel
  <2>1. UNCHANGED loader_vars /\ status = "kernel" /\ status' # "loading"
    <3>1. start \/ read_map \/ lock_kernel \/ new_tables \/ identity =>
            UNCHANGED loader_vars /\ status = "kernel" /\ status' # "loading"
      BY DEF start, read_map, lock_kernel, new_tables, identity, Round, At, Then, Ends
    <3>2. lock_buffer \/ map_buffer \/ load_cr3 \/ clear_buffer \/ init_heap \/ make_idt =>
            UNCHANGED loader_vars /\ status = "kernel" /\ status' # "loading"
      BY DEF lock_buffer, map_buffer, load_cr3, clear_buffer, init_heap, make_idt, Round, At, Then, Ends
    <3>3. find_mcfg \/ enumerate_pci \/ enumerate_bus \/ enumerate_device \/ enumerate_function =>
            UNCHANGED loader_vars /\ status = "kernel" /\ status' # "loading"
      BY DEF find_mcfg, enumerate_pci, enumerate_bus, enumerate_device, enumerate_function, Mapping,
             At, Then, Ends
    <3>4. bus_header \/ device_header \/ function_header \/ unmask_and_sti \/ starve =>
            UNCHANGED loader_vars /\ status = "kernel" /\ status' # "loading"
      BY DEF bus_header, device_header, function_header, Reading, unmask_and_sti, starve, At, Then, Ends
    <3> QED
      BY <1>3, <3>1, <3>2, <3>3, <3>4 DEF kernel
  <2> QED
    BY <1>1, <2>1 DEF loader_vars
<1>4. CASE loader
  <2>1. ASSUME status = "loading", PoolServed \/ PoolRefused, seg' = seg, events' = events
        PROVE  PoolInv'
    BY <2>1, PoolKeepsApart DEF PoolInv
  <2>2. CASE firmware_event
    BY <2>2, EventKeepsApart
  <2>3. CASE load_segment
    BY <2>3, SegmentKeepsApart
  <2>4. CASE open_kernel \/ segments_done \/ init_gop \/ get_map_size \/ get_map \/ find_rsdp
    BY <1>1, <2>4 DEF open_kernel, segments_done, init_gop, get_map_size, get_map, find_rsdp, Goto,
       file_vars
  <2>5. CASE read_header \/ read_program_headers \/ load_font \/ check_font \/ final_font
             \/ allocate_map
    <3>1. /\ status = "loading" /\ seg' = seg /\ events' = events
          /\ PoolServed \/ PoolRefused \/ UNCHANGED <<types, pool>>
      BY <2>5 DEF read_header, read_program_headers, load_font, check_font, final_font,
                  allocate_map, Goto, file_vars
    <3> QED
      BY <1>1, <2>1, <3>1
  <2>6. CASE exit_boot_services
    BY <1>1, <2>6 DEF exit_boot_services, file_vars
  <2> QED
    BY <1>4, <2>2, <2>3, <2>4, <2>5, <2>6 DEF loader, efi_main
<1> QED
  BY <1>2, <1>3, <1>4 DEF BootNext

LEMMA StartOnce ==
  ASSUME PartsFit, BootInit
  PROVE  UsesInv /\ PoolInv
<1>1. /\ machine \in Machines /\ types = machine.types /\ status = "loading" /\ events = 0
      /\ seg = 1 /\ pool = {} /\ mem_map = << >> /\ heap = << >> /\ idt = Absent
  BY DEF BootInit, LoaderInit
<1>2. IsMap(types)
  BY <1>1, MachinesAssumption DEF IsMap
<1>3. /\ Cardinality(AboveImage(types)) > MaxPool + MaxEvents /\ MaxPool \in Nat /\ MaxEvents \in Nat
      /\ Cardinality(AboveImage(types)) \in Nat
  BY <1>1, <1>2, AboveFinite DEF PartsFit
<1>4. IsFiniteSet(pool) /\ Cardinality(pool) = 0
  BY <1>1, FS_EmptySet
<1>5. PoolInv
  BY <1>1, <1>3, <1>4 DEF PoolInv
<1> QED
  BY <1>1, <1>5 DEF UsesInv

\* What the kernel's parts have is conventional memory, each frame once.
LEMMA KernelsUses ==
  ASSUME PartsFit, FrameInv, UsesInv, MapIsCurrent, exited, ~starved
  PROVE  LET own == IF initialized THEN buffer .. buffer + size \div PageBytes ELSE {}
         IN  /\ own \cup DOMAIN tables \cup HeapFrames \cup IdtFrames \subseteq Frames("conventional")
             /\ own \cap (DOMAIN tables \cup HeapFrames \cup IdtFrames) = {}
             /\ DOMAIN tables \cap (HeapFrames \cup IdtFrames) = {}
             /\ HeapFrames \cap IdtFrames = {}
<1> DEFINE own == IF initialized THEN buffer .. buffer + size \div PageBytes ELSE {}
<1>1. CASE mem_map = << >> \/ phase = "off"
  <2>1. own = {} /\ DOMAIN tables = {} /\ heap = << >> /\ idt = Absent
    BY <1>1 DEF FrameInv, Booting, UsesInv
  <2>2. HeapFrames = {} /\ IdtFrames = {}
    BY <2>1 DEF HeapFrames, IdtFrames, Range
  <2> QED
    BY <2>1, <2>2
<1>2. CASE mem_map # << >> /\ phase # "off"
  <2>1. Core /\ TypedTables /\ Granted /\ ClearFramesAreUsable
    BY <1>2 DEF FrameInv, TablesInv, SpaceInv, PtmInv, TreeInv, UsesInv
  <2>2. DOMAIN tables \cup HeapFrames \cup IdtFrames \subseteq owned
    BY <2>1 DEF TypedTables, Granted
  <2>3. owned \subseteq Usable
    BY <2>1 DEF Core, BeforeBoot, ClearFramesAreUsable
  <2>4. ConventionalFrames = Frames("conventional")
    BY <1>2 DEF MapIsCurrent
  <2>5. own \subseteq BitmapFrames /\ own \subseteq ConventionalFrames
    <3>1. CASE ~initialized
      BY <3>1
    <3>2. CASE initialized
      <4>1. mem_map \in MemMaps
        BY <2>1 DEF Core, TypeOK
      <4>2. own = BitmapFrames /\ size = bitmap_size(mem_size)
        BY <1>2, <2>1, <3>2 DEF UsesInv, ClearFramesAreUsable, BitmapFrames
      <4>3. PICK n \in Conventional(mem_map) :
              /\ mem_map[n].phys_addr = largest_free_mem_seg(mem_map)
              /\ mem_map[n].num_pages > bitmap_size(get_memory_size(mem_map)) \div PageBytes
        BY <4>1 DEF PartsFit
      <4>4. /\ mem_map[n].phys_addr \in Nat /\ mem_map[n].num_pages \in Nat
            /\ bitmap_size(get_memory_size(mem_map)) \in Nat
        BY <4>1, MapTypes, MemMapsAssumption DEF Conventional
      <4>5. BitmapFrames \subseteq
              mem_map[n].phys_addr .. mem_map[n].phys_addr + mem_map[n].num_pages - 1
        BY <4>3, <4>4, ConstantsAssumption DEF BitmapFrames, mem_size
      <4> QED
        BY <4>2, <4>5 DEF ConventionalFrames
    <3> QED
      BY <3>1, <3>2
  <2> QED
    BY <2>1, <2>2, <2>3, <2>4, <2>5 DEF Granted, Usable
<1> QED
  BY <1>1, <1>2

LEMMA OneUse ==
  ASSUME PartsFit, TypesInv, FrameInv, UsesInv, PoolInv, MapIsCurrent
  PROVE  OneUsePerFrame
<1> DEFINE own == IF initialized THEN buffer .. buffer + size \div PageBytes ELSE {}
           sort == <<"loader", "loader", "boot_services", "event", "runtime", "acpi">>
<1> SUFFICES ASSUME exited, Image \subseteq Frames("loader"), ~starved
             PROVE  \A a, b \in DOMAIN Uses : a # b => Uses[a] \cap Uses[b] = {}
  BY DEF OneUsePerFrame
<1>1. /\ DOMAIN Uses = 1 .. 11
      /\ Uses[1] = Image /\ Uses[2] = pool /\ Uses[3] = Frames("boot_services")
      /\ Uses[4] = Frames("event") /\ Uses[5] = Frames("runtime") /\ Uses[6] = Frames("acpi")
      /\ Uses[7] = BufferFrames /\ Uses[8] = own /\ Uses[9] = DOMAIN tables
      /\ Uses[10] = HeapFrames /\ Uses[11] = IdtFrames
  BY DEF Uses, HeapFrames, IdtFrames
<1> HIDE DEF own
<1>2. \A n \in 1 .. 6 : \A f \in Uses[n] : f \in DOMAIN types /\ types[f] = sort[n]
  BY <1>1 DEF PoolInv, Frames
<1>3. Uses[7] \cap DOMAIN types = {}
  BY <1>1 DEF TypesInv, PartsFit
<1>4. /\ own \cup DOMAIN tables \cup HeapFrames \cup IdtFrames \subseteq Frames("conventional")
      /\ own \cap (DOMAIN tables \cup HeapFrames \cup IdtFrames) = {}
      /\ DOMAIN tables \cap (HeapFrames \cup IdtFrames) = {}
      /\ HeapFrames \cap IdtFrames = {}
  BY KernelsUses DEF own
<1>5. \A n \in 8 .. 11 : \A f \in Uses[n] : f \in DOMAIN types /\ types[f] = "conventional"
  BY <1>1, <1>4 DEF Frames
<1>6. SUFFICES ASSUME NEW a \in 1 .. 11, NEW b \in 1 .. 11, a < b, NEW f \in Uses[a] \cap Uses[b]
               PROVE  FALSE
  BY <1>1
<1>7. CASE b \in 1 .. 6
  <2>1. sort[a] = sort[b]
    BY <1>2, <1>6, <1>7
  <2>2. a = 1 /\ b = 2
    BY <1>6, <1>7, <2>1
  <2> QED
    BY <1>1, <1>6, <2>2 DEF PoolInv
<1>8. CASE b = 7
  BY <1>2, <1>3, <1>6, <1>8
<1>9. CASE b \in 8 .. 11 /\ a \in 1 .. 6
  <2>1. sort[a] # "conventional"
    BY <1>9
  <2> QED
    BY <1>2, <1>5, <1>6, <1>9, <2>1
<1>10. CASE b \in 8 .. 11 /\ a = 7
  BY <1>3, <1>5, <1>6, <1>10
<1>11. CASE b \in 8 .. 11 /\ a \in 8 .. 11
  BY <1>1, <1>4, <1>6, <1>11
<1> QED
  BY <1>6, <1>7, <1>8, <1>9, <1>10, <1>11

\* From the first of the loader's calls to sti, for machines of any size and wherever
\* the firmware refuses or an event falls: no frame serves two of image, pool, firmware,
\* ACPI, framebuffer, bitmap, page tables, heap and IDT, once the kernel's segments are
\* loaded and the boot services are gone (main.c:209-292, kernel_util.cpp:5-66,
\* heap.cpp:7-16).
THEOREM FramesUsedOnce ==
  ASSUME PagesDiffer, BootFits, IntsSuffice, PartsFit
  PROVE  BootSpec /\ []KnownMap => []OneUsePerFrame
<1> DEFINE Inv == FrameInv /\ TypesInv /\ PciInv /\ MapInv /\ UsesInv /\ PoolInv
<1>1. BootInit => Inv
  BY FrameInit, WalkInit, MapInit, StartOnce
<1>2. Inv /\ KnownMap' /\ [BootNext]_everything => Inv'
  <2> SUFFICES ASSUME Inv, KnownMap', [BootNext]_everything PROVE Inv'
    OBVIOUS
  <2>1. FrameInv' /\ TypesInv'
    BY FrameStep, TypesStep
  <2>2. PciInv' /\ MapInv'
    BY WalkNext, MapStep
  <2>3. UsesInv'
    BY UsesStep
  <2>4. IsMap(types)
    BY DEF MapInv
  <2>5. PoolInv'
    BY <2>4, PoolStep
  <2> QED
    BY <2>1, <2>2, <2>3, <2>5
<1>3. Inv => OneUsePerFrame
  BY OneUse, MapMeans
<1> QED
  BY <1>1, <1>2, <1>3, PTL DEF BootSpec
===============================================================================

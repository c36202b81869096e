------------------------------- MODULE PciNames -------------------------------
(***************************************************************************)
(* The names of PCI devices (src/kernel/src/pci_descriptors.cpp), as the   *)
(* enumeration shows them: a known number's text, and any other number's   *)
(* digits.                                                                 *)
(***************************************************************************)
EXTENDS Answers, TLC

CONSTANTS
  VendorIds, DeviceIds,                \* numbers in a device's header
  ClassCodes, SubclassCodes, ProgIfs

\* The digits of a number that has no name, by their values; a name is a text of one part.
hstring(value, size) == [n \in 1 .. 2 * size |-> (value \div 16 ^ (2 * size - n)) % 16]
NameOrDigits(names, id, size) == IF id \in DOMAIN names THEN <<names[id]>> ELSE hstring(id, size)

-------------------------------------------------------------------------------
Vendors == (\H8086 :> "Intel Corporation") @@ (\H1022 :> "AMD") @@ (\H10DE :> "NVIDIA Corporation")

get_vendor_name(vendor_id) == NameOrDigits(Vendors, vendor_id, 2)

IntelDevices ==
  (\H29C0 :> "Express DRAM Controller") @@ (\H2918 :> "LPC Interface Controller")
    @@ (\H2922 :> "6 port SATA Controller [AHCI mode]") @@ (\H2930 :> "SMBus Controller")

get_device_name(vendor_id, device_id) ==
  NameOrDigits(IF vendor_id = \H8086 THEN IntelDevices ELSE << >>, device_id, 2)

device_classes ==
  <<"Unclassified", "Mass Storage Controller", "Network Controller", "Display Controller",
    "Multimedia Controller", "Memory Controller", "Bridge Device", "Simple Communication Controller",
    "Base System Peripheral", "Input Device Controller", "Docking Station", "Processor",
    "Serial Bus Controller", "Wireless Controller", "Intelligent Controller",
    "Satellite Communication Controller", "Encryption Controller", "Signal Processing Controller",
    "Processing Accelerator", "Non Essential Instrumentation">>

\* The class's place in the list is not compared with the list's length.
class_name(class_code) ==
  IF class_code < Len(device_classes) THEN <<device_classes[class_code + 1]>> ELSE <<"behind the list">>

mass_storage_controller_subclasses ==
  (\H00 :> "SCSI Bus Controller") @@ (\H01 :> "IDE Controller") @@ (\H02 :> "Floppy Disk Controller")
    @@ (\H03 :> "IPI Bus Controller") @@ (\H04 :> "RAID Controller") @@ (\H05 :> "ATA Controller")
    @@ (\H06 :> "Serial ATA") @@ (\H07 :> "Serial Attached SCSI")
    @@ (\H08 :> "Non-Volatile Memory Controller") @@ (\H80 :> "Other")

get_subclass_name(class_code, subclass_code) ==
  NameOrDigits(CASE class_code = 1 -> mass_storage_controller_subclasses
          [] class_code = 3 -> \H00 :> "VGA Compatible Controller"
          [] OTHER -> << >>, subclass_code, 1)

\* The cases of get_prog_if_name, in their order.
prog_if_cases ==
  <<[class |-> 1, subclass |-> 6,
     names |-> (\H00 :> "Vendor Specific Interface") @@ (\H01 :> "AHCI 1.0") @@ (\H02 :> "Serial Storage Bus")],
    [class |-> 3, subclass |-> 0,
     names |-> (\H00 :> "VGA Controller") @@ (\H01 :> "8514-Compatible Controller")],
    [class |-> 12, subclass |-> 3,
     names |-> (\H00 :> "UHCI Controller") @@ (\H10 :> "OHCI Controller") @@ (\H20 :> "EHCI (USB2) Controller")
                 @@ (\H30 :> "XHCI (USB3) Controller") @@ (\H80 :> "Unspecified")
                 @@ (\HFE :> "USB Device (Not a Host Controller)")]>>

\* No case ends in a break: from the class's own it goes on through the others.
get_prog_if_name(class_code, subclass_code, prog_if) ==
  LET reached == {n \in DOMAIN prog_if_cases : \E k \in 1 .. n : prog_if_cases[k].class = class_code}
      naming == {n \in reached : /\ prog_if_cases[n].subclass = subclass_code
                                 /\ prog_if \in DOMAIN prog_if_cases[n].names}
  IN  IF naming = {} THEN hstring(prog_if, 1)
      ELSE <<prog_if_cases[CHOOSE n \in naming : \A k \in naming : n <= k].names[prog_if]>>

-------------------------------------------------------------------------------
\* What is shown of a header's numbers; the last name is asked for by nobody yet.
name_device ==
  \/ \E vendor \in VendorIds, device \in DeviceIds :
       Answers("device name", [vendor |-> vendor, device |-> device],
               [vendor |-> get_vendor_name(vendor), device |-> get_device_name(vendor, device)])
  \/ \E class \in ClassCodes, subclass \in SubclassCodes, prog_if \in ProgIfs :
       Answers("class name", [class |-> class, subclass |-> subclass, prog_if |-> prog_if],
               [class |-> class_name(class), subclass |-> get_subclass_name(class, subclass),
                prog_if |-> get_prog_if_name(class, subclass, prog_if)])

-------------------------------------------------------------------------------
\* A text tells which number it was made from: two vendors, two devices of a vendor, two
\* classes of the list and two subclasses of a class are never shown alike, named or not.
\* That is less than the name of an interface says: cases without a break give a class
\* the names of the classes behind it, so that it tells the subclass and the interface,
\* and the class only as one that is not behind the name's own.
NamesTellApart ==
  LET in == answer.in
      out == answer.out
  IN  CASE answer.of = "device name" ->
             /\ \A vendor \in VendorIds \ {in.vendor} : get_vendor_name(vendor) # out.vendor
             /\ \A device \in DeviceIds \ {in.device} : get_device_name(in.vendor, device) # out.device
        [] answer.of = "class name" ->
             /\ in.class < Len(device_classes) =>
                  \A class \in ClassCodes \ {in.class} : class_name(class) # out.class
             /\ \A subclass \in SubclassCodes \ {in.subclass} :
                  get_subclass_name(in.class, subclass) # out.subclass
             /\ \A subclass \in SubclassCodes, prog_if \in ProgIfs :
                  get_prog_if_name(in.class, subclass, prog_if) = out.prog_if =>
                    prog_if = in.prog_if /\ (subclass = in.subclass \/ Len(out.prog_if) = 2)
             /\ Len(out.prog_if) = 1 =>
                  \E n \in DOMAIN prog_if_cases :
                    /\ in.class <= prog_if_cases[n].class
                    /\ out.prog_if = get_prog_if_name(prog_if_cases[n].class, in.subclass, in.prog_if)
        [] OTHER -> TRUE
===============================================================================

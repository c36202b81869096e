------------------------------ MODULE DevicePaths ------------------------------
(***************************************************************************)
(* gnu-efi's device paths (lib/dpath.c): nodes one behind the other, each  *)
(* with its length, up to the node that ends the whole path; nodes that    *)
(* end an instance lie in between.  A caller builds a path with the        *)
(* library's functions and has it printed.                                 *)
(*                                                                         *)
(* A node is [type, sub, length, fields, unpacked]; its fields are values  *)
(* by name.  Lengths are bytes.                                            *)
(***************************************************************************)
EXTENDS Integers, Sequences, SequencesExt, FiniteSets, TLC

CONSTANTS
  Paths,           \* device paths the firmware and the caller have, as nodes
  Names,           \* file names, with the size of each
  MinAlignment,    \* MIN_ALIGNMENT_SIZE
  MaxPathCalls

VARIABLES
  path,            \* the caller's path: what was allocated for it
  overrun,         \* more was written than was allocated
  path_text,       \* what DevicePathToStr gave
  path_call,       \* history: the call that was made, and with which instances
  path_calls

path_vars == <<path, overrun, path_text, path_call, path_calls>>

NodeOf(type, sub, length, fields) ==
  [type |-> type, sub |-> sub, length |-> length, fields |-> fields, unpacked |-> FALSE]
EndDevicePath == NodeOf("end", "entire", 4, << >>)
EndInstanceDevicePath == NodeOf("end", "instance", 4, << >>)

IsDevicePathEndType(node) == node.type = "end"
IsDevicePathEnd(node) == node.type = "end" /\ node.sub = "entire"

Total(nodes) == FoldLeft(LAMBDA sum, node : sum + node.length, 0, nodes)

\* The nodes up to the one that ends the path, and their size.
Reachable(p) == SubSeq(p, 1, SelectInSeq(p, IsDevicePathEnd))
DevicePathSize(p) == Total(Front(Reachable(p))) + EndDevicePath.length

\* DevicePathInstance: the nodes before the next node that ends something, and where
\* the next instance begins, 0 for none.  It gives up after 512 nodes, more than a
\* path here has.
DevicePathInstance(p, start) ==
  LET stop == start - 1 + SelectInSeq(SubSeq(p, start, Len(p)), IsDevicePathEndType)
  IN  [nodes |-> SubSeq(p, start, stop - 1), next |-> IF IsDevicePathEnd(p[stop]) THEN 0 ELSE stop + 1]

\* All instances, by repeated calls.
InstancesOf(p) ==
  LET from[start \in 0 .. Len(p)] ==
        IF start = 0 THEN << >>
        ELSE LET i == DevicePathInstance(p, start) IN <<i.nodes>> \o from[i.next]
  IN  from[1]

DevicePathInstanceCount(p) == Len(InstancesOf(p))

-------------------------------------------------------------------------------
(***************************************************************************)
(* What nodes consist of behind their header of type and length: the       *)
(* bytes of each field (inc/efidevp.h, none of whose fields needs padding  *)
(* before it).  Nodes of other kinds are anything.                         *)
(***************************************************************************)
HardwareTypes ==
  [pci |-> [Function |-> 1, Device |-> 1],
   pccard |-> [FunctionNumber |-> 1],
   memmap |-> [MemoryType |-> 4, StartingAddress |-> 8, EndingAddress |-> 8],
   vendor |-> [Guid |-> 16],
   controller |-> [Controller |-> 4]]

AcpiTypes ==
  [acpi |-> [HID |-> 4, UID |-> 4],
   expanded |-> [HID |-> 4, UID |-> 4, CID |-> 4, HidStr |-> 1],
   adr |-> [ADR |-> 4]]

BusTypes ==
  [atapi |-> [PrimarySecondary |-> 1, SlaveMaster |-> 1, Lun |-> 2],
   scsi |-> [Pun |-> 2, Lun |-> 2],
   fibre |-> [Reserved |-> 4, WWN |-> 8, Lun |-> 8],
   fibreex |-> [Reserved |-> 4, WWN |-> 8, Lun |-> 8],
   i1394 |-> [Reserved |-> 4, Guid |-> 8],
   usb |-> [Port |-> 1, Endpoint |-> 1],
   sata |-> [HBAPortNumber |-> 2, PortMultiplierPortNumber |-> 2, Lun |-> 2],
   usbwwid |-> [InterfaceNumber |-> 2, VendorId |-> 2, ProductId |-> 2, SerialNumber |-> 2],
   unit |-> [Lun |-> 1],
   usbclass |-> [VendorId |-> 2, ProductId |-> 2, DeviceClass |-> 1, DeviceSubclass |-> 1,
                 DeviceProtocol |-> 1],
   i2o |-> [Tid |-> 4]]

NetworkTypes ==
  [mac |-> [MacAddress |-> 32, IfType |-> 1],
   ipv4 |-> [LocalIpAddress |-> 4, RemoteIpAddress |-> 4, LocalPort |-> 2, RemotePort |-> 2,
             Protocol |-> 2, StaticIpAddress |-> 1, GatewayIpAddress |-> 4, SubnetMask |-> 4],
   ipv6 |-> [LocalIpAddress |-> 16, RemoteIpAddress |-> 16, LocalPort |-> 2, RemotePort |-> 2,
             Protocol |-> 2, IPAddressOrigin |-> 1, PrefixLength |-> 1, GatewayIpAddress |-> 16],
   uri |-> [Uri |-> 1],
   vlan |-> [VlanId |-> 2],
   infiniband |-> [ResourceFlags |-> 4, PortGid |-> 16, ServiceId |-> 8, TargetPortId |-> 8,
                   DeviceId |-> 8],
   uart |-> [Reserved |-> 4, BaudRate |-> 8, DataBits |-> 1, Parity |-> 1, StopBits |-> 1],
   vendor |-> [Guid |-> 16]]

MediaTypes ==
  [harddrive |-> [PartitionNumber |-> 4, PartitionStart |-> 8, PartitionSize |-> 8,
                  Signature |-> 16, MBRType |-> 1, SignatureType |-> 1],
   cdrom |-> [BootEntry |-> 4, PartitionStart |-> 8, PartitionSize |-> 8],
   vendor |-> [Guid |-> 16],
   file |-> [PathName |-> 2],
   protocol |-> [Protocol |-> 16],
   fwfile |-> [FvFileName |-> 16],
   fwvolume |-> [FvName |-> 16],
   range |-> [Reserved |-> 4, StartingOffset |-> 8, EndingOffset |-> 8]]

BbsTypes == [bbs |-> [DeviceType |-> 2, StatusFlag |-> 2, String |-> 1]]

NodeTypes ==
  [hw |-> HardwareTypes, acpi |-> AcpiTypes, media |-> MediaTypes, bbs |-> BbsTypes,
   msg |-> [sub \in (DOMAIN BusTypes) \union DOMAIN NetworkTypes |->
              IF sub \in DOMAIN BusTypes THEN BusTypes[sub] ELSE NetworkTypes[sub]]]

\* The last field is as long as the text in it is, or data follow that nothing names,
\* or the fields of version 2 of the standard are there or not.
OpenEnded == {"expanded", "usbwwid", "uri", "file", "bbs", "vendor"}
Optional == [ipv4 |-> {"GatewayIpAddress", "SubnetMask"}, ipv6 |-> {"PrefixLength", "GatewayIpAddress"}]

Described(node) == node.type \in DOMAIN NodeTypes /\ node.sub \in DOMAIN NodeTypes[node.type]
BytesOf(fields) == MapThenSumSet(LAMBDA name : fields[name], DOMAIN fields)
LengthOf(type, sub) == EndDevicePath.length + BytesOf(NodeTypes[type][sub])

\* The device of EDD: behind the vendor's GUID, a drive letter.
UnknownVendor(node) == node.sub = "vendor" /\ node.fields.Guid = "UnknownDevice"
Structure(node) ==
  IF UnknownVendor(node) THEN [Guid |-> 16, LegacyDriveLetter |-> 1] ELSE NodeTypes[node.type][node.sub]

LengthsOf(node) ==
  LET fields == Structure(node)
      most == EndDevicePath.length + BytesOf(fields)
  IN  CASE node.sub \in OpenEnded -> {n \in Nat : n >= most}
        [] node.sub \in DOMAIN Optional ->
             {most, most - BytesOf([name \in Optional[node.sub] |-> fields[name]])}
        [] OTHER -> {most}

\* Only what is in the node and its length covers is read of it: the fields a node has
\* are those of its kind.
WellFormed(node) ==
  IF IsDevicePathEndType(node) THEN node \in {EndDevicePath, EndInstanceDevicePath}
  ELSE Described(node) => DOMAIN node.fields \subseteq DOMAIN Structure(node) /\ node.length \in LengthsOf(node)

IsNode(node) ==
  DOMAIN node = {"type", "sub", "length", "fields", "unpacked"} /\ node.length \in Nat

\* A path ends where a node says that all of it does, and its nodes are packed.
ASSUME PathsAssumption ==
  /\ MinAlignment \in {4, 8}
  /\ \A p \in Paths :
       /\ p \in Seq(Range(p)) /\ p # << >> /\ SelectInSeq(p, IsDevicePathEnd) = Len(p)
       /\ \A n \in DOMAIN p : IsNode(p[n]) /\ WellFormed(p[n]) /\ ~p[n].unpacked
  /\ \A name \in Names : name.size \in Nat \ {0, 1}

-------------------------------------------------------------------------------
(***************************************************************************)
(* Building paths.  Every function allocates its result; without memory    *)
(* there is none, and the caller keeps what it had.                        *)
(***************************************************************************)
\* AppendDevicePath: behind every instance of Src1 the whole of Src2, the node that
\* ends it included.
AppendDevicePath(Src1, Src2) ==
  LET all == InstancesOf(Src1)
  IN  FlattenSeq([n \in DOMAIN all |->
        all[n] \o Reachable(Src2)
          \o <<IF n = Len(all) THEN EndDevicePath ELSE EndInstanceDevicePath>>])

PathAllocated(Src1, Src2) ==
  DevicePathSize(Src1) * DevicePathInstanceCount(Src1) + DevicePathSize(Src2)

\* A mutation: the end of the path is left as it is.
ToEndInstance_Not(node) == node
ToEndInstance(node) == [node EXCEPT !.sub = "instance"]

AppendDevicePathInstance(Src, Instance) ==
  LET src == Reachable(Src)
  IN  Front(src) \o <<ToEndInstance(Last(src))>> \o Reachable(Instance)

\* The size of the whole instance is allocated and copied, and the end put behind its
\* first node.
LibDuplicateDevicePathInstance(p) ==
  <<DevicePathInstance(p, 1).nodes[1], EndDevicePath>>

Calling(of, with) ==
  /\ ~overrun /\ path_calls < MaxPathCalls /\ path_calls' = path_calls + 1
  /\ path_call' = <<of, with>>

append_path(Src2) ==
  /\ Calling("extend", InstancesOf(Src2))
  /\ path' = AppendDevicePath(path, Src2)
  /\ overrun' = (Total(path') > PathAllocated(path, Src2))
  /\ UNCHANGED path_text

append_DevicePath == \E Src2 \in Paths : append_path(Src2)

\* A node is given an end and appended as a path.
append_node == \E p \in Paths : ~IsDevicePathEndType(p[1]) /\ append_path(<<p[1], EndDevicePath>>)

SIZE_OF_FILEPATH == 4
FileNode(name) == NodeOf("media", "file", SIZE_OF_FILEPATH + name.size, [PathName |-> name.name])

FileDevicePath == \E name \in Names : append_path(<<FileNode(name), EndDevicePath>>)

append_instance ==
  \E Instance \in Paths :
    /\ Calling("add", InstancesOf(Instance))
    /\ path' = AppendDevicePathInstance(path, Instance)
    /\ UNCHANGED <<overrun, path_text>>

duplicate ==
  /\ \/ Calling("copy", << >>) /\ path' = Reachable(path)
     \/ /\ InstancesOf(path)[1] # << >> /\ Calling("first", << >>)
        /\ path' = LibDuplicateDevicePathInstance(path)
  /\ UNCHANGED <<overrun, path_text>>

-------------------------------------------------------------------------------
(***************************************************************************)
(* Printing them.                                                          *)
(***************************************************************************)
\* UnpackDevicePath: lengths are rounded up, and types marked.
Rounded(n) == ((n + MinAlignment - 1) \div MinAlignment) * MinAlignment
Unpacked(node) == [node EXCEPT !.length = Rounded(@), !.unpacked = TRUE]
UnpackDevicePath(p) == LET nodes == Reachable(p) IN [n \in DOMAIN nodes |-> Unpacked(nodes[n])]

\* The nodes whose fields are shown as they are: the name, and the fields.
PlainHardware ==
  <<"hw", "pci">> :> <<"Pci", "Device", "Function">> @@
  <<"hw", "pccard">> :> <<"Pccard", "FunctionNumber">> @@
  <<"hw", "memmap">> :> <<"MemMap", "MemoryType", "StartingAddress", "EndingAddress">> @@
  <<"hw", "controller">> :> <<"Ctrl", "Controller">>

PlainBuses ==
  <<"msg", "atapi">> :> <<"Ata", "PrimarySecondary", "SlaveMaster">> @@
  <<"msg", "scsi">> :> <<"Scsi", "Pun", "Lun">> @@
  <<"msg", "fibre">> :> <<"Fibre", "WWN", "Lun">> @@
  <<"msg", "i1394">> :> <<"I1394", "Guid">> @@
  <<"msg", "usb">> :> <<"Usb", "Port", "Endpoint">> @@
  <<"msg", "i2o">> :> <<"I2O", "Tid">> @@
  <<"msg", "sata">> :> <<"Sata", "HBAPortNumber", "PortMultiplierPortNumber", "Lun">>

PlainNetworks ==
  <<"msg", "uri">> :> <<"Uri", "Uri">> @@
  <<"msg", "infiniband">> :> <<"Infiniband", "ResourceFlags", "PortGid", "ServiceId",
                              "TargetPortId", "DeviceId">>

PlainMedia ==
  <<"media", "cdrom">> :> <<"CDROM", "BootEntry">> @@
  <<"media", "file">> :> <<"", "PathName">> @@
  <<"media", "protocol">> :> <<"", "Protocol">>

Plain == PlainHardware @@ PlainBuses @@ PlainNetworks @@ PlainMedia

Fields(node, names) == [n \in DOMAIN names |-> node.fields[names[n]]]
Known(table, x, other) == IF x \in DOMAIN table THEN table[x] ELSE other
NonZero(x) == IF x = 0 THEN << >> ELSE <<x>>

\* Devices of PNP numbers that have a name of their own; an HID here is the number.
PnpNames == "301" :> "Keyboard" @@ "401" :> "ParallelPort" @@ "501" :> "Serial" @@
            "604" :> "Floppy" @@ "a03" :> "PciRoot" @@ "a08" :> "PcieRoot"

_DevPathAcpi(f) ==
  IF f.HID \in DOMAIN PnpNames THEN <<PnpNames[f.HID], f.UID>> ELSE <<"Acpi", f.HID>> \o NonZero(f.UID)

\* The vendor's data are not shown, but for EDD's drive letter.
_DevPathVendor(type, f) ==
  <<Known("hw" :> "VenHw" @@ "msg" :> "VenMsg" @@ "media" :> "VenMedia", type, "Ven?"), f.Guid>>
    \o (IF f.Guid = "UnknownDevice" THEN <<f.LegacyDriveLetter>> ELSE << >>)

\* How many bytes of the address are shown depends on the node's length.
_DevPathMacAddr(f, length) ==
  <<"Mac", f.MacAddress, IF f.IfType \in {0, 1} THEN 6 ELSE length - 5>> \o NonZero(f.IfType)

\* Gateway and netmask are shown of nodes of the structure's size, which is even, as the
\* ports in it are words: IPv4's is a byte more than its fields.
Even(n) == n + (n % 2)
IPv4Length == Even(LengthOf("msg", "ipv4"))
IPv6Length == Even(LengthOf("msg", "ipv6"))
Protocol(p) == IF p = 6 THEN "TCP" ELSE IF p = 17 THEN "UDP" ELSE p

_DevPathIPv4(f, length) ==
  LET full == length = IPv4Length
      more == full /\ (f.GatewayIpAddress # 0 \/ f.SubnetMask # 0)
  IN  <<"IPv4", f.RemoteIpAddress, Protocol(f.Protocol), IF f.StaticIpAddress THEN "Static" ELSE "DHCP">>
        \o (IF f.LocalIpAddress # 0 \/ more THEN <<f.LocalIpAddress>> ELSE << >>)
        \o (IF more THEN <<f.GatewayIpAddress>> \o NonZero(f.SubnetMask) ELSE << >>)

\* Of the prefix's length, the address is shown.
_DevPathIPv6(f, length) ==
  <<"IPv6", f.RemoteIpAddress, Protocol(f.Protocol),
    Known(0 :> "Static" @@ 1 :> "StatelessAutoConfigure", f.IPAddressOrigin,
          "StatefulAutoConfigure"), f.LocalIpAddress>>
    \o (IF length = IPv6Length THEN <<f.GatewayIpAddress, "address">> ELSE << >>)

Or(x, zero) == IF x = 0 THEN zero ELSE x
_DevPathUart(f) ==
  <<"Uart", Or(f.BaudRate, "DEFAULT"), Or(f.DataBits, "DEFAULT"),
    Known([p \in 0 .. 5 |-> <<"D", "N", "E", "O", "M", "S">>[p + 1]], f.Parity, "x"),
    Known([s \in 0 .. 3 |-> <<"D", "1", "1.5", "2">>[s + 1]], f.StopBits, "x")>>

_DevPathHardDrive(f) ==
  <<"HD", f.PartitionNumber>>
    \o (CASE f.SignatureType = 1 -> <<"MBR", f.Signature>>
          [] f.SignatureType = 2 -> <<"GPT", f.Signature>>
          [] OTHER -> <<f.SignatureType, 0>>)

\* Bss's types are names; others are "?".
BssTypes == {"Floppy", "Harddrive", "CDROM", "PCMCIA", "Usb", "Net"}
_DevPathBssBss(f) == <<"Bss", IF f.DeviceType \in BssTypes THEN f.DeviceType ELSE "?", f.String>>

\* The type is compared with the mark of an unpacked node on it, so no type has the
\* name it has; as many bytes as the node is long are shown, from behind its header.
UnknownNames == "hw" :> "HardwarePath" @@ "acpi" :> "AcpiPath" @@ "msg" :> "Msg" @@
                "media" :> "MediaPath" @@ "bbs" :> "BbsPath"
_DevPathNodeUnknown(node) ==
  (IF ~node.unpacked /\ node.type \in DOMAIN UnknownNames THEN <<UnknownNames[node.type]>>
   ELSE <<"Path", node.type>>) \o <<node.sub, node.length>>

NodeText(node) ==
  LET of == <<node.type, node.sub>>
      f == node.fields
  IN  CASE of \in DOMAIN Plain -> <<Plain[of][1]>> \o Fields(node, Tail(Plain[of]))
        [] of = <<"acpi", "acpi">> -> _DevPathAcpi(f)
        [] node.sub = "vendor" /\ node.type \in {"hw", "msg", "media"} ->
             _DevPathVendor(node.type, f)
        [] of = <<"msg", "mac">> -> _DevPathMacAddr(f, node.length)
        [] of = <<"msg", "ipv4">> -> _DevPathIPv4(f, node.length)
        [] of = <<"msg", "ipv6">> -> _DevPathIPv6(f, node.length)
        [] of = <<"msg", "uart">> -> _DevPathUart(f)
        [] of = <<"media", "harddrive">> -> _DevPathHardDrive(f)
        [] of = <<"bbs", "bbs">> -> _DevPathBssBss(f)
        [] OTHER -> _DevPathNodeUnknown(node)

\* DevicePathToStr: the separator goes before every node but the first, where there is
\* a text already, and the comma alone for the end of an instance.
DevicePathToStr(p) ==
  FoldLeft(LAMBDA str, node :
             IF IsDevicePathEndType(node) THEN Append(str, ",")
             ELSE (IF str # << >> THEN Append(str, "/") ELSE str) \o <<NodeText(node)>>,
           << >>, Front(UnpackDevicePath(p)))

print_path ==
  /\ Calling("show", << >>)
  /\ path_text' = DevicePathToStr(path)
  /\ UNCHANGED <<path, overrun>>

-------------------------------------------------------------------------------
PathsInit == path \in Paths /\ overrun = FALSE /\ path_text = << >>
             /\ path_call = <<"none", << >>>> /\ path_calls = 0
PathsNext == append_DevicePath \/ append_node \/ FileDevicePath \/ append_instance
             \/ duplicate \/ print_path
PathsSpec == PathsInit /\ [][PathsNext]_path_vars

-------------------------------------------------------------------------------
\* What a node shows when it is printed as a caller has it, but for what depends on
\* its length: an IPv4 node that has a gateway shows it, and of an address of another
\* kind than Ethernet's, and of unknown nodes, what the rounded length says.  (An
\* alignment of 8 rounds IPv4's 27 bytes past its structure's 28, and IPv6's 60 too:
\* there no gateway is shown.)
ShownOf(node) ==
  CASE <<node.type, node.sub>> = <<"msg", "ipv4">> ->
         NodeText([node EXCEPT !.length = IF @ = LengthOf("msg", "ipv4") /\ MinAlignment = 4
                                          THEN IPv4Length ELSE 0])
    [] <<node.type, node.sub>> = <<"msg", "ipv6">> /\ MinAlignment = 8 ->
         NodeText([node EXCEPT !.length = 0])
    [] /\ <<node.type, node.sub>> \notin {<<"msg", "ipv4">>, <<"msg", "ipv6">>}
       /\ <<node.type, node.sub>> = <<"msg", "mac">> \/ NodeText(node) = _DevPathNodeUnknown(node) ->
         NodeText(Unpacked(node))
    [] OTHER -> NodeText(node)

PiecesOf ==
  {InstancesOf(p) : p \in Paths}
    \union {<<<<p[1]>>>> : p \in {q \in Paths : ~IsDevicePathEndType(q[1])}}
    \union {<<<<FileNode(name)>>>> : name \in Names}

List == INSTANCE PathList WITH
          Pieces <- PiecesOf, NodeText <- ShownOf,
          instances <- InstancesOf(path), spoilt <- overrun, shown <- path_text,
          called <- path_call

\* The bytes of a path stay the list of instances a caller built, whatever the order
\* of the calls: every instance survives being duplicated, extended while it is the
\* only one, and having others put behind it, within what was allocated; and the
\* text names every node of every instance in its order.  (AppendDevicePath's
\* comment promises that every instance is extended: of several, the first is, the
\* others are behind the end, and a longer Src2 is written past the allocation.)
PathsSurvive == List!Spec
===============================================================================

------------------------------- MODULE EfiTables -------------------------------
(***************************************************************************)
(* Tables that gnu-efi reads: those of a disk and of the firmware          *)
(* (lib/misc.c, lib/smbios.c, lib/crc.c), and its own, of names and        *)
(* characters (lib/guid.c, lib/error.c, lib/boxdraw.c), with the ports of  *)
(* a device (lib/hw.c).  Each is looked at by one call.                    *)
(***************************************************************************)
EXTENDS EfiStrings

CONSTANTS
  Partitions,           \* [os, start, size], and how many records an MBR has
  MAX_MBR_PARTITIONS,
  Lbas,                 \* number of values of a block's 32-bit address
  LastBlocks, MIN_MBR_DEVICE_SIZE, MBR_ERRATA_PAD,
  UiStrings,            \* strings for users: one list of [LangCode, UiString] for each type
  SmbiosRecords,        \* [Type, Length, SerialNumber, Uuid, strings], of as many as
  MaxRecords,           \* this, where one of this length has all fields
  TYPE1_LENGTH,
  Flips,                \* sets of <<byte, bit>> that change in a table's header
  TableSizes,
  Registers,            \* bytes of a port of 32 bits
  Uninitialised

-------------------------------------------------------------------------------
(***************************************************************************)
(* ValidMBR                                                                *)
(***************************************************************************)
UsedPartition(p) == p.os # 0 /\ p.size # 0
EndingLBA(p) == (p.start + p.size - 1) % Lbas

\* A disk may say it is smaller than it is, if it is not very small.
OnDisk(p, LastBlock) ==
  \/ EndingLBA(p) <= LastBlock
  \/ LastBlock >= MIN_MBR_DEVICE_SIZE /\ EndingLBA(p) <= LastBlock + MBR_ERRATA_PAD

\* The beginning or the end of a later region in an earlier one.
Overlaps(p, q) == \E lba \in {q.start, EndingLBA(q)} : lba >= p.start /\ lba <= EndingLBA(p)

ValidMBR(signed, mbr, LastBlock) ==
  LET used == {i \in DOMAIN mbr : UsedPartition(mbr[i])}
  IN  /\ signed /\ used # {}
      /\ \A i \in used : OnDisk(mbr[i], LastBlock) /\ \A j \in used : j > i => ~Overlaps(mbr[i], mbr[j])

-------------------------------------------------------------------------------
(***************************************************************************)
(* Tables and strings of the firmware.                                     *)
(***************************************************************************)
\* The strings of one type after another, each list ended by an entry without language.
UiEntries(lists) == FlattenSeq([t \in DOMAIN lists |-> lists[t] \o <<[LangCode |-> "", UiString |-> ""]>>])

\* As many ends are passed as there are types before this one.  Of the type's strings
\* only the first is looked at: the search does not go on to the next.
LibGetUiString(lists, StringType, LangCode) ==
  LET Array == UiEntries(lists)
      from == CHOOSE n \in DOMAIN Array :
                /\ Cardinality({k \in 1 .. n - 1 : Array[k].LangCode = ""}) = StringType - 1
                /\ n = 1 \/ Array[n - 1].LangCode = ""
  IN  CASE Array[from].LangCode = "" -> "device path"
        [] Array[from].LangCode = LangCode -> Array[from].UiString
        [] OTHER -> "hangs"

\* The table with a GUID, or none.
LibGetSystemConfigurationTable(tables, TableGuid) ==
  LET here == {n \in DOMAIN tables : tables[n].VendorGuid = TableGuid}
  IN  IF here = {} THEN "NOT_FOUND" ELSE tables[CHOOSE n \in here : \A k \in here : n <= k].VendorTable

\* A record's bytes: its fields, then its strings, each ended by a zero, and one more; two
\* if there are none.
SmbiosBytes(record) ==
  <<record.Type, record.Length, record.SerialNumber, record.Uuid>>
    \o [k \in 1 .. record.Length - 4 |-> 7]
    \o (IF record.strings = << >> THEN <<0>> ELSE FlattenSeq([k \in DOMAIN record.strings |->
                                                         record.strings[k] \o <<0>>])) \o <<0>>

ZeroFrom(m, s) == CHOOSE n \in s .. Len(m) : m[n] = 0 /\ \A k \in s .. n - 1 : m[k] # 0

\* The string with a number, or where the next record begins.
LibGetSmbiosString(m, Raw, StringNumber) ==
  LET look[Index \in 1 .. Len(m), String \in 1 .. Len(m)] ==
        IF Index > StringNumber THEN [at |-> 0, Raw |-> Raw]
        ELSE IF Index = StringNumber THEN [at |-> String, Raw |-> Raw]
        ELSE LET next_string == ZeroFrom(m, String) + 1
             IN  IF m[next_string] = 0 THEN [at |-> 0, Raw |-> next_string + 1]
                 ELSE look[Index + 1, next_string]
  IN  look[1, Raw + m[Raw + 1]]
AllStrings == 65535   \* -1 of 16 bits

\* A record of type 1 without these fields is looked at as often as the table is long.
LibGetSmbiosSystemGuidAndSerialNumber(m) ==
  LET seek[Raw \in 1 .. Len(m) + 1] ==
        IF Raw > Len(m) THEN [Uuid |-> 0, serial |-> 0]
        ELSE IF m[Raw] # 1 THEN seek[LibGetSmbiosString(m, Raw, AllStrings).Raw]
        ELSE IF m[Raw + 1] < TYPE1_LENGTH THEN [Uuid |-> 0, serial |-> 0]
        ELSE [Uuid |-> m[Raw + 3], serial |-> LibGetSmbiosString(m, Raw, m[Raw + 2]).at]
  IN  seek[1]

-------------------------------------------------------------------------------
(***************************************************************************)
(* CalculateCrc: words are the sets of their bits that are 1, and bytes    *)
(* too.  The table holds what eight steps make of each byte.               *)
(***************************************************************************)
Xor(a, b) == (a \ b) \union (b \ a)
Shifted(c, n) == {bit - n : bit \in {b \in c : b >= n}}
Polynomial == {0, 1, 2, 4, 5, 7, 8, 10, 11, 12, 16, 22, 23, 26}
Reversed == {31 - bit : bit \in Polynomial}
CRCTable ==
  [i \in SUBSET (0 .. 7) |->
     FoldLeft(LAMBDA c, k : IF 0 \in c THEN Xor(Shifted(c, 1), Reversed) ELSE Shifted(c, 1), i,
              <<1, 2, 3, 4, 5, 6, 7, 8>>)]
CalculateCrc(bytes) ==
  Xor(0 .. 31, FoldLeft(LAMBDA Crc, byte : Xor(Shifted(Crc, 8), CRCTable[Xor(Crc \intersect (0 .. 7), byte)]),
                        0 .. 31, bytes))

\* The bytes of the header that hold the CRC, and the word in them.
HeaderSize == 24
CrcBytes == 17 .. 20
Crc32(Hdr) == UNION {{8 * (n - 17) + bit : bit \in Hdr[n]} : n \in CrcBytes}
WithCrc(Hdr, crc) ==
  [n \in DOMAIN Hdr |-> IF n \in CrcBytes THEN Shifted(crc, 8 * (n - 17)) \intersect (0 .. 7) ELSE Hdr[n]]

SetCrcAltSize(Size, Hdr) ==
  WithCrc(Hdr, CalculateCrc(SubSeq(WithCrc(Hdr, {}), 1, Size)))
CheckCrcAltSize(MaxSize, Size, Hdr) ==
  /\ Size # 0 /\ (MaxSize = 0 \/ Size <= MaxSize)
  /\ Crc32(Hdr) = CalculateCrc(SubSeq(WithCrc(Hdr, {}), 1, Size))
SetCrc(Hdr) == SetCrcAltSize(HeaderSize, Hdr)
CheckCrc(MaxSize, Hdr) == CheckCrcAltSize(MaxSize, HeaderSize, Hdr)

Header == [n \in 1 .. HeaderSize |-> {bit \in 0 .. 7 : (n + bit) % 3 = 0}]
Flipped(Hdr, flip) == [n \in DOMAIN Hdr |-> Xor(Hdr[n], {f[2] : f \in {g \in flip : g[1] = n}})]

-------------------------------------------------------------------------------
(***************************************************************************)
(* The library's own tables: GUIDs are known by their number in the table, *)
(* or are the bytes they are dumped from.                                  *)
(***************************************************************************)
KnownGuids ==
  <<"G0", "EfiVar", "VarStore", "DevPath", "LdImg", "TxtIn", "TxtOut", "BlkIo", "BlkIo2",
    "DskIo", "DskIo2", "Fs", "LdFile", "DevIo", "CName", "CName2", "FileInfo", "FsInfo",
    "FsVolInfo", "Unicode", "LegacyBoot", "SerIo", "VgaClass", "Net", "Nii", "Pxe", "PxeCb",
    "TxtOutSplit", "ErrOutSplit", "TxtInSplit", "PcAnsi", "Vt100", "Vt100Plus", "VtUtf8",
    "UnknownDev", "ESP", "GPT MBR", "ShellInt", "SEnv", "ShellProtId", "ShellDevPathMap",
    "ShellAlias">>

\* ValueToHex's digits, as many as the format asks for.
HexDigits(v, n) ==
  [k \in 1 .. n |-> LET d == (v \div 16 ^ (n - k)) % 16 IN IF d > 9 THEN d + 55 ELSE d + ZERO]

\* The first fields of the dump are as wide as the pieces they are taken from.  A name is
\* a text of one piece.
GuidToString(guid) ==
  IF Len(guid) = 1 THEN <<KnownGuids[guid[1]]>>
  ELSE HexDigits(guid[1], 4) \o <<TO>> \o HexDigits(guid[2], 2) \o <<TO>> \o HexDigits(guid[3], 2)

\* An error has the highest bit of its word.
EFIERR(n) == 2 ^ (UintnBits - 1) + n
ErrorNames ==
  <<<<1, "Load Error">>, <<2, "Invalid Parameter">>, <<3, "Unsupported">>,
    <<4, "Bad Buffer Size">>, <<5, "Buffer Too Small">>, <<6, "Not Ready">>,
    <<7, "Device Error">>, <<8, "Write Protected">>, <<9, "Out of Resources">>,
    <<10, "Volume Corrupt">>, <<11, "Volume Full">>, <<12, "No Media">>,
    <<13, "Media changed">>, <<14, "Not Found">>, <<15, "Access Denied">>,
    <<16, "No Response">>, <<17, "No mapping">>, <<18, "Time out">>, <<19, "Not started">>,
    <<20, "Already started">>, <<21, "Aborted">>, <<22, "ICMP Error">>, <<23, "TFTP Error">>,
    <<24, "Protocol Error">>, <<25, "Incompatible Version">>,
    <<26, "Security Policy Violation">>, <<27, "CRC Error">>, <<28, "End of Media">>,
    <<31, "End of File">>, <<32, "Invalid Languages">>, <<33, "Compromised Data">>>>
ErrorCodeTable ==
  <<<<0, "Success">>>> \o [n \in DOMAIN ErrorNames |-> <<EFIERR(ErrorNames[n][1]), ErrorNames[n][2]>>]
    \o <<<<1, "Warning Unknown Glyph">>, <<2, "Warning Delete Failure">>,
         <<3, "Warning Write Failure">>, <<4, "Warning Buffer Too Small">>>>
\* Another status is printed with "%X", and that takes half the word.
StatusToString(Status) ==
  LET here == {n \in DOMAIN ErrorCodeTable : ErrorCodeTable[n][1] = Status}
  IN  IF here = {} THEN HexDigits(Status % 2 ^ (UintnBits \div 2), UintnBits \div 8)
      ELSE <<ErrorCodeTable[CHOOSE n \in here : \A k \in here : n <= k][2]>>

\* A character of the screen, that of a PC's terminal and one of ASCII.
UnicodeToPcAnsiOrAscii ==
  <<<<9472, 196, 45>>, <<9474, 179, 124>>, <<9484, 218, 47>>, <<9488, 191, 92>>,
    <<9492, 192, 92>>, <<9496, 217, 47>>, <<9500, 195, 124>>, <<9508, 180, 124>>,
    <<9516, 194, 43>>, <<9524, 193, 43>>, <<9532, 197, 43>>, <<9552, 205, 45>>,
    <<9553, 186, 124>>, <<9554, 213, 47>>, <<9555, 214, 47>>, <<9556, 201, 47>>,
    <<9557, 184, 92>>, <<9558, 183, 92>>, <<9559, 187, 92>>, <<9560, 212, 92>>,
    <<9561, 211, 92>>, <<9562, 200, 92>>, <<9563, 190, 47>>, <<9564, 189, 47>>,
    <<9565, 188, 47>>, <<9566, 198, 124>>, <<9567, 199, 124>>, <<9568, 204, 124>>,
    <<9569, 181, 124>>, <<9570, 182, 124>>, <<9571, 185, 124>>, <<9572, 209, 43>>,
    <<9573, 210, 43>>, <<9574, 203, 43>>, <<9575, 207, 43>>, <<9576, 208, 43>>,
    <<9577, 202, 43>>, <<9578, 216, 43>>, <<9579, 215, 43>>, <<9580, 206, 43>>,
    <<9608, 219, 42>>, <<9617, 176, 43>>, <<9650, 30, 94>>, <<9658, 16, 62>>,
    <<9660, 31, 118>>, <<9668, 17, 60>>, <<8593, 24, 94>>, <<8595, 25, 118>>>>
LibIsValidTextGraphics(Graphic) ==
  LET here == {n \in DOMAIN UnicodeToPcAnsiOrAscii : UnicodeToPcAnsiOrAscii[n][1] = Graphic}
  IN  IF Graphic \div 256 \notin {37, 33} \/ here = {} THEN << >>
      ELSE Tail(UnicodeToPcAnsiOrAscii[CHOOSE n \in here : \A k \in here : n <= k])
IsValidAscii(Ascii) == Ascii >= 32 /\ Ascii <= 127
IsValidEfiCntlChar(c) == c \in {0, 8, 10, 13}

-------------------------------------------------------------------------------
(***************************************************************************)
(* A device found by its path, its ports, and the arguments of a program.  *)
(***************************************************************************)
\* If the path has the protocol, the driver is there already.
InitializeGlobalIoDevice(has_protocol, has_io, opens) ==
  CASE has_protocol -> "LOAD_ERROR"
    [] ~has_protocol /\ ~has_io -> "NOT_FOUND"
    [] ~has_protocol /\ has_io -> IF opens THEN "SUCCESS" ELSE "UNSUPPORTED"

\* Of the word that is returned only the bytes that were read are set, and none after an
\* error, which is asserted not to happen; configuration space is like the ports.
ReadPort(port, Width, fails) ==
  [k \in 1 .. 4 |-> IF k <= Width /\ ~fails THEN port[k] ELSE Uninitialised]
WritePort(port, Width, Data, fails) ==
  [port |-> [k \in 1 .. 4 |-> IF k <= Width /\ ~fails THEN Data[k] ELSE port[k]], out |-> Data]
ReadPciConfig(register, Width, fails) ==
  [k \in 1 .. 4 |-> IF k <= Width /\ ~fails THEN register[k] ELSE Uninitialised]
WritePciConfig(register, Width, Data, fails) ==
  [port |-> [k \in 1 .. 4 |-> IF k <= Width /\ ~fails THEN Data[k] ELSE register[k]], out |-> Data]

\* The shell's own list comes first, then the older shell's, then what the image was
\* loaded with.
GetShellArgcArgv(parameters, interface, line) ==
  CASE parameters # << >> -> parameters
    [] parameters = << >> /\ interface # << >> -> interface
    [] parameters = << >> /\ interface = << >> -> GetShellArgcArgvFromLoadedImage(line)

-------------------------------------------------------------------------------
MBRs == [1 .. MAX_MBR_PARTITIONS -> Partitions]
Guids == {<<n>> : n \in DOMAIN KnownGuids} \union [1 .. 3 -> {0, 10, 255}]
UnknownStatuses == {5, 29, 255, EFIERR(0), EFIERR(5), EFIERR(29), EFIERR(255)}

look ==
  \/ \E mbr \in MBRs, signed \in BOOLEAN, last \in LastBlocks :
       Answers("ValidMBR", [mbr |-> mbr, signed |-> signed, last |-> last], ValidMBR(signed, mbr, last))
  \/ \E lists \in UiStrings, type \in 1 .. 2, lang \in {"en", "de"} :
       Answers("LibGetUiString", [lists |-> lists, type |-> type, lang |-> lang],
               LibGetUiString(lists, type, lang))
  \/ \E records \in BoundedSeq(SmbiosRecords, MaxRecords) :
       Answers("smbios", records,
               LibGetSmbiosSystemGuidAndSerialNumber(FlattenSeq([n \in DOMAIN records |->
                                                                   SmbiosBytes(records[n])])))
  \/ \E tables \in BoundedSeq([VendorGuid : {1, 2}, VendorTable : {"t", "u"}], 2) :
       Answers("table", tables, LibGetSystemConfigurationTable(tables, 1))
  \/ \E flip \in Flips, Size, MaxSize \in TableSizes :
       \/ Answers("CheckCrc", [flip |-> flip, Size |-> Size, MaxSize |-> MaxSize],
                  CheckCrcAltSize(MaxSize, Size, Flipped(SetCrcAltSize(Size, Header), flip)))
       \/ /\ Size = HeaderSize
          /\ Answers("CheckCrc", [flip |-> flip, Size |-> Size, MaxSize |-> MaxSize],
                     CheckCrc(MaxSize, Flipped(SetCrc(Header), flip)))
  \/ \E guid \in Guids : Answers("GuidToString", guid, GuidToString(guid))
  \/ \E Status \in UnknownStatuses \union {ErrorCodeTable[n][1] : n \in DOMAIN ErrorCodeTable} :
       Answers("StatusToString", Status, StatusToString(Status))
  \/ \E c \in (32 .. 127) \union (8448 .. 8703) \union (9472 .. 9727) :
       Answers("LibIsValidTextGraphics", c, LibIsValidTextGraphics(c))
  \/ \E parameters, interface \in {<< >>, <<<<97>>>>, <<<<98>>, <<97>>>>}, line \in CommandLines :
       Answers("GetShellArgcArgv_any", [given |-> <<parameters, interface>>, line |-> line],
               GetShellArgcArgv(parameters, interface, line))

reach ==
  \/ \E protocol, io, opens \in BOOLEAN :
       Answers("InitializeGlobalIoDevice", <<protocol, io, opens>>,
               InitializeGlobalIoDevice(protocol, io, opens))
  \/ \E port, Data \in Registers, Width \in {1, 2, 4}, fails \in BOOLEAN :
       LET written == WritePort(port, Width, Data, fails)
           configured == WritePciConfig(port, Width, Data, fails)
           in == [port |-> port, Data |-> Data, Width |-> Width, fails |-> fails]
       IN  \/ Answers("port", in, ReadPort(written.port, Width, fails))
           \/ Answers("port", in, ReadPciConfig(configured.port, Width, fails))

-------------------------------------------------------------------------------
\* The blocks of a partition, without wrapping around.
Blocks(p) == p.start .. p.start + p.size - 1

\* What a table says is found, and nothing else.  A disk is partitioned if it is
\* signed and has regions, all of them on the disk and no two of them overlapping:
\* but a region that begins before an earlier one of the table and ends behind it is
\* let through.  A string for users is the one of its type and language, if that is
\* the first of its type: else the search does not end.  The system's GUID and serial
\* number are those of the first record of type 1, if it is of a version that has
\* them.  A header whose bits have changed, as far as they are covered, in one or two
\* places or in one of at most 32 bits, is refused.  A GUID, a status that is known and
\* a character are what their texts say; a status that is not known is one of those
\* that have its lower half.  A port keeps what was written, as wide as it was written.
LookupsAgree ==
  LET in == answer.in
      out == answer.out
  IN  CASE answer.of = "ValidMBR" ->
             LET used == {n \in DOMAIN in.mbr : UsedPartition(in.mbr[n])}
                 p == in.mbr
             IN  (\A n \in used : p[n].start + p[n].size <= Lbas) =>
                   (out <=> /\ in.signed /\ used # {}
                            /\ \A n \in used : OnDisk(p[n], in.last)
                            /\ \A n, k \in used : n < k =>
                                 \/ Blocks(p[n]) \intersect Blocks(p[k]) = {}
                                 \/ /\ p[k].start < p[n].start
                                    /\ p[k].start + p[k].size > p[n].start + p[n].size)
        [] answer.of = "LibGetUiString" ->
             LET strings == in.lists[in.type]
             IN  out = IF strings = << >> THEN "device path"
                       ELSE IF strings[1].LangCode = in.lang THEN strings[1].UiString ELSE "hangs"
        [] answer.of = "smbios" ->
             LET ones == {n \in DOMAIN in : in[n].Type = 1}
                 first == in[CHOOSE n \in ones : \A k \in ones : n <= k]
             IN  IF ones = {} THEN out = [Uuid |-> 0, serial |-> 0]
                 ELSE IF first.Length < TYPE1_LENGTH THEN out = [Uuid |-> 0, serial |-> 0]
                 ELSE /\ out.Uuid = first.Uuid
                      /\ (out.serial # 0) = (first.SerialNumber \in DOMAIN first.strings
                                              \/ (first.SerialNumber = 1 /\ first.strings = << >>))
        [] answer.of = "table" ->
             out = IF \E n \in DOMAIN in : in[n].VendorGuid = 1
                   THEN SelectSeq(in, LAMBDA t : t.VendorGuid = 1)[1].VendorTable ELSE "NOT_FOUND"
        [] answer.of = "CheckCrc" ->
             out <=> /\ in.Size # 0 /\ (in.MaxSize = 0 \/ in.Size <= in.MaxSize)
                     /\ \A f \in in.flip : f[1] > in.Size /\ f[1] \notin CrcBytes
        [] answer.of = "GuidToString" -> \A g \in Guids : GuidToString(g) = out => g = in
        [] answer.of = "StatusToString" ->
             \A other \in UnknownStatuses \union {ErrorCodeTable[n][1] : n \in DOMAIN ErrorCodeTable} :
               StatusToString(other) = out =>
                 \/ other = in
                 \/ (other - in) % 2 ^ (UintnBits \div 2) = 0 /\ other >= 5 /\ in >= 5
        [] answer.of = "LibIsValidTextGraphics" ->
             out # << >> =>
               /\ ~IsValidAscii(in) /\ IsValidAscii(out[2]) /\ ~IsValidEfiCntlChar(out[1])
               /\ \A n \in DOMAIN UnicodeToPcAnsiOrAscii :
                    UnicodeToPcAnsiOrAscii[n][2] = out[1] => UnicodeToPcAnsiOrAscii[n][1] = in
        [] answer.of = "GetShellArgcArgv_any" ->
             \/ \E n \in 1 .. 2 : out = in.given[n] /\ out # << >>
             \/ in.given = <<<< >>, << >>>> /\ out = GetShellArgcArgvFromLoadedImage(in.line)
        [] answer.of = "InitializeGlobalIoDevice" ->
             out = "SUCCESS" <=> ~in[1] /\ in[2] /\ in[3]
        [] answer.of = "port" ->
             \A k \in 1 .. 4 : out[k] = IF k <= in.Width /\ ~in.fails THEN in.Data[k] ELSE Uninitialised
        [] OTHER -> TRUE
===============================================================================

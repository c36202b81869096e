----------------------------- MODULE EfiSimpleRead -----------------------------
(***************************************************************************)
(* gnu-efi's simple read files (lib/sread.c): OpenSimpleReadFile takes the *)
(* file from a copy the caller has, from a file system, opening one node   *)
(* of the path after the other, or from a LoadFile protocol; then it is    *)
(* read and closed.  Any call of the firmware may be refused.              *)
(***************************************************************************)
EXTENDS Integers, Sequences, FiniteSets

CONSTANTS
  FilePaths,         \* paths: sequences of "device" and "file" nodes
  SourceSizes,       \* sizes of the file where it is in memory
  MaxUintn,          \* the largest UINTN
  MaxFileRefusals,   \* bound: calls and allocations that are refused
  MaxReads,          \* bound: calls of ReadSimpleReadFile
  Nothing

ASSUME SimpleReadAssumption ==
  /\ MaxUintn \in Nat /\ SourceSizes \subseteq 0 .. MaxUintn /\ Nothing \notin Nat
  /\ FilePaths \subseteq Seq({"device", "file"})

VARIABLES
  asked_path,    \* the nodes of the path the caller passed
  fs, load,      \* how many of its first nodes name the device with a file system
                 \* and with LoadFile; Nothing if there is none
  source,        \* the caller has a copy of the file: its size, or Nothing
  rpc,           \* the next step
  FilePath,      \* nodes of the path that *FilePath has been moved over
  at,            \* FilePathNode: nodes of the path walked
  FileHandle,    \* the file open, named by the nodes that lead to it; or Nothing
  ReadStatus,    \* Status
  FHand,         \* the SIMPLE_READ_HANDLE, or Nothing
  files,         \* history: files open
  blocks,        \* history: pool memory allocated: "handle", "source", "path"
  wrong,         \* history: something was closed or freed that was not there
  last,          \* history: the last read of a copy: its offset, what was asked
                 \* for, and what was copied
  file_refusals, reads

read_vars == <<asked_path, fs, load, source, rpc, FilePath, at, FileHandle, ReadStatus,
               FHand, files, blocks, wrong, last, file_refusals, reads>>

SimpleReadInit ==
  /\ asked_path \in FilePaths
  /\ fs \in {n \in 1 .. Len(asked_path) : \A k \in 1 .. n : asked_path[k] = "device"} \union {Nothing}
  /\ load \in 1 .. Len(asked_path) \union {Nothing}
  /\ source \in SourceSizes \union {Nothing}
  /\ rpc = "allocate" /\ FilePath = 0 /\ at = 0 /\ FileHandle = Nothing
  /\ ReadStatus = "success" /\ FHand = Nothing
  /\ files = {} /\ blocks = {} /\ wrong = FALSE
  /\ last = [Offset |-> 0, asked |-> 0, size |-> 0]
  /\ file_refusals = 0 /\ reads = 0

Served == UNCHANGED file_refusals
Refusal == file_refusals < MaxFileRefusals /\ file_refusals' = file_refusals + 1

Goes(here, there) ==
  rpc = here /\ rpc' = there /\ UNCHANGED <<asked_path, fs, load, source, last, reads>>

Close(f) == files' = files \ {f} /\ wrong' = (wrong \/ f \notin files)
Free(B) == blocks' = blocks \ B /\ wrong' = (wrong \/ ~(B \subseteq blocks))

-------------------------------------------------------------------------------
(***************************************************************************)
(* OpenSimpleReadFile.                                                     *)
(***************************************************************************)
\* The handle, and with a copy of the file everything.
allocate_handle ==
  /\ \/ /\ Goes("allocate", IF source = Nothing THEN "locate" ELSE "open") /\ Served
        /\ FHand' = [Source |-> source, FreeBuffer |-> FALSE, FileHandle |-> Nothing]
        /\ blocks' = {"handle"} /\ UNCHANGED ReadStatus
     \/ /\ Goes("allocate", "failed") /\ Refusal
        /\ ReadStatus' = "out_of_resources" /\ UNCHANGED <<FHand, blocks>>
  /\ UNCHANGED <<FilePath, at, FileHandle, files, wrong>>

\* LocateDevicePath moves *FilePath over the device's nodes; LibOpenRoot.
locate_file_system ==
  /\ Goes("locate", "walk")
  /\ \/ /\ fs = Nothing /\ Served
        /\ ReadStatus' = "unsupported" /\ UNCHANGED <<FilePath, at, FileHandle, files>>
     \/ /\ fs # Nothing /\ FilePath' = fs /\ at' = fs
        /\ \/ Served /\ FileHandle' = fs /\ files' = {fs} /\ ReadStatus' = "success"
           \/ Refusal /\ ReadStatus' = "unsupported" /\ UNCHANGED <<FileHandle, files>>
  /\ UNCHANGED <<FHand, blocks, wrong>>

InFileSystem == at < Len(asked_path) /\ asked_path[at + 1] = "file" /\ ReadStatus = "success"

\* A mutation: the directory is left open.
leave_Not(f) == UNCHANGED <<files, wrong>>
leave(f) == Close(f)

\* A file node: it is opened in the last one, which is closed in any case.
open_node ==
  /\ InFileSystem /\ Goes("walk", "close_last")
  /\ \/ /\ Served /\ FileHandle' = at + 1 /\ files' = files \union {at + 1}
        /\ UNCHANGED ReadStatus
     \/ /\ Refusal /\ FileHandle' = Nothing /\ ReadStatus' = "not_found"
        /\ UNCHANGED files
  /\ UNCHANGED <<FilePath, at, FHand, blocks, wrong>>

close_last ==
  /\ Goes("close_last", "walk")
  /\ leave(at) /\ at' = at + 1
  /\ UNCHANGED <<FilePath, FileHandle, ReadStatus, FHand, blocks, file_refusals>>

\* Another node makes the path unsupported, whatever else went wrong before.
NodeStatus ==
  IF at < Len(asked_path) /\ asked_path[at + 1] # "file" THEN "unsupported" ELSE ReadStatus

walked ==
  /\ ~InFileSystem /\ NodeStatus = "success" /\ Goes("walk", "open")
  /\ FHand' = [FHand EXCEPT !.FileHandle = FileHandle]
  /\ UNCHANGED <<FilePath, at, FileHandle, ReadStatus, files, blocks, wrong,
                 file_refusals>>

\* The path is given back as it was if a file was open, and only then.
walk_failed ==
  /\ ~InFileSystem /\ NodeStatus # "success"
  /\ Goes("walk", IF NodeStatus = "unsupported" THEN "load" ELSE "clean_up")
  /\ ReadStatus' = NodeStatus
  /\ IF FileHandle # Nothing
     THEN Close(FileHandle) /\ FileHandle' = Nothing /\ FilePath' = 0
     ELSE UNCHANGED <<files, wrong, FileHandle, FilePath>>
  /\ UNCHANGED <<at, FHand, blocks, file_refusals>>

\* LibDevicePathToInterface finds LoadFile if *FilePath is all of a device's path.
LoadFileFound == FilePath = 0 /\ load = Len(asked_path)

\* A copy of the path is made, which may fail, and freed, made or not; it decides
\* nothing but *DeviceHandle.  LoadFile then says how big the file is, or that
\* there is none; with no memory for it, the size is still the error.
load_file_size ==
  /\ \/ /\ LoadFileFound /\ Goes("load", "load_file") /\ Served
        /\ \E n \in SourceSizes : FHand' = [FHand EXCEPT !.Source = n, !.FreeBuffer = TRUE]
        /\ blocks' = blocks \union {"source"}
        /\ ReadStatus' = "too_small"
     \/ /\ Goes("load", "clean_up")
        /\ IF LoadFileFound THEN Refusal ELSE Served
        /\ ReadStatus' = "unsupported" /\ UNCHANGED <<FHand, blocks>>
  /\ UNCHANGED <<FilePath, at, FileHandle, files, wrong>>

load_file ==
  /\ \/ Goes("load_file", "open") /\ Served /\ ReadStatus' \in {"success", "already_started"}
     \/ Goes("load_file", "clean_up") /\ Refusal /\ ReadStatus' = "unsupported"
  /\ UNCHANGED <<FilePath, at, FileHandle, FHand, files, blocks, wrong>>

clean_up ==
  /\ Goes("clean_up", "failed")
  /\ Free({"handle"} \union IF FHand.FreeBuffer THEN {"source"} ELSE {})
  /\ FHand' = Nothing
  /\ UNCHANGED <<FilePath, at, FileHandle, ReadStatus, files, file_refusals>>

-------------------------------------------------------------------------------
\* A mutation: only the end is compared with the size.
clipped_Short(Offset) == FHand.Source - Offset
clipped(Offset) == IF Offset >= FHand.Source THEN 0 ELSE FHand.Source - Offset

\* Reading a copy: the end is computed modulo 2^64.
ReadSimpleReadFile ==
  /\ rpc = "open" /\ reads < MaxReads /\ reads' = reads + 1
  /\ \E Offset, ReadSize \in 0 .. MaxUintn :
       LET EndPos == (Offset + ReadSize) % (MaxUintn + 1)
           size == IF EndPos > FHand.Source THEN clipped(Offset) ELSE ReadSize
       IN  IF FHand.Source = Nothing THEN UNCHANGED last   \* the firmware reads
           ELSE last' = [Offset |-> Offset, asked |-> ReadSize,
                         size |-> size % (MaxUintn + 1)]
  /\ UNCHANGED <<asked_path, fs, load, source, rpc, FilePath, at, FileHandle, ReadStatus,
                 FHand, files, blocks, wrong, file_refusals>>

CloseSimpleReadFile ==
  /\ Goes("open", "closed")
  /\ LET B == {"handle"} \union IF FHand.FreeBuffer THEN {"source"} ELSE {}
         F == {FHand.FileHandle} \ {Nothing}
     IN  /\ files' = files \ F /\ blocks' = blocks \ B
         /\ wrong' = (wrong \/ ~(F \subseteq files) \/ ~(B \subseteq blocks))
  /\ FHand' = Nothing
  /\ UNCHANGED <<FilePath, at, FileHandle, ReadStatus, file_refusals>>

-------------------------------------------------------------------------------
OpenSimpleReadFile ==
  \/ allocate_handle \/ locate_file_system \/ open_node \/ close_last
  \/ walked \/ walk_failed \/ load_file_size \/ load_file \/ clean_up

SimpleReadNext == OpenSimpleReadFile \/ ReadSimpleReadFile \/ CloseSimpleReadFile
SimpleReadSpec == SimpleReadInit /\ [][SimpleReadNext]_read_vars

-------------------------------------------------------------------------------
\* Wherever OpenSimpleReadFile fails, no file and no memory is left behind; while
\* the file is open there is one way to read it, its own handle, and the buffer
\* if it was loaded; closing gives everything back.  No file is closed and no
\* memory freed twice.
NothingLeftOpen ==
  /\ ~wrong
  /\ rpc \in {"failed", "closed"} => files = {} /\ blocks = {}
  /\ rpc = "open" =>
       /\ files = {FHand.FileHandle} \ {Nothing}
       /\ (FHand.Source = Nothing) = (files # {})
       /\ blocks = {"handle"} \union IF FHand.FreeBuffer THEN {"source"} ELSE {}

\* A read of a copy of the file copies what there is of it from Offset on, up to
\* what was asked for, and nothing that is not in it, if Offset + ReadSize does
\* not exceed the largest UINTN.
ReadsStayInside ==
  rpc = "open" /\ FHand.Source # Nothing /\ last.Offset + last.asked <= MaxUintn =>
    last.size = Cardinality({n \in 0 .. last.asked - 1 : last.Offset + n < FHand.Source})
===============================================================================

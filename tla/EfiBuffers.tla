------------------------------ MODULE EfiBuffers ------------------------------
(***************************************************************************)
(* gnu-efi's functions that fetch something of the firmware's into a       *)
(* buffer they allocate, guessing its size and trying again: GrowBuffer    *)
(* and its users (lib/misc.c, lib/hand.c).                                 *)
(*                                                                         *)
(* The object is a sequence: a memory map of descriptors, a variable, a    *)
(* list of handles, a file's information; NoObject if there is none.       *)
(* Between two calls of the firmware others may change it, and the         *)
(* buffer's own allocation is among the things that change the memory map. *)
(***************************************************************************)
EXTENDS Naturals, Sequences

CONSTANTS
  Elements,          \* what objects are made of: bytes, descriptors, handles
  Objects,           \* what the object may be: non-empty sequences
  NoObject,
  Guess,             \* the size a fetch starts with
  BootOption,        \* what LibInsertToTailOfBootOrder appends
  MaxPoolRefusals,   \* bound: allocations and calls that are refused
  MaxChanges         \* bound: changes of the object by others

ASSUME BuffersAssumption ==
  /\ Objects \subseteq Seq(Elements) \ {<< >>} /\ NoObject \notin Seq(Elements)
  /\ Guess \in Nat \ {0} /\ BootOption \in Elements

VARIABLES
  object,            \* the firmware's object
  request,           \* the library's function that was called
  bpc,               \* its next step
  Status, Buffer, BufferSize,   \* GrowBuffer's; Buffer is NoObject for NULL,
                     \* or what the buffer holds, << >> before it is filled
  NewBuffer,         \* the second buffer of those that take one
  live,              \* buffers allocated and not freed
  values,            \* history: what the object has been since the call
  own,               \* history: what it was when SetVariable was called
  pool_refusals, changes

buffer_vars == <<object, request, bpc, Status, Buffer, BufferSize, NewBuffer, live,
                 values, own, pool_refusals, changes>>

Fetches == {"LibMemoryMap", "LibGetVariableAndSize", "LibLocateHandle", "LibFileInfo",
            "LibFileSystemInfo", "LibFileSystemVolumeLabelInfo"}
Requests == Fetches \union {"LibDeleteVariable", "LibInsertToTailOfBootOrder",
                            "LibInsertIfEmpty", "LibLocateHandleByDiskSignature"}

Error(s) == s # "success"

\* There always is a memory map.
BuffersInit ==
  /\ request \in Requests
  /\ object \in Objects \union (IF request = "LibMemoryMap" THEN {} ELSE {NoObject})
  /\ bpc = "grow" /\ Status = "success"
  /\ Buffer = NoObject /\ BufferSize = Guess /\ NewBuffer = NoObject
  /\ live = 0 /\ values = {object} /\ own = NoObject
  /\ pool_refusals = 0 /\ changes = 0

Allocated == live' = live + 1 /\ UNCHANGED pool_refusals
Refused == pool_refusals < MaxPoolRefusals /\ pool_refusals' = pool_refusals + 1

Next_step(here, there) == bpc = here /\ bpc' = there /\ UNCHANGED request
Others == UNCHANGED <<object, values, own, changes>>

-------------------------------------------------------------------------------
\* Another task changes, makes or removes the object.
object_changes ==
  /\ bpc # "returned" /\ changes < MaxChanges /\ changes' = changes + 1
  /\ object' \in Objects \union (IF request = "LibMemoryMap" THEN {} ELSE {NoObject})
  /\ values' = values \union {object'}
  /\ UNCHANGED <<request, bpc, Status, Buffer, BufferSize, NewBuffer, live, own,
                 pool_refusals>>

\* GrowBuffer when the buffer is not there yet or was too small.
TooSmall == Status = "too_small" \/ (Buffer = NoObject /\ BufferSize > 0)

Freed == IF Buffer = NoObject THEN live ELSE live - 1

\* A mutation: the old buffer is forgotten.
given_back_Not == live
given_back == Freed

GrowBuffer_again ==
  /\ Next_step("grow", "fetch") /\ TooSmall
  /\ live' = given_back + 1 /\ Buffer' = << >> /\ Status' = "too_small"
  /\ UNCHANGED <<BufferSize, NewBuffer, pool_refusals>> /\ Others

\* No memory, an error other than the size, or success.
GrowBuffer_done ==
  /\ Next_step("grow", "fetched")
  /\ \/ TooSmall /\ Refused /\ Status' = "out_of_resources" /\ Buffer' = NoObject
     \/ /\ ~TooSmall /\ UNCHANGED <<Status, pool_refusals>>
        /\ Buffer' = IF Error(Status) THEN NoObject ELSE Buffer
  /\ live' = IF Buffer' = NoObject THEN Freed ELSE live
  /\ UNCHANGED <<BufferSize, NewBuffer>> /\ Others

\* The firmware's call: too small a buffer is told the size.
fetch ==
  /\ Next_step("fetch", "grow")
  /\ CASE object = NoObject -> Status' = "not_found" /\ UNCHANGED <<Buffer, BufferSize>>
       [] object # NoObject /\ Len(object) > BufferSize ->
            /\ Status' = "too_small" /\ BufferSize' = Len(object)
            /\ UNCHANGED Buffer
       [] OTHER -> Status' = "success" /\ BufferSize' = Len(object) /\ Buffer' = object
  /\ UNCHANGED <<NewBuffer, live, pool_refusals>> /\ Others

-------------------------------------------------------------------------------
\* The functions that only fetch return the buffer, or NULL.
fetch_return ==
  /\ request \in Fetches /\ Next_step("fetched", "returned")
  /\ UNCHANGED <<Status, Buffer, BufferSize, NewBuffer, live, pool_refusals>> /\ Others

\* SetVariable: the new value of the variable, unless it is refused.
SetVariable(value) ==
  /\ own' = object /\ UNCHANGED changes
  /\ \/ /\ Status' = "success" /\ object' = value /\ values' = values \union {value}
        /\ UNCHANGED pool_refusals
     \/ Status' = "failed" /\ Refused /\ UNCHANGED <<object, values>>

\* Deletes a variable it could read, whatever the reason it could not.
LibDeleteVariable ==
  /\ request = "LibDeleteVariable" /\ Next_step("fetched", "returned")
  /\ \/ /\ Buffer = NoObject /\ Status' = "not_found"
        /\ UNCHANGED <<Buffer, live, pool_refusals>> /\ Others
     \/ Buffer # NoObject /\ SetVariable(NoObject) /\ live' = Freed /\ Buffer' = NoObject
  /\ UNCHANGED <<BufferSize, NewBuffer>>

Inserts == request \in {"LibInsertToTailOfBootOrder", "LibInsertIfEmpty"}

not_empty ==
  /\ request = "LibInsertIfEmpty" /\ Buffer # NoObject
  /\ Next_step("fetched", "returned")
  /\ Status' = "unsupported" /\ live' = Freed /\ Buffer' = NoObject
  /\ UNCHANGED <<BufferSize, NewBuffer, pool_refusals>> /\ Others

\* A mutation: the last option that was read is overwritten.
appended_Over(read) == SubSeq(read, 1, Len(read) - 1) \o <<BootOption>>
appended(read) == read \o <<BootOption>>

\* One element more than was read; with no memory for it, what was read is kept.
insert_allocate ==
  /\ Inserts /\ (request = "LibInsertIfEmpty" => Buffer = NoObject)
  /\ \/ /\ Next_step("fetched", "insert") /\ Allocated /\ UNCHANGED Status
        /\ NewBuffer' = appended(IF Buffer = NoObject THEN << >> ELSE Buffer)
     \/ /\ Next_step("fetched", "returned") /\ Refused
        /\ Status' = "out_of_resources" /\ UNCHANGED <<NewBuffer, live>>
  /\ UNCHANGED <<Buffer, BufferSize>> /\ Others

insert_set ==
  /\ Next_step("insert", "returned")
  /\ SetVariable(NewBuffer)
  /\ live' = Freed - 1 /\ Buffer' = NoObject /\ NewBuffer' = NoObject
  /\ UNCHANGED BufferSize

\* LibLocateHandleByDiskSignature: how many handles match is left open.  None, or
\* no handles at all: nothing is allocated.
match_none ==
  /\ request = "LibLocateHandleByDiskSignature" /\ Next_step("fetched", "returned")
  /\ live' = Freed /\ Buffer' = NoObject
  /\ Status' = IF Buffer = NoObject THEN Status ELSE "success"
  /\ UNCHANGED <<BufferSize, NewBuffer, pool_refusals>> /\ Others

match_some ==
  /\ request = "LibLocateHandleByDiskSignature" /\ Buffer # NoObject
  /\ Next_step("fetched", "returned")
  /\ \/ /\ UNCHANGED <<live, pool_refusals>>     \* one buffer for the other
        /\ \E n \in 1 .. Len(Buffer) : \E match \in [1 .. n -> 1 .. Len(Buffer)] :
             /\ \A j, k \in 1 .. n : j < k => match[j] < match[k]
             /\ Buffer' = [k \in 1 .. n |-> Buffer[match[k]]]
        /\ Status' = "success"
     \/ Refused /\ live' = Freed /\ Buffer' = NoObject /\ Status' = "out_of_resources"
  /\ UNCHANGED <<BufferSize, NewBuffer>> /\ Others

-------------------------------------------------------------------------------
Library ==
  \/ GrowBuffer_again \/ GrowBuffer_done \/ fetch \/ fetch_return
  \/ LibDeleteVariable \/ not_empty \/ insert_allocate \/ insert_set
  \/ match_none \/ match_some

BuffersNext == Library \/ object_changes
BuffersSpec == BuffersInit /\ [][BuffersNext]_buffer_vars /\ WF_buffer_vars(Library)

-------------------------------------------------------------------------------
\* Whatever is changed, refused or retried, a function that returns leaves one
\* buffer allocated if it returns one and none if it does not, and a fetched
\* buffer holds the whole of what the object was at some moment of the call.
\* The exception: LibInsertToTailOfBootOrder keeps what it read when it gets no
\* memory for the longer array.
BuffersAreReturned ==
  bpc = "returned" =>
    /\ live = IF Buffer = NoObject THEN 0 ELSE 1
    /\ request \in Fetches =>
         /\ Buffer = NoObject <=> Error(Status)
         /\ Buffer # NoObject => Buffer \in values /\ Len(Buffer) = BufferSize
    /\ Buffer # NoObject =>
         \/ request \in Fetches \union {"LibLocateHandleByDiskSignature"}
         \/ request = "LibInsertToTailOfBootOrder" /\ Status = "out_of_resources"

\* LibInsertToTailOfBootOrder that succeeds has appended the option to the boot
\* order as it was when the variable was set, unless someone wrote it after it was
\* read, or there was no memory to read it: then the option is all that is left of
\* the boot order.
BootOrderIsKept ==
  bpc = "returned" /\ Inserts /\ Status = "success" /\ changes = 0
    => \/ object = (IF own = NoObject THEN << >> ELSE own) \o <<BootOption>>
       \/ pool_refusals > 0 /\ object = <<BootOption>>
===============================================================================

------------------------- MODULE FlashOnStBootloader -------------------------
(***************************************************************************)
(* services::FlashOnStBootloaderCommunicator: hal::Flash of a target whose *)
(* bootloader StBootloader talks to.  Buffers go in blocks the bootloader  *)
(* takes, sectors one page at a time or all at once.                       *)
(*                                                                         *)
(* The communicator is what its interface says: one command at a time,     *)
(* which is carried out and reported done, or fails and is never reported. *)
(***************************************************************************)
EXTENDS Integers, Sequences

CONSTANTS
    BlockSize,        \* largest block of the bootloader; 256 in the code
    Word,             \* WriteMemory takes whole words; 4 in the code
    FlashSize,
    NumberOfSectors,
    MaxFailures       \* bound of the model

ASSUME BlockSizeAssumption == BlockSize \in Nat \ {0}
ASSUME WordAssumption == Word \in Nat \ {0} /\ BlockSize % Word = 0
ASSUME FlashSizeAssumption == FlashSize \in Nat
ASSUME NumberOfSectorsAssumption == NumberOfSectors \in Nat
ASSUME MaxFailuresAssumption == MaxFailures \in Nat

VARIABLES
    onDone,       \* a request is under way
    request,      \* its kind, and the addresses or sectors it is for
    tail,         \* size of writeTail or readTail
    tailAddress,
    beginIndex,
    endIndex,
    command,      \* what the communicator carries out
    failures,
    (* What became of the request, kept by the model: the bytes each        *)
    (* address was given, the erases of each sector, and for each byte of   *)
    (* the caller's buffer the addresses it was read from.                  *)
    written,
    erased,
    buffer

progress == <<tail, tailAddress, beginIndex, endIndex>>
effect == <<written, erased, buffer>>
flashVars == <<onDone, request, progress, command, failures, effect>>

Address == 0 .. FlashSize - 1
Sector == 0 .. NumberOfSectors - 1
NoCommand == [kind |-> "none", first |-> 0, size |-> 0]

FlashTypeOK ==
    /\ onDone \in BOOLEAN
    /\ request \in [kind : {"none", "write", "read", "erase"}, first : Nat, last : Nat]
    /\ {tail, tailAddress} \subseteq 0 .. FlashSize
    /\ {beginIndex, endIndex} \subseteq 0 .. NumberOfSectors
    /\ command \in [kind : {"none", "WriteMemory", "ReadMemory", "ExtendedErase", "ExtendedMassErase"},
                    first : Nat, size : Nat]
    /\ failures \in 0 .. MaxFailures
    /\ written \in [Address -> Seq(Int)] /\ erased \in [Sector -> Nat] /\ buffer \in [Address -> Seq(Int)]

NothingDone ==
    /\ written' = [address \in Address |-> <<>>]
    /\ erased' = [sector \in Sector |-> 0]
    /\ buffer' = [byte \in Address |-> <<>>]

FlashInit ==
    /\ onDone = FALSE /\ request = [kind |-> "none", first |-> 0, last |-> 0]
    /\ tail = 0 /\ tailAddress = 0 /\ beginIndex = 0 /\ endIndex = 0
    /\ command = NoCommand /\ failures = 0
    /\ written = [address \in Address |-> <<>>]
    /\ erased = [sector \in Sector |-> 0]
    /\ buffer = [byte \in Address |-> <<>>]

(* Mutant: the request's own callback is not called. *)
DoneUnreported == command' = NoCommand /\ UNCHANGED <<onDone, progress>>

Done == onDone' = FALSE /\ command' = NoCommand /\ UNCHANGED progress

(* Mutant: a block of a buffer shorter than one. *)
WholeBlock(size) == BlockSize

HeadSize(size) == IF size < BlockSize THEN size ELSE BlockSize

(* Mutant: the tail starts at the address of the head. *)
SameAddress(size, address) == address

TailAddress(size, address) == address + HeadSize(size)

(* WriteBuffer and ReadBuffer. *)
Transfer(kind, size, address) ==
    IF size = 0 THEN Done ELSE
    /\ onDone' = TRUE
    /\ tail' = size - HeadSize(size)
    /\ tailAddress' = TailAddress(size, address)
    /\ command' = [kind |-> kind, first |-> address, size |-> HeadSize(size)]
    /\ UNCHANGED <<beginIndex, endIndex>>

Erase(begin, end) ==
    IF begin = end THEN Done ELSE
    /\ onDone' = TRUE
    /\ IF begin = 0 /\ end = NumberOfSectors
       THEN /\ command' = [kind |-> "ExtendedMassErase", first |-> 0, size |-> NumberOfSectors]
            /\ UNCHANGED progress
       ELSE /\ beginIndex' = begin
            /\ endIndex' = end
            /\ command' = [kind |-> "ExtendedErase", first |-> begin, size |-> 1]
            /\ UNCHANGED <<tail, tailAddress>>

-----------------------------------------------------------------------------
(* The application; an empty request is done at once.  That it writes      *)
(* whole words is its own duty: WriteBuffer does not look, and WriteMemory *)
(* of the communicator stops the program on any other block               *)
(* (StBootloaderCommunicatorUart.cpp:152).                                 *)

WriteBuffer(size, address) ==
    /\ ~onDone
    /\ address + size <= FlashSize /\ size % Word = 0
    /\ request' = [kind |-> "write", first |-> address, last |-> address + size]
    /\ Transfer("WriteMemory", size, address)
    /\ NothingDone
    /\ UNCHANGED failures

ReadBuffer(size, address) ==
    /\ ~onDone
    /\ address + size <= FlashSize
    /\ request' = [kind |-> "read", first |-> address, last |-> address + size]
    /\ Transfer("ReadMemory", size, address)
    /\ NothingDone
    /\ UNCHANGED failures

EraseSectors(begin, end) ==
    /\ ~onDone
    /\ begin <= end /\ end <= NumberOfSectors
    /\ request' = [kind |-> "erase", first |-> begin, last |-> end]
    /\ Erase(begin, end)
    /\ NothingDone
    /\ UNCHANGED failures

-----------------------------------------------------------------------------
(* The communicator's callbacks. *)

Covers(address) == address \in command.first .. command.first + command.size - 1

BlockWritten ==
    /\ command.kind = "WriteMemory"
    /\ written' = [address \in Address |->
          IF Covers(address) THEN Append(written[address], address - request.first) ELSE written[address]]
    /\ Transfer("WriteMemory", tail, tailAddress)
    /\ UNCHANGED <<request, failures, erased, buffer>>

(* ReadMemory keeps a reference to `head`, a local of ReadBuffer that has  *)
(* returned: where its bytes go is what the stack holds by then.           *)
BlockRead ==
    /\ command.kind = "ReadMemory"
    /\ \E intact \in BOOLEAN :
         buffer' = [byte \in Address |->
            IF intact /\ Covers(request.first + byte)
            THEN Append(buffer[byte], request.first + byte) ELSE buffer[byte]]
    /\ Transfer("ReadMemory", tail, tailAddress)
    /\ UNCHANGED <<request, failures, written, erased>>

SectorErased ==
    /\ command.kind = "ExtendedErase"
    /\ erased' = [erased EXCEPT ![command.first] = @ + 1]
    /\ Erase(beginIndex + 1, endIndex)
    /\ UNCHANGED <<request, failures, written, buffer>>

AllErased ==
    /\ command.kind = "ExtendedMassErase"
    /\ erased' = [sector \in Sector |-> erased[sector] + 1]
    /\ Done
    /\ UNCHANGED <<request, failures, written, buffer>>

(* The communicator reports an error to others; nobody reports this one. *)
CommandFails ==
    /\ failures < MaxFailures
    /\ failures' = failures + 1
    /\ command # NoCommand
    /\ command' = NoCommand
    /\ UNCHANGED <<onDone, request, progress, effect>>

Callback == BlockWritten \/ BlockRead \/ SectorErased \/ AllErased

FlashNext ==
    \/ \E size, address \in 0 .. FlashSize : WriteBuffer(size, address) \/ ReadBuffer(size, address)
    \/ \E begin, end \in 0 .. NumberOfSectors : EraseSectors(begin, end)
    \/ Callback
    \/ CommandFails

FlashSpec == FlashInit /\ [][FlashNext]_flashVars
FairFlashSpec == FlashSpec /\ WF_flashVars(Callback)

-----------------------------------------------------------------------------
(* Properties. *)

(* The communicator is only given what it asserts: blocks that are not     *)
(* empty nor too large, written in whole words.                            *)
BlocksLegal ==
    command.kind \in {"WriteMemory", "ReadMemory"} =>
        /\ command.size \in 1 .. BlockSize
        /\ command.kind = "WriteMemory" => command.size % Word = 0

(* Every command is legal.  A write that is done gave every address of the *)
(* buffer its byte, once, and no other address anything; an erase erases   *)
(* each of its sectors once and never another.                             *)
DoneExactly ==
    /\ BlocksLegal
    /\ ~onDone /\ request.kind = "write" =>
        \A address \in Address :
            written[address] = IF address \in request.first .. request.last - 1
                               THEN <<address - request.first>> ELSE <<>>
    /\ request.kind = "erase" =>
        \A sector \in Sector :
            IF sector \in request.first .. request.last - 1
            THEN erased[sector] <= 1 /\ (~onDone => erased[sector] = 1)
            ELSE erased[sector] = 0

(* A read that is done filled the caller's buffer. *)
ReadComplete ==
    ~onDone /\ request.kind = "read" =>
        \A byte \in 0 .. request.last - request.first - 1 : buffer[byte] = <<request.first + byte>>

(* Every request is done, unless the communicator failed one of its        *)
(* commands.                                                               *)
RequestsEnd == onDone ~> (~onDone \/ failures > 0)
=============================================================================

---------------------------- MODULE WirelessImage ----------------------------
(***************************************************************************)
(* hal::WirelessCoprocessorUpgradeWb, Write and Install: the bytes of the  *)
(* image arrive in chunks of any size and go to flash in whole double      *)
(* words, each programmed once.  Bytes that do not fill a double word wait *)
(* in `tail`, which Install pads.                                          *)
(*                                                                         *)
(* The flash driver reads the range it is given until it has completed, so *)
(* `program` says where the bytes are and Programmed looks at what is      *)
(* there then.  The image is <<1, ..., imageSize>>.                        *)
(*                                                                         *)
(* WirelessUpgrade has the rest of the class.  No name is in both modules, *)
(* so that one can extend both.                                            *)
(***************************************************************************)
EXTENDS Integers, Sequences

CONSTANTS
    DoubleWord,   \* bytes the flash programs at once
    MaxImageSize

ASSUME DoubleWordAssumption == DoubleWord \in Nat \ {0}
ASSUME MaxImageSizeAssumption == MaxImageSize \in Nat \ {0}

erasedByte == 0
Byte == 0 .. MaxImageSize
Ceiling(size) == ((size + DoubleWord - 1) \div DoubleWord) * DoubleWord

VARIABLES
    imageSize,
    memory,        \* the flash from imageAddress: the bytes of each address
    written,
    tail,
    tailSize,
    pending,
    writeAddress,  \* relative to imageAddress
    program,       \* the write under way: its source, address and callback
    reporting,     \* onWritten is scheduled
    caller         \* what the application is waiting for

ImageBytes == [i \in 1 .. imageSize |-> i]

imageVars == <<imageSize, memory, written, tail, tailSize, pending, writeAddress, program, reporting, caller>>

Idle == [from |-> "none", bytes |-> 0, to |-> 0, then |-> "none"]

ImageTypeOK ==
    /\ imageSize \in 1 .. MaxImageSize
    /\ memory \in [0 .. Ceiling(imageSize) - 1 -> Seq(Byte)]
    /\ written \in 0 .. imageSize
    /\ tail \in [1 .. DoubleWord -> Byte]
    /\ tailSize \in 0 .. DoubleWord - 1
    /\ pending \in Seq(Byte)
    /\ writeAddress \in 0 .. Ceiling(imageSize)
    /\ program \in [from : {"none", "tail", "pending"}, bytes : 0 .. Ceiling(imageSize),
                    to : 0 .. Ceiling(imageSize),
                    then : {"none", "writeAligned", "onWritten", "requestInstall"}]
    /\ reporting \in BOOLEAN
    /\ caller \in {"free", "write", "install", "installed"}

ImageInit ==
    /\ imageSize \in 1 .. MaxImageSize
    /\ memory = [address \in 0 .. Ceiling(imageSize) - 1 |-> <<>>]
    /\ written = 0
    /\ tail = [i \in 1 .. DoubleWord |-> erasedByte]
    /\ tailSize = 0
    /\ pending = <<>>
    /\ writeAddress = 0
    /\ program = Idle
    /\ reporting = FALSE
    /\ caller = "free"

-----------------------------------------------------------------------------
Fill(bytes) ==
    [i \in 1 .. DoubleWord |->
        IF i > tailSize /\ i <= tailSize + Len(bytes) THEN bytes[i - tailSize] ELSE tail[i]]

(* Mutant: the next bytes go where the last went. *)
InPlace(bytes) == writeAddress
Behind(bytes) == writeAddress + bytes

WriteBuffer(from, bytes, then) ==
    /\ program' = [from |-> from, bytes |-> bytes, to |-> writeAddress, then |-> then]
    /\ writeAddress' = Behind(bytes)

WriteTail(then) ==
    /\ WriteBuffer("tail", DoubleWord, then)
    /\ tailSize' = 0

(* Mutant: a last double word that is complete counts as a rest. *)
AlignedSizeBelow(size) == IF size = 0 THEN 0 ELSE size - 1 - ((size - 1) % DoubleWord)

AlignedSize(size) == size - (size % DoubleWord)

(* bytes is `pending` as it is when WriteAligned is called, and filled the *)
(* tail as Write left it.                                                  *)
WriteAligned(bytes, filled, size) ==
    LET aligned == AlignedSize(Len(bytes))
        rest == SubSeq(bytes, aligned + 1, Len(bytes))
    IN  /\ tail' = [i \in 1 .. DoubleWord |-> IF i <= Len(rest) THEN rest[i] ELSE filled[i]]
        /\ tailSize' = IF rest = <<>> THEN size ELSE Len(rest)
        /\ pending' = bytes
        /\ IF aligned = 0
           THEN reporting' = TRUE /\ program' = Idle /\ UNCHANGED writeAddress
           ELSE WriteBuffer("pending", aligned, "onWritten") /\ UNCHANGED reporting

(* The application gives the next `size` bytes. *)
WriteBytes(size) ==
    LET data == SubSeq(ImageBytes, written + 1, written + size)
        toTail == IF DoubleWord - tailSize < size THEN DoubleWord - tailSize ELSE size
    IN  /\ caller = "free"
        /\ written + size <= imageSize
        /\ written' = written + size
        /\ caller' = "write"
        /\ IF tailSize = 0
           THEN WriteAligned(data, tail, 0)
           ELSE IF tailSize + toTail = DoubleWord
           THEN /\ tail' = Fill(SubSeq(data, 1, toTail))
                /\ pending' = SubSeq(data, toTail + 1, size)
                /\ WriteTail("writeAligned")
                /\ UNCHANGED reporting
           ELSE WriteAligned(<<>>, Fill(data), tailSize + toTail)
        /\ UNCHANGED <<imageSize, memory>>

Source(from) == IF from = "tail" THEN tail ELSE pending

Programmed ==
    /\ program.from # "none"
    /\ memory' = [address \in DOMAIN memory |->
          IF address \in program.to .. program.to + program.bytes - 1
          THEN Append(memory[address], Source(program.from)[address - program.to + 1])
          ELSE memory[address]]

(* WriteTail has completed in Write. *)
TailProgrammed ==
    /\ program.then = "writeAligned"
    /\ Programmed
    /\ WriteAligned(pending, tail, tailSize)
    /\ UNCHANGED <<imageSize, written, caller>>

AlignedProgrammed ==
    /\ program.then = "onWritten"
    /\ Programmed
    /\ program' = Idle
    /\ caller' = "free"
    /\ UNCHANGED <<imageSize, written, tail, tailSize, pending, writeAddress, reporting>>

(* The scheduled call of onWritten. *)
OnWritten ==
    /\ reporting
    /\ reporting' = FALSE
    /\ caller' = "free"
    /\ UNCHANGED <<imageSize, memory, written, tail, tailSize, pending, writeAddress, program>>

InstallBytes ==
    /\ caller = "free"
    /\ written = imageSize
    /\ IF tailSize = 0
       THEN caller' = "installed" /\ UNCHANGED <<tail, tailSize, writeAddress, program>>
       ELSE /\ caller' = "install"
            /\ tail' = [i \in 1 .. DoubleWord |-> IF i > tailSize THEN erasedByte ELSE tail[i]]
            /\ WriteTail("requestInstall")
    /\ UNCHANGED <<imageSize, memory, written, pending, reporting>>

LastProgrammed ==
    /\ program.then = "requestInstall"
    /\ Programmed
    /\ program' = Idle
    /\ caller' = "installed"
    /\ UNCHANGED <<imageSize, written, tail, tailSize, pending, writeAddress, reporting>>

ImageNext ==
    \/ \E size \in 1 .. MaxImageSize : WriteBytes(size)
    \/ TailProgrammed
    \/ AlignedProgrammed
    \/ OnWritten
    \/ InstallBytes
    \/ LastProgrammed

ImageSpec == ImageInit /\ [][ImageNext]_imageVars

-----------------------------------------------------------------------------
(* Properties. *)

(* Internal flash programs a double word once between erases, with the     *)
(* bytes of the image at their place: whatever the chunks, every address   *)
(* is programmed at most once and holds its byte of the image, and when    *)
(* FUS is asked to install, nothing of it is missing.                      *)
ProgrammedOnceInPlace ==
    /\ program.from # "none" => program.bytes > 0 /\ program.to % DoubleWord = 0
    /\ \A address \in DOMAIN memory :
        \/ memory[address] = <<>> /\ caller # "installed"
        \/ memory[address] = <<IF address < imageSize THEN ImageBytes[address + 1] ELSE erasedByte>>
=============================================================================

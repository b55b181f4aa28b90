---------------------------- MODULE FlashService ----------------------------
(***************************************************************************)
(* What hal::Flash promises the client of a write or an erase, whatever    *)
(* happens underneath: the request is carried out piece by piece, in       *)
(* order, no piece twice and none left out, and it is reported done once,  *)
(* after the last piece.  A write advances inside one double word at a     *)
(* time and an erase by one sector at a time, which is the granularity     *)
(* CPU2 can be locked out for.                                             *)
(***************************************************************************)
EXTENDS Naturals

CONSTANTS
    DoubleWordSize,  \* bytes the flash programs at once
    FlashSize,       \* bytes of flash
    NumberOfSectors  \* sectors of flash

VARIABLES
    kind,  \* "idle", or the operation under way
    next,  \* the first byte (write) or sector (erase) not yet carried out
    end    \* the byte or sector after the last one requested

vars == <<kind, next, end>>

Limit(k) == IF k = "write" THEN FlashSize ELSE NumberOfSectors

Init ==
    /\ kind = "idle"
    /\ next = 0
    /\ end = 0

Request(k, b, e) ==
    /\ kind = "idle"
    /\ kind' = k
    /\ next' = b
    /\ end' = e

WritePiece ==
    /\ kind = "write"
    /\ next' \in (next + 1) .. end
    /\ (next' - 1) \div DoubleWordSize = next \div DoubleWordSize
    /\ UNCHANGED <<kind, end>>

ErasePiece ==
    /\ kind = "erase"
    /\ next < end
    /\ next' = next + 1
    /\ UNCHANGED <<kind, end>>

Done ==
    /\ kind # "idle"
    /\ next = end
    /\ kind' = "idle"
    /\ UNCHANGED <<next, end>>

Next ==
    \/ \E k \in {"write", "erase"} :
         \E b \in 0 .. Limit(k) : \E e \in b .. Limit(k) : Request(k, b, e)
    \/ WritePiece
    \/ ErasePiece
    \/ Done

Spec == Init /\ [][Next]_vars
=============================================================================

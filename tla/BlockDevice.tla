----------------------------- MODULE BlockDevice -----------------------------
(***************************************************************************)
(* What hal::BlockDevice promises: one request at a time, told its result  *)
(* once.  Whatever the result, no block outside a write or an erase        *)
(* changes; after a success the card holds what was written, the reader    *)
(* has what the card holds, and after a flush nothing is in a cache that   *)
(* loses it.                                                               *)
(***************************************************************************)
EXTENDS Naturals

CONSTANT NumberOfBlocks

VARIABLES
    request,    \* what was asked; of kind "none" between requests
    content,    \* what each block holds
    unflushed,  \* blocks whose content a loss of power would undo
    told        \* the last result, and what was read with it

vars == <<request, content, unflushed, told>>

Block == 0 .. NumberOfBlocks - 1
NoRequest == [kind |-> "none", first |-> 0, end |-> 0, id |-> 0]
Requested(asked) == {block \in Block : asked.first <= block /\ block < asked.end}

(* The data a write brings for a block. *)
Written(asked, block) == <<asked.id, block - asked.first>>

Init ==
    /\ request = NoRequest
    /\ content = [block \in Block |-> <<0, block>>]
    /\ unflushed = {}
    /\ told = [result |-> "none", data |-> <<>>]

(* What the card may do with what it is asked. *)
CarryOut(asked) ==
    /\ unflushed' \in SUBSET (unflushed \union (IF asked.kind = "write" THEN Requested(asked) ELSE {}))
    /\ \A block \in Block :
         content'[block] # content[block] =>
             /\ block \in Requested(asked)
             /\ \/ asked.kind = "write" /\ content'[block] = Written(asked, block)
                \/ asked.kind = "erase"

Request ==
    /\ request.kind = "none"
    /\ request' \in [kind : {"read", "write", "erase", "flush"}, first : Nat, end : Nat, id : Nat]
    /\ CarryOut(request')
    /\ UNCHANGED told

Progress ==
    /\ CarryOut(request)
    /\ UNCHANGED <<request, told>>

Fulfilled(data) ==
    /\ request.kind = "flush" => unflushed = {}
    /\ request.kind = "erase" => request.end <= NumberOfBlocks
    /\ request.kind \in {"read", "write"} => request.end <= request.first \/ request.end <= NumberOfBlocks
    /\ request.kind = "write" => \A block \in Requested(request) : content[block] = Written(request, block)
    /\ request.kind = "read" =>
           data = [i \in 1 .. request.end - request.first |-> content[request.first + i - 1]]

Finish ==
    /\ request.kind # "none"
    /\ request' = NoRequest
    /\ told'.result = "success" => Fulfilled(told'.data)
    /\ UNCHANGED <<content, unflushed>>

Next == Request \/ Progress \/ Finish

Spec == Init /\ [][Next]_vars
=============================================================================

------------------------ MODULE GattClientConnection ------------------------
(***************************************************************************)
(* hal::GattClientConnectionSt: the GATT client of one link.  It gives the *)
(* link's procedures to the ST stack, which answers with HCI events that   *)
(* the dispatcher hands over one by one, in order.  Procedures of several  *)
(* kinds share two callbacks and one notion of what is under way.          *)
(*                                                                         *)
(* Procedures are numbered in the order in which they are accepted: a      *)
(* number stands for the callback the application gave with it, and for    *)
(* the attribute it asked for.                                             *)
(***************************************************************************)
EXTENDS Integers, Sequences

CONSTANTS
    FreesWhenHandled, \* the ST stack takes no procedure before the completion
                      \* of the one before it is handled; when FALSE, it does
                      \* so once it has queued that completion
    Room,             \* bytes ReadLong's vector has room for
    PartSize,         \* bytes of a long value in one response, at most
    MaxResponses,     \* bound of the model: responses of a procedure
    MaxProcedures     \* bound of the model: procedures of a link

ASSUME FreesWhenHandledAssumption == FreesWhenHandled \in BOOLEAN
ASSUME RoomAssumption == Room \in Nat
ASSUME PartSizeAssumption == PartSize \in Nat \ {0}
ASSUME MaxResponsesAssumption == MaxResponses \in Nat \ {0}
ASSUME MaxProceduresAssumption == MaxProcedures \in Nat

Reads == {"read", "readLong"}
Discoveries == {"discoverServices", "discoverCharacteristics",
                "discoverDescriptors", "discoverIncludedServices"}
Writes == {"write", "writeLong", "writeDescriptor"}
Operation == Reads \cup Discoveries \cup Writes \cup {"exchangeMtu"}

None == 0
Procedure == 1 .. MaxProcedures
Number == Procedure \cup {None}

VARIABLES
    (* GattClientConnectionSt. *)
    connected,       \* connectionHandle is not invalidConnection
    operation,
    onOperationDone, \* the procedure whose callback it holds, or None
    onReadDone,
    reading,         \* readLongValue is not null
    value,           \* the vector of the last ReadLong: indices of bytes
    readLongOverflowed,
    maxAttMtu,       \* the procedure that exchanged it, or None: the default
    toConfirm,       \* indications whose observers are not done with them
    (* The ST stack. *)
    linked,
    events,          \* on their way to the dispatcher
    current,         \* the procedure it executes, or None
    responses,       \* of it, so far
    indicating,      \* an indication waits for its confirmation
    (* What happened, kept by the model. *)
    kind,            \* of the procedures accepted so far, a sequence
    ended,           \* how the stack ended each of them
    sent,            \* bytes of its value the stack has sent
    outcome,         \* what its callback was called with
    misread          \* a response was read as that of another kind

client == <<connected, operation, onOperationDone, onReadDone, reading, value,
            readLongOverflowed, maxAttMtu, toConfirm>>
callbacks == <<onOperationDone, onReadDone>>
readLong == <<reading, value, readLongOverflowed>>
stack == <<linked, events, current, responses, indicating>>
history == <<kind, ended, sent, outcome, misread>>
vars == <<client, stack, history>>

Result == {"success", "error", "disconnected", "insufficientResources"}

(* What a callback is called with: the value read is that of a procedure   *)
(* and has a length.                                                       *)
Outcome == [result : Result, of : Number, length : Nat]
NoOutcome == [result |-> "pending", of |-> None, length |-> 0]

Event == [type : {"mtu", "items", "readResponse", "readBlobResponse",
                  "procedureComplete", "indication", "disconnected"},
          of : Number, bytes : Seq(Nat), result : {"success", "error"}]

TypeOK ==
    /\ {connected, reading, readLongOverflowed, linked, indicating, misread} \subseteq BOOLEAN
    /\ operation \in Operation \cup {"none"}
    /\ {onOperationDone, onReadDone, maxAttMtu, current} \subseteq Number
    /\ value \in Seq(Nat) /\ Len(value) <= Room
    /\ toConfirm \in {0, 1}
    /\ events \in Seq(Event)
    /\ responses \in 0 .. MaxResponses
    /\ kind \in Seq(Operation) /\ Len(kind) <= MaxProcedures
    /\ ended \in [Procedure -> {"running", "success", "error"}]
    /\ sent \in [Procedure -> Nat]
    /\ outcome \in [Procedure -> Outcome \cup {NoOutcome}]

Init ==
    /\ connected = TRUE /\ operation = "none"
    /\ onOperationDone = None /\ onReadDone = None
    /\ reading = FALSE /\ value = <<>> /\ readLongOverflowed = FALSE
    /\ maxAttMtu = None /\ toConfirm = 0
    /\ linked = TRUE /\ events = <<>> /\ current = None /\ responses = 0 /\ indicating = FALSE
    /\ kind = <<>> /\ misread = FALSE
    /\ ended = [p \in Procedure |-> "running"]
    /\ sent = [p \in Procedure |-> 0]
    /\ outcome = [p \in Procedure |-> NoOutcome]

-----------------------------------------------------------------------------
(* The application starts a procedure, from a callback or from elsewhere.  *)
(* One that is refused changes nothing: a connection that has a procedure  *)
(* under way reports busy, and so may the stack.                           *)

EventsOfType(type) == {i \in 1 .. Len(events) : events[i].type = type}

StackAccepts ==
    /\ connected
    /\ linked
    /\ current = None
    /\ FreesWhenHandled => EventsOfType("procedureComplete") = {}

Issue(operationKind) ==
    /\ Len(kind) < MaxProcedures
    /\ StackAccepts
    /\ kind' = Append(kind, operationKind)
    /\ current' = Len(kind) + 1
    /\ responses' = 0
    /\ UNCHANGED <<connected, maxAttMtu, toConfirm, linked, events, indicating,
                   ended, sent, outcome, misread>>

(* ExchangeMtu, Discover..., Write, WriteLong, Enable... and Disable...    *)
(* A WriteLong of more than 255 bytes is refused before any of this.       *)
Start(operationKind) ==
    /\ operation = "none"
    /\ Issue(operationKind)
    /\ operation' = operationKind
    /\ onOperationDone' = current'
    /\ UNCHANGED <<onReadDone, readLong>>

Read ==
    /\ operation = "none"
    /\ Issue("read")
    /\ operation' = "read"
    /\ onReadDone' = current'
    /\ UNCHANGED <<onOperationDone, readLong>>

ReadLong ==
    /\ operation = "none"
    /\ Issue("readLong")
    /\ value' = <<>>
    /\ operation' = "readLong"
    /\ reading' = TRUE
    /\ readLongOverflowed' = FALSE
    /\ onReadDone' = current'
    /\ UNCHANGED onOperationDone

(* The observers are done with an indication. *)
ConfirmIndication ==
    /\ toConfirm > 0
    /\ toConfirm' = 0
    /\ indicating' = IF connected THEN FALSE ELSE indicating
    /\ UNCHANGED <<connected, operation, callbacks, readLong, maxAttMtu,
                   linked, events, current, responses, history>>

-----------------------------------------------------------------------------
(* The events, handled by the dispatcher in the order they were queued.    *)

Handle(type) ==
    /\ events # <<>>
    /\ Head(events).type = type
    /\ events' = Tail(events)
    /\ UNCHANGED <<linked, current, responses, indicating>>

CallBack(procedure, result, of, length) ==
    outcome' = IF procedure = None THEN outcome
               ELSE [outcome EXCEPT ![procedure] =
                        [result |-> result, of |-> of, length |-> length]]

MtuExchanged ==
    /\ Handle("mtu")
    /\ maxAttMtu' = Head(events).of
    /\ UNCHANGED <<connected, operation, callbacks, readLong, toConfirm, history>>

(* Mutant: they are read as characteristics. *)
Characteristics == "discoverCharacteristics"

IncludedServicesOrCharacteristics ==
    IF operation = "discoverIncludedServices" THEN "discoverIncludedServices" ELSE "discoverCharacteristics"

(* Services and descriptors arrive in events of their own; characteristics *)
(* and included services share one, read by the operation under way.       *)
ReadAs(procedure) ==
    IF kind[procedure] \in {"discoverServices", "discoverDescriptors"}
    THEN kind[procedure]
    ELSE IncludedServicesOrCharacteristics

Discovered ==
    /\ Handle("items")
    /\ misread' = (misread \/ ReadAs(Head(events).of) # kind[Head(events).of])
    /\ UNCHANGED <<client, kind, ended, sent, outcome>>

(* Mutants: every byte is kept; those that are not are forgotten.          *)
All(bytes) == Len(bytes)
NeverTooMany(bytes) == FALSE

Kept(bytes) == IF Room - Len(value) < Len(bytes) THEN Room - Len(value) ELSE Len(bytes)
TooMany(bytes) == Room - Len(value) < Len(bytes)

Accumulate(bytes) ==
    /\ value' = IF reading THEN value \o SubSeq(bytes, 1, Kept(bytes)) ELSE value
    /\ readLongOverflowed' = (readLongOverflowed \/ (reading /\ TooMany(bytes)))
    /\ UNCHANGED reading

ReadResponse ==
    /\ Handle("readResponse")
    /\ IF operation = "readLong" THEN Accumulate(Head(events).bytes) ELSE UNCHANGED readLong
    /\ IF operation = "read"
       THEN /\ operation' = "none"
            /\ onReadDone' = None
            /\ CallBack(onReadDone, "success", Head(events).of, Len(Head(events).bytes))
       ELSE UNCHANGED <<operation, onReadDone, outcome>>
    /\ UNCHANGED <<connected, onOperationDone, maxAttMtu, toConfirm, kind, ended, sent, misread>>

ReadBlobResponse ==
    /\ Handle("readBlobResponse")
    /\ IF operation = "readLong" THEN Accumulate(Head(events).bytes)
                                 ELSE UNCHANGED readLong
    /\ UNCHANGED <<connected, operation, callbacks, maxAttMtu, toConfirm, history>>

ProcedureComplete ==
    /\ Handle("procedureComplete")
    /\ operation' = "none"
    /\ IF operation \in Reads
       THEN onReadDone' = None /\ UNCHANGED onOperationDone
       ELSE onOperationDone' = None /\ UNCHANGED onReadDone
    /\ \/ /\ operation = "readLong"
          /\ reading' = FALSE
          /\ readLongOverflowed' = FALSE
          /\ CallBack(onReadDone,
                      IF readLongOverflowed /\ Head(events).result = "success"
                      THEN "insufficientResources" ELSE Head(events).result,
                      IF reading THEN onReadDone ELSE None,
                      IF reading THEN Len(value) ELSE 0)
       \/ /\ operation # "readLong"
          /\ CallBack(IF operation = "read" THEN onReadDone ELSE onOperationDone,
                      Head(events).result, None, 0)
          /\ UNCHANGED <<reading, readLongOverflowed>>
    /\ UNCHANGED <<connected, value, maxAttMtu, toConfirm, kind, ended, sent, misread>>

(* Mutant: nobody observes indications. *)
NoObserver == 0
Observers == 1

IndicationReceived ==
    /\ Handle("indication")
    /\ toConfirm' = Observers
    /\ UNCHANGED <<connected, operation, callbacks, readLong, maxAttMtu, history>>

Released ==
    /\ Handle("disconnected")
    /\ connected' = FALSE
    /\ operation' = "none"
    /\ reading' = FALSE
    /\ readLongOverflowed' = FALSE
    /\ IF operation \in Reads
       THEN /\ onReadDone' = None
            /\ CallBack(onReadDone, "disconnected", None, 0)
            /\ UNCHANGED onOperationDone
       ELSE /\ onOperationDone' = None
            /\ CallBack(onOperationDone, "disconnected", None, 0)
            /\ UNCHANGED onReadDone
    /\ UNCHANGED <<value, maxAttMtu, toConfirm, kind, ended, sent, misread>>

-----------------------------------------------------------------------------
(* The ST stack: procedures answer and end, the link is lost.              *)

EventOf(type, bytes, result) ==
    [type |-> type, of |-> current, bytes |-> bytes, result |-> result]

Queue(type, bytes, result) == events' = Append(events, EventOf(type, bytes, result))

(* One response: the MTU, some items, the value of a Read or a part of it. *)
Responds ==
    /\ linked
    /\ current # None
    /\ kind[current] \notin Writes
    /\ responses < IF kind[current] \in {"exchangeMtu", "read"} THEN 1 ELSE MaxResponses
    /\ responses' = responses + 1
    /\ \/ kind[current] = "exchangeMtu" /\ Queue("mtu", <<>>, "success") /\ UNCHANGED sent
       \/ kind[current] \in Discoveries /\ Queue("items", <<>>, "success") /\ UNCHANGED sent
       \/ /\ kind[current] \in Reads
          /\ \E n \in 0 .. PartSize :
                /\ Queue(IF responses = 0 THEN "readResponse" ELSE "readBlobResponse",
                         [i \in 1 .. n |-> sent[current] + i], "success")
                /\ sent' = [sent EXCEPT ![current] = @ + n]
    /\ UNCHANGED <<client, linked, current, indicating, kind, ended, outcome, misread>>

(* A Read, a ReadLong and an exchange of the MTU only succeed with their   *)
(* response; a value cannot be refused once it was sent.                   *)
Ends(result) ==
    /\ linked
    /\ current # None
    /\ result = "success" /\ kind[current] \in Reads \cup {"exchangeMtu"} => responses > 0
    /\ result = "error" /\ kind[current] = "read" => responses = 0
    /\ Queue("procedureComplete", <<>>, result)
    /\ ended' = [ended EXCEPT ![current] = result]
    /\ current' = None
    /\ UNCHANGED <<client, linked, responses, indicating, kind, sent, outcome, misread>>

(* The server sends no indication before the last one is confirmed.        *)
Indicates ==
    /\ linked
    /\ ~indicating
    /\ indicating' = TRUE
    /\ events' = Append(events, [type |-> "indication", of |-> None, bytes |-> <<>>, result |-> "success"])
    /\ UNCHANGED <<client, linked, current, responses, history>>

Disconnects ==
    /\ linked
    /\ linked' = FALSE
    /\ current' = None
    /\ indicating' = FALSE
    /\ events' = Append(events, [type |-> "disconnected", of |-> None, bytes |-> <<>>, result |-> "success"])
    /\ UNCHANGED <<client, responses, history>>

-----------------------------------------------------------------------------
Dispatch ==
    \/ MtuExchanged
    \/ Discovered
    \/ ReadResponse
    \/ ReadBlobResponse
    \/ ProcedureComplete
    \/ IndicationReceived
    \/ Released

StackEnds == \E result \in {"success", "error"} : Ends(result)

Next ==
    \/ \E operationKind \in Operation \ Reads : Start(operationKind)
    \/ Read
    \/ ReadLong
    \/ ConfirmIndication
    \/ Dispatch
    \/ Responds
    \/ StackEnds
    \/ Indicates
    \/ Disconnects

(* The dispatcher goes on, the stack ends every procedure (an ATT          *)
(* transaction times out after 30 s) and observers finish an indication.   *)
Fairness ==
    /\ WF_vars(Dispatch)
    /\ WF_vars(StackEnds \/ Responds)
    /\ WF_vars(ConfirmIndication)

Spec == Init /\ [][Next]_vars
FairSpec == Spec /\ Fairness

-----------------------------------------------------------------------------
(* Properties. *)

Pending(procedure) ==
    procedure \in 1 .. Len(kind) /\ outcome[procedure] = NoOutcome

(* A callback is called with how its own procedure went: never before that *)
(* ended (but for a Read, which its value ends), nor with the end or the   *)
(* value of another procedure.  An application told that the exchange of   *)
(* the MTU succeeded finds the MTU of that exchange or of a later one, and *)
(* a ReadLong collects the first bytes of its value, in order.             *)
OwnOutcome ==
    /\ \A i \in 1 .. Len(value) : value[i] = i
    /\ \A p \in 1 .. Len(kind) :
          /\ outcome[p].result = "success" =>
                /\ kind[p] \in Reads => outcome[p].of = p /\ outcome[p].length = sent[p]
                /\ kind[p] = "exchangeMtu" => maxAttMtu >= p
                /\ ended[p] = "success" \/ (kind[p] = "read" /\ ended[p] = "running")
          /\ outcome[p].result = "error" => ended[p] = "error"
          /\ outcome[p].result = "insufficientResources" =>
                kind[p] = "readLong" /\ ended[p] = "success" /\ sent[p] > Room /\ outcome[p].length = Room

(* What a response carries is read as what the procedure asked for.        *)
ReadAsAsked == ~misread

(* Every procedure that was accepted is reported, also when the link is    *)
(* lost, and the server gets its confirmations as long as there is a link. *)
AcceptedIsReported ==
    /\ \A p \in Procedure : Pending(p) ~> ~Pending(p)
    /\ indicating ~> ~indicating
=============================================================================

----------------------------- MODULE GapCentral -----------------------------
(***************************************************************************)
(* hal::GapCentralSt with the parts of hal::GapSt it is built on: a        *)
(* central that discovers devices, connects to one, and keeps that link.   *)
(* The application's requests become commands to the ST stack, which       *)
(* reports with HCI events; the dispatcher hands these over one by one, in *)
(* order, between the timer and the requests.                              *)
(*                                                                         *)
(* Connects are numbered as they are accepted, and a link has the number   *)
(* of the connect that made it.  A callback that is set holds the number   *)
(* of what the application gave it for.                                    *)
(***************************************************************************)
EXTENDS Integers, Sequences, FiniteSets

CONSTANTS
    FreesWhenHandled, \* the ST stack takes no connect before the completion
                      \* of the one before it is handled; when FALSE, it does
                      \* so once it has queued that completion
    MaxAttempts,      \* bound of the model: connects
    MaxProcedures,    \* bound of the model: commands the host has under way
    MaxEvents         \* bound of the model: the peer reports, and a disconnect
                      \* fails, while fewer events are on their way

ASSUME FreesWhenHandledAssumption == FreesWhenHandled \in BOOLEAN
ASSUME MaxAttemptsAssumption == MaxAttempts \in Nat
ASSUME MaxProceduresAssumption == MaxProcedures \in Nat
ASSUME MaxEventsAssumption == MaxEvents \in Nat

None == 0
Attempt == 1 .. MaxAttempts
Number == Attempt \cup {None}

VARIABLES
    (* GapCentralSt and GapSt. *)
    connectionHandle,  \* the link, or None: invalidConnection
    discovering,
    connectFailureResult,
    initiatingStateTimer,
    onConnectDone,
    onCancelConnectDone,
    onDisconnectDone,
    onUpdateConnectionParametersDone,
    onPairAndBondDone,
    onStartDeviceDiscoveryDone,
    onStopDeviceDiscoveryDone,
    state,             \* what StateChanged was last called with
    l2capResponse,     \* the response to a request of this link is scheduled
    (* The ST stack. *)
    events,            \* on their way to the dispatcher
    attempt,           \* the connect it executes, or None
    aborting,          \* it was told to end that
    link,
    procedures,        \* of the link, or of the discovery, under way
    (* What happened, kept by the model. *)
    attempts,          \* connects accepted
    fate,              \* what the stack made of each
    told,              \* what its callback was called with
    asked,             \* <<attempt, result>>: the host had the stack end it so
    late,              \* the timer expired for these after the stack had ended
                       \* them, and before the host knew
    failedAssertion    \* "none", "really_assert" or "assert"

linkCallbacks == <<onDisconnectDone, onUpdateConnectionParametersDone, onPairAndBondDone>>
discoveryCallbacks == <<onStartDeviceDiscoveryDone, onStopDeviceDiscoveryDone>>
connecting == <<connectFailureResult, initiatingStateTimer, onConnectDone, onCancelConnectDone>>
stack == <<events, attempt, aborting, link, procedures>>
history == <<attempts, fate, told, asked, late, failedAssertion>>
vars == <<connectionHandle, discovering, connecting, linkCallbacks, discoveryCallbacks,
          state, l2capResponse, stack, history>>

FailureResult == {"connectionFailed", "timeout", "cancelled"}

(* "discovery" until it ends, "stopping" once it was told to; the others   *)
(* are of the link.                                                        *)
Procedure == {"discovery", "stopping", "update", "pairing", "terminate"}

Event == [type : {"connectionComplete", "connectionFailed", "connectProcedureComplete",
                  "discoveryProcedureComplete", "disconnectionComplete", "disconnectionFailed",
                  "updateComplete", "pairingComplete", "linkChange", "l2capRequest"},
          of : Number]

TypeOK ==
    /\ connectionHandle \in Number
    /\ discovering \in BOOLEAN
    /\ connectFailureResult \in FailureResult
    /\ initiatingStateTimer \in BOOLEAN
    /\ onConnectDone \in Number
    /\ onCancelConnectDone \in Number
    /\ onDisconnectDone \in Number
    /\ onUpdateConnectionParametersDone \in Number
    /\ onPairAndBondDone \in Number
    /\ onStartDeviceDiscoveryDone \in BOOLEAN
    /\ onStopDeviceDiscoveryDone \in BOOLEAN
    /\ state \in {"standby", "scanning", "initiating", "connected"}
    /\ l2capResponse \in Number
    /\ events \in Seq(Event)
    /\ attempt \in Number
    /\ aborting \in BOOLEAN
    /\ link \in Number
    /\ procedures \subseteq Procedure
    /\ attempts \in 0 .. MaxAttempts
    /\ fate \in [Attempt -> {"open", "connected", "ended"}]
    /\ told \in [Attempt -> FailureResult \cup {"none", "success"}]
    /\ asked \subseteq Attempt \X FailureResult
    /\ late \subseteq Attempt
    /\ failedAssertion \in {"none", "really_assert", "assert"}

Init ==
    /\ connectionHandle = None
    /\ discovering = FALSE
    /\ connectFailureResult = "connectionFailed"
    /\ initiatingStateTimer = FALSE
    /\ onConnectDone = None
    /\ onCancelConnectDone = None
    /\ onDisconnectDone = None
    /\ onUpdateConnectionParametersDone = None
    /\ onPairAndBondDone = None
    /\ onStartDeviceDiscoveryDone = FALSE
    /\ onStopDeviceDiscoveryDone = FALSE
    /\ state = "standby"
    /\ l2capResponse = None
    /\ events = <<>>
    /\ attempt = None
    /\ aborting = FALSE
    /\ link = None
    /\ procedures = {}
    /\ attempts = 0
    /\ fate = [a \in Attempt |-> "open"]
    /\ told = [a \in Attempt |-> "none"]
    /\ asked = {}
    /\ late = {}
    /\ failedAssertion = "none"

-----------------------------------------------------------------------------
(* The application's requests.  One that is refused changes nothing, but   *)
(* for CancelConnect.                                                      *)

Queued(type) == \E i \in 1 .. Len(events) : events[i].type = type

(* Mutant: the result of the connect before is kept. *)
KeptResult == connectFailureResult

(* Mutant: a connect that ends by itself has no result. *)
NoResult == "none"

InitialResult == "connectionFailed"

Connect ==
    /\ connectionHandle = None
    /\ onConnectDone = None
    /\ attempts < MaxAttempts
    /\ attempt = None
    /\ FreesWhenHandled => ~Queued("connectProcedureComplete")
    /\ attempts' = attempts + 1
    /\ attempt' = attempts'
    /\ aborting' = FALSE
    /\ connectFailureResult' = InitialResult
    /\ onConnectDone' = attempts'
    /\ state' = "initiating"
    /\ initiatingStateTimer' = TRUE
    /\ UNCHANGED <<connectionHandle, discovering, onCancelConnectDone, linkCallbacks,
                   discoveryCallbacks, l2capResponse, events, link, procedures, fate, told,
                   asked, late, failedAssertion>>

(* The stack ends a connect that is not over yet. *)
TerminateAccepted == attempt # None

CancelConnect ==
    /\ onConnectDone # None
    /\ onCancelConnectDone = None
    /\ initiatingStateTimer' = FALSE
    /\ IF TerminateAccepted
       THEN /\ aborting' = TRUE
            /\ connectFailureResult' = "cancelled"
            /\ onCancelConnectDone' = onConnectDone
            /\ asked' = asked \cup {<<onConnectDone, "cancelled">>}
       ELSE UNCHANGED <<aborting, connectFailureResult, onCancelConnectDone, asked>>
    /\ UNCHANGED <<connectionHandle, discovering, onConnectDone, linkCallbacks,
                   discoveryCallbacks, state, l2capResponse, events, attempt, link,
                   procedures, attempts, fate, told, late, failedAssertion>>

(* The stack takes a command for a link that is there, and one of a kind.  *)
LinkCommand(procedure) ==
    /\ connectionHandle # None
    /\ connectionHandle = link
    /\ procedure \notin procedures
    /\ Cardinality(procedures) < MaxProcedures
    /\ procedures' = procedures \cup {procedure}
    /\ UNCHANGED <<connectionHandle, discovering, connecting, discoveryCallbacks, state,
                   l2capResponse, events, attempt, aborting, link, history>>

Disconnect ==
    /\ onDisconnectDone = None
    /\ LinkCommand("terminate")
    /\ onDisconnectDone' = connectionHandle
    /\ UNCHANGED <<onUpdateConnectionParametersDone, onPairAndBondDone>>

UpdateConnectionParameters ==
    /\ onUpdateConnectionParametersDone = None
    /\ LinkCommand("update")
    /\ onUpdateConnectionParametersDone' = connectionHandle
    /\ UNCHANGED <<onDisconnectDone, onPairAndBondDone>>

PairAndBond ==
    /\ onPairAndBondDone = None
    /\ LinkCommand("pairing")
    /\ onPairAndBondDone' = connectionHandle
    /\ UNCHANGED <<onDisconnectDone, onUpdateConnectionParametersDone>>

StartDeviceDiscovery ==
    /\ ~discovering
    /\ ~onStartDeviceDiscoveryDone
    /\ "discovery" \notin procedures
    /\ Cardinality(procedures) < MaxProcedures
    /\ procedures' = procedures \cup {"discovery"}
    /\ discovering' = TRUE
    /\ state' = "scanning"
    /\ onStartDeviceDiscoveryDone' = TRUE
    /\ UNCHANGED <<connectionHandle, connecting, linkCallbacks, onStopDeviceDiscoveryDone,
                   l2capResponse, events, attempt, aborting, link, history>>

StopDeviceDiscovery ==
    /\ discovering
    /\ ~onStopDeviceDiscoveryDone
    /\ "discovery" \in procedures
    /\ procedures' = procedures \cup {"stopping"}
    /\ onStopDeviceDiscoveryDone' = TRUE
    /\ UNCHANGED <<connectionHandle, discovering, connecting, linkCallbacks,
                   onStartDeviceDiscoveryDone, state, l2capResponse, events, attempt,
                   aborting, link, history>>

-----------------------------------------------------------------------------
(* The dispatcher: the timer and what was scheduled. *)

(* Mutant: the connect goes on. *)
DoNotTerminate == UNCHANGED aborting

TerminateGapProcedure == aborting' = TerminateAccepted

(* The result is set whether or not there is a connect left to terminate.  *)
InitiatingTimeout ==
    /\ initiatingStateTimer
    /\ initiatingStateTimer' = FALSE
    /\ connectFailureResult' = "timeout"
    /\ TerminateGapProcedure
    /\ IF TerminateAccepted
       THEN asked' = asked \cup {<<onConnectDone, "timeout">>} /\ UNCHANGED late
       ELSE late' = late \cup {onConnectDone} /\ UNCHANGED asked
    /\ UNCHANGED <<connectionHandle, discovering, onConnectDone, onCancelConnectDone,
                   linkCallbacks, discoveryCallbacks, state, l2capResponse, events, attempt,
                   link, procedures, attempts, fate, told, failedAssertion>>

CompleteStartDeviceDiscovery ==
    /\ onStartDeviceDiscoveryDone
    /\ onStartDeviceDiscoveryDone' = FALSE
    /\ UNCHANGED <<connectionHandle, discovering, connecting, linkCallbacks,
                   onStopDeviceDiscoveryDone, state, l2capResponse, stack, history>>

(* The response goes to the link that is there by now; the stack takes it  *)
(* when that still waits for it, and updates the link.                     *)
L2capRespond ==
    /\ l2capResponse # None
    /\ l2capResponse' = None
    /\ IF connectionHandle = link /\ link = l2capResponse
       THEN procedures' = procedures \cup {"update"} /\ UNCHANGED failedAssertion
       ELSE failedAssertion' = "assert" /\ UNCHANGED procedures
    /\ UNCHANGED <<connectionHandle, discovering, connecting, linkCallbacks,
                   discoveryCallbacks, state, events, attempt, aborting, link,
                   attempts, fate, told, asked, late>>

-----------------------------------------------------------------------------
(* The dispatcher: the events. *)

Handle(type) ==
    /\ events # <<>>
    /\ Head(events).type = type
    /\ events' = Tail(events)
    /\ UNCHANGED <<attempt, aborting, link, procedures, attempts, fate, asked, late>>

Of == Head(events).of
ReallyAssert(condition) ==
    failedAssertion' = IF condition THEN failedAssertion ELSE "really_assert"

Tell(result) ==
    /\ told' = IF onConnectDone = None THEN told ELSE [told EXCEPT ![onConnectDone] = result]
    /\ onConnectDone' = None

ConnectionComplete ==
    /\ Handle("connectionComplete")
    /\ connectionHandle' = Of
    /\ state' = "connected"
    /\ initiatingStateTimer' = FALSE
    /\ Tell("success")
    /\ UNCHANGED <<discovering, connectFailureResult, onCancelConnectDone, linkCallbacks,
                   discoveryCallbacks, l2capResponse, failedAssertion>>

ConnectionFailed ==
    /\ Handle("connectionFailed")
    /\ state' = "standby"
    /\ initiatingStateTimer' = FALSE
    /\ Tell(connectFailureResult)
    /\ UNCHANGED <<connectionHandle, discovering, connectFailureResult, onCancelConnectDone,
                   linkCallbacks, discoveryCallbacks, l2capResponse, failedAssertion>>

Ignored == initiatingStateTimer \/ connectionHandle # None

ConnectProcedureComplete ==
    /\ Handle("connectProcedureComplete")
    /\ IF Ignored
       THEN UNCHANGED <<onConnectDone, onCancelConnectDone, told, state>>
       ELSE /\ Tell(connectFailureResult)
            /\ onCancelConnectDone' = None
            /\ state' = "standby"
    /\ UNCHANGED <<connectionHandle, discovering, connectFailureResult, initiatingStateTimer,
                   linkCallbacks, discoveryCallbacks, l2capResponse, failedAssertion>>

(* Mutant: a discovery that ends by itself is not noticed. *)
DiscoveringUntilStopped == discovering' = (discovering /\ ~onStopDeviceDiscoveryDone)

NoLongerDiscovering == discovering' = FALSE

DiscoveryComplete ==
    /\ Handle("discoveryProcedureComplete")
    /\ NoLongerDiscovering
    /\ state' = "standby"
    /\ onStopDeviceDiscoveryDone' = FALSE
    /\ UNCHANGED <<connectionHandle, connecting, linkCallbacks, onStartDeviceDiscoveryDone,
                   l2capResponse, told, failedAssertion>>

DisconnectionComplete ==
    /\ Handle("disconnectionComplete")
    /\ ReallyAssert(connectionHandle = Of)
    /\ connectionHandle' = None
    /\ state' = "standby"
    /\ onDisconnectDone' = None
    /\ UNCHANGED <<discovering, connecting, onUpdateConnectionParametersDone,
                   onPairAndBondDone, discoveryCallbacks, l2capResponse, told>>

(* The link stays, although the observers are told of standby. *)
DisconnectionFailed ==
    /\ Handle("disconnectionFailed")
    /\ ReallyAssert(connectionHandle = Of)
    /\ state' = "standby"
    /\ onDisconnectDone' = None
    /\ UNCHANGED <<connectionHandle, discovering, connecting, onUpdateConnectionParametersDone,
                   onPairAndBondDone, discoveryCallbacks, l2capResponse, told>>

UpdateComplete ==
    /\ Handle("updateComplete")
    /\ onUpdateConnectionParametersDone' =
         IF connectionHandle = Of THEN None ELSE onUpdateConnectionParametersDone
    /\ UNCHANGED <<connectionHandle, discovering, connecting, onDisconnectDone,
                   onPairAndBondDone, discoveryCallbacks, state, l2capResponse, told,
                   failedAssertion>>

PairingComplete ==
    /\ Handle("pairingComplete")
    /\ ReallyAssert(connectionHandle = Of)
    /\ onPairAndBondDone' = None
    /\ UNCHANGED <<connectionHandle, discovering, connecting, onDisconnectDone,
                   onUpdateConnectionParametersDone, discoveryCallbacks, state,
                   l2capResponse, told>>

(* A GATT procedure, the data length or the PHY of the link. *)
LinkChange ==
    /\ Handle("linkChange")
    /\ ReallyAssert(connectionHandle = Of)
    /\ UNCHANGED <<connectionHandle, discovering, connecting, linkCallbacks,
                   discoveryCallbacks, state, l2capResponse, told>>

L2capConnectionUpdateRequest ==
    /\ Handle("l2capRequest")
    /\ l2capResponse' = Of
    /\ UNCHANGED <<connectionHandle, discovering, connecting, linkCallbacks,
                   discoveryCallbacks, state, told, failedAssertion>>

-----------------------------------------------------------------------------
(* The ST stack. *)

Stays == <<connectionHandle, discovering, connecting, linkCallbacks, discoveryCallbacks,
           state, l2capResponse, attempts, told, asked, late, failedAssertion>>

EventOf(type, of) == [type |-> type, of |-> of]

Establishes ==
    /\ attempt # None
    /\ ~aborting
    /\ attempt' = None
    /\ link' = attempt
    /\ fate' = [fate EXCEPT ![attempt] = "connected"]
    /\ events' = events \o <<EventOf("connectionComplete", attempt),
                             EventOf("connectProcedureComplete", attempt)>>
    /\ UNCHANGED <<aborting, procedures, Stays>>

(* A connect that fails by itself is reported as a connection that failed; *)
(* one that the host ends may be.                                          *)
Fails ==
    /\ attempt # None
    /\ attempt' = None
    /\ aborting' = FALSE
    /\ fate' = [fate EXCEPT ![attempt] = "ended"]
    /\ \/ events' = events \o <<EventOf("connectionFailed", attempt),
                                EventOf("connectProcedureComplete", attempt)>>
       \/ aborting /\ events' = Append(events, EventOf("connectProcedureComplete", attempt))
    /\ UNCHANGED <<link, procedures, Stays>>

OfLink == {"update", "pairing", "terminate"}

(* The link is lost, or terminated; a pairing may be reported before.      *)
LosesLink ==
    /\ link # None
    /\ link' = None
    /\ procedures' = procedures \ OfLink
    /\ \/ events' = Append(events, EventOf("disconnectionComplete", link))
       \/ /\ "pairing" \in procedures
          /\ events' = events \o <<EventOf("pairingComplete", link),
                                   EventOf("disconnectionComplete", link)>>
    /\ UNCHANGED <<attempt, aborting, fate, Stays>>

LinkFinishes(procedure, type) ==
    /\ procedure \in procedures
    /\ procedures' = procedures \ {procedure}
    /\ events' = Append(events, EventOf(type, link))
    /\ UNCHANGED <<attempt, aborting, link, fate, Stays>>

FinishesUpdate == LinkFinishes("update", "updateComplete")
FinishesPairing == LinkFinishes("pairing", "pairingComplete")
FailsToTerminate == Len(events) < MaxEvents /\ LinkFinishes("terminate", "disconnectionFailed")

(* A general discovery ends by itself after a while. *)
FinishesDiscovery ==
    /\ "discovery" \in procedures
    /\ procedures' = procedures \ {"discovery", "stopping"}
    /\ events' = Append(events, EventOf("discoveryProcedureComplete", None))
    /\ UNCHANGED <<attempt, aborting, link, fate, Stays>>

(* The peer, or the stack for it. *)
Reports ==
    /\ link # None
    /\ Len(events) < MaxEvents
    /\ \/ events' = Append(events, EventOf("linkChange", link))
       \/ /\ ~Queued("l2capRequest") /\ l2capResponse = None
          /\ events' = Append(events, EventOf("l2capRequest", link))
    /\ UNCHANGED <<attempt, aborting, link, procedures, fate, Stays>>

-----------------------------------------------------------------------------
HandleEvent ==
    \/ ConnectionComplete
    \/ ConnectionFailed
    \/ ConnectProcedureComplete
    \/ DiscoveryComplete
    \/ DisconnectionComplete
    \/ DisconnectionFailed
    \/ UpdateComplete
    \/ PairingComplete
    \/ LinkChange
    \/ L2capConnectionUpdateRequest

Next ==
    \/ Connect
    \/ CancelConnect
    \/ Disconnect
    \/ UpdateConnectionParameters
    \/ PairAndBond
    \/ StartDeviceDiscovery
    \/ StopDeviceDiscovery
    \/ InitiatingTimeout
    \/ CompleteStartDeviceDiscovery
    \/ L2capRespond
    \/ HandleEvent
    \/ Establishes
    \/ Fails
    \/ LosesLink
    \/ FinishesUpdate
    \/ FinishesPairing
    \/ FailsToTerminate
    \/ FinishesDiscovery
    \/ Reports

(* The dispatcher goes on, and the stack does what it was told to; a link  *)
(* may stay, a device may never be there to connect to.                    *)
Fairness ==
    /\ WF_vars(HandleEvent)
    /\ WF_vars(InitiatingTimeout)
    /\ WF_vars(CompleteStartDeviceDiscovery)
    /\ WF_vars(L2capRespond)
    /\ WF_vars(aborting /\ Fails)
    /\ WF_vars("terminate" \in procedures /\ LosesLink)
    /\ WF_vars(FinishesUpdate)
    /\ WF_vars(FinishesPairing)
    /\ WF_vars(FinishesDiscovery)

Spec == Init /\ [][Next]_vars
FairSpec == Spec /\ Fairness

-----------------------------------------------------------------------------
(* Properties. *)

EndedByItself(a) == \A result \in FailureResult : <<a, result>> \notin asked

TimedOut(a) == \/ <<a, "timeout">> \in asked
               \/ a \in late /\ EndedByItself(a)

(* A connect is told what became of it: connected, cancelled or timed out  *)
(* when the host had the stack end it so, failed when it ended by itself;  *)
(* except that one which ended by itself is told that it timed out when    *)
(* the timer expires before its end is handled.  It is told of an end when *)
(* that has come, and its callback is in place until then.                 *)
ToldAsItWas ==
    \A a \in 1 .. attempts :
        CASE told[a] = "none" -> onConnectDone = a
          [] told[a] = "success" -> fate[a] = "connected"
          [] told[a] = "connectionFailed" -> fate[a] = "ended" /\ EndedByItself(a)
          [] told[a] = "cancelled" -> fate[a] = "ended" /\ <<a, "cancelled">> \in asked
          [] OTHER -> fate[a] = "ended" /\ TimedOut(a)

(* With no event on its way, the central knows the stack's link, connect   *)
(* and discovery: none is leaked, and none is thought to be there.  The    *)
(* observers were told of a connection last only if the central has one,   *)
(* and no event comes before its link is known or after it is forgotten:   *)
(* the central's assertions about that hold.                               *)
ContextMatchesStack ==
    /\ failedAssertion # "really_assert"
    /\ state = "connected" => connectionHandle # None
    /\ events = <<>> =>
        /\ connectionHandle = link
        /\ onConnectDone # None <=> attempt # None
        /\ discovering <=> "discovery" \in procedures

(* The stack takes the response to a connection parameter update request,  *)
(* as the central asserts.                                                 *)
L2capResponseAccepted == failedAssertion # "assert"

(* Every connect ends, in a connection or by its timeout at last, and its  *)
(* cancellation is reported; a disconnect and the end of a discovery are   *)
(* reported; an update and a pairing are, unless their link is lost.       *)
RequestsReported ==
    /\ onConnectDone # None ~> onConnectDone = None
    /\ onCancelConnectDone # None ~> onCancelConnectDone = None
    /\ onDisconnectDone # None ~> onDisconnectDone = None
    /\ onStopDeviceDiscoveryDone ~> ~onStopDeviceDiscoveryDone
    /\ onUpdateConnectionParametersDone # None ~>
           onUpdateConnectionParametersDone \in {None} \cup (Attempt \ {connectionHandle})
    /\ onPairAndBondDone # None ~>
           onPairAndBondDone \in {None} \cup (Attempt \ {connectionHandle})
=============================================================================

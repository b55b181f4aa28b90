-------------------------- MODULE GapCentralProofs --------------------------
(***************************************************************************)
(* What the application is told of a connect is true, and with no event on *)
(* its way the central knows the stack's link, connect and discovery, for  *)
(* any number of connects and of events.  Of the stack it is assumed that  *)
(* it takes no connect before the end of the one before it is handled.     *)
(***************************************************************************)
EXTENDS GapCentral, SequenceTheorems, TLAPS

CentralTypes ==
    /\ connectionHandle \in Number
    /\ discovering \in BOOLEAN
    /\ connectFailureResult \in FailureResult
    /\ initiatingStateTimer \in BOOLEAN
    /\ onConnectDone \in Number
    /\ onCancelConnectDone \in Number
    /\ onDisconnectDone \in Number
    /\ onUpdateConnectionParametersDone \in Number
    /\ onPairAndBondDone \in Number
    /\ onStartDeviceDiscoveryDone \in BOOLEAN
    /\ onStopDeviceDiscoveryDone \in BOOLEAN
    /\ state \in {"standby", "scanning", "initiating", "connected"}
    /\ l2capResponse \in Number

StackTypes ==
    /\ attempt \in Number
    /\ aborting \in BOOLEAN
    /\ link \in Number
    /\ procedures \subseteq Procedure

HistoryTypes ==
    /\ attempts \in 0 .. MaxAttempts
    /\ fate \in [Attempt -> {"open", "connected", "ended"}]
    /\ told \in [Attempt -> FailureResult \cup {"none", "success"}]
    /\ asked \subseteq Attempt \X FailureResult
    /\ late \subseteq Attempt
    /\ failedAssertion \in {"none", "really_assert", "assert"}

Types == CentralTypes /\ StackTypes /\ HistoryTypes /\ events \in Seq(Event)

ConnectEvents == {"connectionComplete", "connectionFailed", "connectProcedureComplete"}
LinkEvents == {"disconnectionComplete", "disconnectionFailed", "updateComplete",
               "pairingComplete", "linkChange", "l2capRequest"}

(* The timer runs for a connect. *)
TimerInv == initiatingStateTimer => onConnectDone # None

Once(type) == \A i, j \in DOMAIN events : events[i].type = type /\ events[j].type = type => i = j

(* The events of a connect and of a link are of the last connect. *)
Numbered ==
    \A i \in DOMAIN events : events[i].type \in ConnectEvents \cup LinkEvents =>
        events[i].of = attempts /\ attempts # None

(* After a connect's completion or failure its procedure completes.        *)
Paired ==
    \A i \in DOMAIN events : events[i].type \in {"connectionComplete", "connectionFailed"} =>
        i + 1 \in DOMAIN events /\ events[i + 1].type = "connectProcedureComplete"

(* A link's events follow its connection, and its end is the last of them. *)
Ordered ==
    \A i, j \in DOMAIN events :
        /\ events[i].type = "connectionComplete" /\ events[j].type \in LinkEvents => i < j
        /\ events[i].type = "disconnectionComplete" /\ events[j].type \in LinkEvents => j <= i

QueueInv ==
    /\ Numbered /\ Paired /\ Ordered
    /\ Once("connectProcedureComplete") /\ Once("discoveryProcedureComplete")

(* The callback of a connect is in place until its end is handled, and the *)
(* result it will be told of an end is that of who ended it, or of a timer *)
(* that expired too late.                                                  *)
ResultIs(a, result) ==
    /\ result = "connectionFailed" => EndedByItself(a)
    /\ result = "cancelled" => <<a, "cancelled">> \in asked
    /\ result = "timeout" => TimedOut(a)

AttemptInv ==
    /\ attempt # None => /\ onConnectDone = attempt /\ link = None /\ connectionHandle = None
                         /\ \A type \in ConnectEvents \cup LinkEvents : ~Queued(type)
    /\ onConnectDone # None => /\ onConnectDone = attempts
                               /\ told[attempts] = "none"
                               /\ attempt # None \/ Queued("connectProcedureComplete")
                               /\ ResultIs(attempts, connectFailureResult)
                               /\ connectionHandle = None
    /\ initiatingStateTimer => ~aborting /\ EndedByItself(attempts)

(* The events of a connect tell what became of it, and the end of one that *)
(* did not fail by itself finds the timer stopped.                         *)
ConnectInv ==
    /\ Queued("connectionComplete") => fate[attempts] = "connected" /\ connectionHandle = None
    /\ Queued("connectionFailed") => fate[attempts] = "ended"
    /\ Queued("connectProcedureComplete") =>
          \/ Queued("connectionComplete") \/ Queued("connectionFailed")
          \/ ~initiatingStateTimer /\ (onConnectDone # None => fate[attempts] = "ended")

ToldInv ==
    /\ \A a \in Attempt : a > attempts => told[a] = "none"
    /\ \A a \in Attempt : told[a] = "none" /\ a <= attempts => onConnectDone = a
    /\ \A a \in Attempt :
          /\ told[a] = "success" => fate[a] = "connected"
          /\ told[a] \in FailureResult => fate[a] = "ended"
          /\ ResultIs(a, told[a])
    /\ \A a \in Attempt : a > attempts => EndedByItself(a)

(* A link that one side has and the other has not, there is an event of.   *)
LinkInv ==
    /\ (\E type \in LinkEvents : Queued(type)) => connectionHandle = attempts \/ Queued("connectionComplete")
    /\ link # None => /\ link = attempts /\ ~Queued("disconnectionComplete")
                      /\ connectionHandle = attempts \/ Queued("connectionComplete")
    /\ connectionHandle # None => connectionHandle = attempts
    /\ connectionHandle # None \/ Queued("connectionComplete") =>
          link = attempts \/ Queued("disconnectionComplete")
    /\ procedures \cap OfLink # {} => link # None
    /\ state = "connected" => connectionHandle # None
    /\ failedAssertion # "really_assert"

(* A discovery is under way, or its end is. *)
DiscoveryInv ==
    /\ discovering <=> "discovery" \in procedures \/ Queued("discoveryProcedureComplete")
    /\ "discovery" \in procedures => ~Queued("discoveryProcedureComplete")

Inv ==
    /\ Types /\ TimerInv /\ QueueInv
    /\ AttemptInv /\ ConnectInv /\ ToldInv /\ LinkInv /\ DiscoveryInv

-----------------------------------------------------------------------------
(* The queue of events. *)

(* An event has a type and is of a connect or of none. *)
LEMMA EventIs ==
    ASSUME events \in Seq(Event)
    PROVE  /\ Len(events) \in Nat /\ DOMAIN events = 1 .. Len(events)
           /\ \A i \in 1 .. Len(events) : events[i] \in Event /\ events[i].of \in Number
           /\ \A type : Queued(type) <=> \E i \in 1 .. Len(events) : events[i].type = type
<1>1. Len(events) \in Nat /\ DOMAIN events = 1 .. Len(events)
    BY LenProperties
<1>2. \A i \in 1 .. Len(events) : events[i] \in Event
    BY ElementOfSeq
<1>3. \A one \in Event : one.of \in Number
    BY DEF Event
<1> QED BY <1>1, <1>2, <1>3 DEF Queued

(* The dispatcher hands over the first event. *)
LEMMA HandleIs ==
    ASSUME Types, NEW type, Handle(type)
    PROVE  /\ events' \in Seq(Event) /\ Of \in Number
           /\ Len(events) \in Nat /\ Len(events) > 0
           /\ DOMAIN events = 1 .. Len(events) /\ DOMAIN events' = 1 .. Len(events) - 1
           /\ events[1].type = type /\ events[1].of = Of
           /\ \A i \in 1 .. Len(events) - 1 : i + 1 \in 1 .. Len(events) /\ events'[i] = events[i + 1]
           /\ \A one : Queued(one) <=> one = type \/ Queued(one)'
<1>1. events \in Seq(Event) /\ events # <<>> /\ events' = Tail(events) /\ Head(events).type = type
    BY DEF Types, Handle
<1>2. /\ Len(events) \in Nat /\ Len(events) > 0 /\ Head(events) = events[1]
      /\ events' \in Seq(Event) /\ Len(events') = Len(events) - 1
      /\ \A i \in 1 .. Len(events) - 1 : events'[i] = events[i + 1]
    BY <1>1, HeadTailProperties, LenProperties
<1>3. DOMAIN events = 1 .. Len(events) /\ DOMAIN events' = 1 .. Len(events) - 1
    BY <1>1, <1>2, LenProperties
<1>4. Of \in Number
    BY <1>1, <1>2, EventIs DEF Of
<1>5. \A i \in 1 .. Len(events) - 1 : i + 1 \in 1 .. Len(events)
    BY <1>2
<1>6. ASSUME NEW one
      PROVE  Queued(one) <=> one = type \/ Queued(one)'
  <2>1. ASSUME NEW i \in 1 .. Len(events), events[i].type = one
        PROVE  one = type \/ \E j \in 1 .. Len(events) - 1 : events'[j].type = one
    <3>1. CASE i = 1
        BY <1>1, <1>2, <2>1, <3>1
    <3>2. CASE i # 1
      <4>1. i - 1 \in 1 .. Len(events) - 1 /\ i - 1 + 1 = i
          BY <1>2, <3>2
      <4> QED BY <1>2, <2>1, <4>1
    <3> QED BY <3>1, <3>2
  <2>2. 1 \in 1 .. Len(events)
      BY <1>2
  <2> QED BY <1>1, <1>2, <1>3, <1>5, <2>1, <2>2 DEF Queued
<1> QED BY <1>1, <1>2, <1>3, <1>4, <1>5, <1>6 DEF Of

(* The stack reports an event. *)
LEMMA AppendIs ==
    ASSUME Types, NEW one \in Event, events' = Append(events, one)
    PROVE  /\ events' \in Seq(Event)
           /\ Len(events) \in Nat
           /\ DOMAIN events = 1 .. Len(events) /\ DOMAIN events' = 1 .. Len(events) + 1
           /\ \A i \in 1 .. Len(events) : i \in 1 .. Len(events) + 1 /\ events'[i] = events[i]
           /\ Len(events) + 1 \in 1 .. Len(events) + 1 /\ events'[Len(events) + 1] = one
           /\ \A i \in 1 .. Len(events) + 1 : i \in 1 .. Len(events) \/ i = Len(events) + 1
           /\ \A type : Queued(type)' <=> Queued(type) \/ type = one.type
<1>1. events \in Seq(Event)
    BY DEF Types
<1>2. /\ events' \in Seq(Event) /\ Len(events) \in Nat /\ Len(events') = Len(events) + 1
      /\ \A i \in 1 .. Len(events) : events'[i] = events[i]
      /\ events'[Len(events) + 1] = one
    BY <1>1, AppendProperties, LenProperties
<1>3. DOMAIN events = 1 .. Len(events) /\ DOMAIN events' = 1 .. Len(events) + 1
    BY <1>1, <1>2, LenProperties
<1>4. /\ \A i \in 1 .. Len(events) : i \in 1 .. Len(events) + 1
      /\ Len(events) + 1 \in 1 .. Len(events) + 1
      /\ \A i \in 1 .. Len(events) + 1 : i \in 1 .. Len(events) \/ i = Len(events) + 1
    BY <1>2
<1>5. \A type : Queued(type)' <=> Queued(type) \/ type = one.type
    BY <1>2, <1>3, <1>4 DEF Queued
<1> QED BY <1>2, <1>3, <1>4, <1>5

(* The stack reports two events at once. *)
LEMMA AppendTwoIs ==
    ASSUME Types, NEW one \in Event, NEW two \in Event, events' = events \o <<one, two>>
    PROVE  /\ events' \in Seq(Event)
           /\ Len(events) \in Nat
           /\ DOMAIN events = 1 .. Len(events) /\ DOMAIN events' = 1 .. Len(events) + 2
           /\ \A i \in 1 .. Len(events) : i \in 1 .. Len(events) + 2 /\ events'[i] = events[i]
           /\ Len(events) + 1 \in 1 .. Len(events) + 2 /\ events'[Len(events) + 1] = one
           /\ Len(events) + 2 \in 1 .. Len(events) + 2 /\ events'[Len(events) + 2] = two
           /\ \A i \in 1 .. Len(events) + 2 :
                i \in 1 .. Len(events) \/ i = Len(events) + 1 \/ i = Len(events) + 2
           /\ \A type : Queued(type)' <=> Queued(type) \/ type = one.type \/ type = two.type
<1>1. events \in Seq(Event) /\ <<one, two>> \in Seq(Event) /\ Len(<<one, two>>) = 2
    BY DEF Types
<1>2. /\ events' \in Seq(Event) /\ Len(events) \in Nat /\ Len(events') = Len(events) + 2
      /\ \A i \in 1 .. Len(events) + 2 :
           events'[i] = IF i <= Len(events) THEN events[i] ELSE <<one, two>>[i - Len(events)]
    BY <1>1, ConcatProperties, LenProperties
<1>3. DOMAIN events = 1 .. Len(events) /\ DOMAIN events' = 1 .. Len(events) + 2
    BY <1>1, <1>2, LenProperties
<1>4. /\ \A i \in 1 .. Len(events) : i \in 1 .. Len(events) + 2 /\ i <= Len(events)
      /\ Len(events) + 1 \in 1 .. Len(events) + 2 /\ ~(Len(events) + 1 <= Len(events))
      /\ Len(events) + 2 \in 1 .. Len(events) + 2 /\ ~(Len(events) + 2 <= Len(events))
      /\ Len(events) + 1 - Len(events) = 1 /\ Len(events) + 2 - Len(events) = 2
      /\ \A i \in 1 .. Len(events) + 2 :
            i \in 1 .. Len(events) \/ i = Len(events) + 1 \/ i = Len(events) + 2
    BY <1>2
<1>5. /\ \A i \in 1 .. Len(events) : events'[i] = events[i]
      /\ events'[Len(events) + 1] = one /\ events'[Len(events) + 2] = two
    BY <1>2, <1>4
<1>6. \A type : Queued(type)' <=> Queued(type) \/ type = one.type \/ type = two.type
    BY <1>3, <1>4, <1>5 DEF Queued
<1> QED BY <1>2, <1>3, <1>4, <1>5, <1>6

(* Handing over an event keeps the queue in order, and which events there  *)
(* are no more of.                                                         *)
LEMMA HandleQueue ==
    ASSUME Types, QueueInv, NEW type, Handle(type)
    PROVE  /\ QueueInv'
           /\ type \in ConnectEvents \cup LinkEvents => Of = attempts /\ attempts # None
           /\ type \in ConnectEvents => ~Queued("connectionComplete")' /\ ~Queued("connectionFailed")'
           /\ type \in {"connectionComplete",
              "connectionFailed"} => Queued("connectProcedureComplete")'
           /\ type \in {"connectProcedureComplete", "discoveryProcedureComplete"} => ~Queued(type)'
           /\ type \in LinkEvents => ~Queued("connectionComplete")
           /\ type = "disconnectionComplete" => \A one \in LinkEvents : ~Queued(one)'
<1>1. /\ Len(events) \in Nat /\ Len(events) > 0 /\ 1 \in 1 .. Len(events)
      /\ DOMAIN events = 1 .. Len(events) /\ DOMAIN events' = 1 .. Len(events) - 1
      /\ events[1].type = type /\ events[1].of = Of
      /\ \A i \in 1 .. Len(events) - 1 : i + 1 \in 1 .. Len(events) /\ events'[i] = events[i + 1]
      /\ UNCHANGED attempts
    BY HandleIs DEF Handle
<1>2. \A one : Once(one) => Once(one)' /\ (one = type => ~Queued(one)')
  <2>1. SUFFICES ASSUME NEW one, Once(one)
                 PROVE  Once(one)' /\ (one = type => ~Queued(one)')
      OBVIOUS
  <2>2. ASSUME NEW i \in 1 .. Len(events) - 1, NEW j \in 1 .. Len(events) - 1,
               events'[i].type = one, events'[j].type = one
        PROVE  i = j
    <3>1. i + 1 = j + 1
        BY <1>1, <2>1, <2>2 DEF Once
    <3> QED BY <3>1
  <2>3. ASSUME NEW i \in 1 .. Len(events) - 1, events'[i].type = one, one = type
        PROVE  FALSE
    <3>1. i + 1 = 1
        BY <1>1, <2>1, <2>3 DEF Once
    <3> QED BY <3>1
  <2> QED BY <1>1, <2>2, <2>3 DEF Once, Queued
<1>3. Numbered'
    BY <1>1 DEF QueueInv, Numbered
<1>4. Paired'
  <2>1. SUFFICES ASSUME NEW i \in 1 .. Len(events) - 1,
                        events'[i].type \in {"connectionComplete", "connectionFailed"}
                 PROVE  i + 1 \in 1 .. Len(events) - 1 /\ events'[i + 1].type = "connectProcedureComplete"
      BY <1>1 DEF Paired
  <2>2. i + 1 + 1 \in 1 .. Len(events) /\ events[i + 1 + 1].type = "connectProcedureComplete"
      BY <1>1, <2>1 DEF QueueInv, Paired
  <2>3. i + 1 \in 1 .. Len(events) - 1
      BY <1>1, <2>2
  <2> QED BY <1>1, <2>2, <2>3
<1>5. Ordered'
  <2>1. SUFFICES ASSUME NEW i \in 1 .. Len(events) - 1, NEW j \in 1 .. Len(events) - 1
                 PROVE  /\ events'[i].type = "connectionComplete" /\ events'[j].type \in LinkEvents => i < j
                        /\ events'[i].type = "disconnectionComplete" /\ events'[j].type \in LinkEvents => j <= i
      BY <1>1 DEF Ordered
  <2>2. /\ events[i + 1].type = "connectionComplete" /\ events[j + 1].type \in LinkEvents => i + 1 < j + 1
        /\ events[i + 1].type = "disconnectionComplete" /\ events[j + 1].type \in LinkEvents => j + 1 <= i + 1
      BY <1>1 DEF QueueInv, Ordered
  <2> QED BY <1>1, <2>2
<1>6. type \in ConnectEvents \cup LinkEvents => Of = attempts /\ attempts # None
    BY <1>1 DEF QueueInv, Numbered
<1>7. type \in {"connectionComplete", "connectionFailed"} =>
        1 \in 1 .. Len(events) - 1 /\ events'[1].type = "connectProcedureComplete"
  <2>1. type \in {"connectionComplete", "connectionFailed"} =>
            1 + 1 \in 1 .. Len(events) /\ events[1 + 1].type = "connectProcedureComplete"
      BY <1>1 DEF QueueInv, Paired
  <2>2. 1 + 1 \in 1 .. Len(events) => 1 \in 1 .. Len(events) - 1
      BY <1>1
  <2> QED BY <1>1, <2>1, <2>2
<1>8. ASSUME type \in ConnectEvents, NEW i \in 1 .. Len(events) - 1,
             events'[i].type \in {"connectionComplete", "connectionFailed"}
      PROVE  FALSE
  <2>1. i + 1 + 1 \in 1 .. Len(events) /\ events[i + 1 + 1].type = "connectProcedureComplete"
      BY <1>1, <1>8 DEF QueueInv, Paired
  <2>2. CASE type = "connectProcedureComplete"
    <3>1. i + 1 + 1 = 1
        BY <1>1, <2>1, <2>2 DEF QueueInv, Once
    <3> QED BY <3>1
  <2>3. CASE type \in {"connectionComplete", "connectionFailed"}
    <3>1. 1 + 1 \in 1 .. Len(events) /\ events[1 + 1].type = "connectProcedureComplete"
        BY <1>1, <1>7, <2>3
    <3>2. i + 1 + 1 = 1 + 1
        BY <1>1, <2>1, <3>1 DEF QueueInv, Once
    <3> QED BY <3>2
  <2> QED BY <1>8, <2>2, <2>3 DEF ConnectEvents
<1>9. ASSUME type \in LinkEvents, NEW i \in 1 .. Len(events), events[i].type = "connectionComplete"
      PROVE  FALSE
    BY <1>1, <1>9 DEF QueueInv, Ordered
<1>10. ASSUME type = "disconnectionComplete", NEW i \in 1 .. Len(events) - 1,
       events'[i].type \in LinkEvents
       PROVE  FALSE
  <2>1. i + 1 <= 1
      BY <1>1, <1>10 DEF QueueInv, Ordered
  <2> QED BY <2>1
<1> QED BY <1>1, <1>2, <1>3, <1>4, <1>5, <1>6, <1>7, <1>8, <1>9, <1>10 DEF QueueInv, Queued

(* What keeps the queue in order when an event is reported. *)
LEMMA AppendQueue ==
    ASSUME Types, QueueInv, NEW one \in Event, events' = Append(events, one), UNCHANGED attempts,
           one.type \notin {"connectionComplete", "connectionFailed"},
           one.type \in ConnectEvents \cup LinkEvents => one.of = attempts /\ attempts # None,
           one.type \in {"connectProcedureComplete",
           "discoveryProcedureComplete"} => ~Queued(one.type),
           one.type \in LinkEvents => ~Queued("disconnectionComplete")
    PROVE  QueueInv'
<1> DEFINE n == Len(events)
<1>1. /\ n \in Nat /\ DOMAIN events = 1 .. n /\ DOMAIN events' = 1 .. n + 1
      /\ \A i \in 1 .. n : i \in 1 .. n + 1 /\ events'[i] = events[i]
      /\ events'[n + 1] = one
      /\ \A i \in 1 .. n + 1 : i \in 1 .. n \/ i = n + 1
    BY AppendIs
<1> HIDE DEF n
<1>2. Numbered'
    BY <1>1 DEF QueueInv, Numbered
<1>3. Paired'
    BY <1>1 DEF QueueInv, Paired
<1>4. Ordered'
    BY <1>1 DEF QueueInv, Ordered, Queued
<1>5. Once("connectProcedureComplete")' /\ Once("discoveryProcedureComplete")'
    BY <1>1 DEF QueueInv, Once, Queued
<1> QED BY <1>2, <1>3, <1>4, <1>5 DEF QueueInv

(* The two events of a connect, and those of a link that is lost while it  *)
(* is being paired.                                                        *)
LEMMA AppendTwoQueue ==
    ASSUME Types, QueueInv, NEW one \in Event, NEW two \in Event, events' = events \o <<one, two>>,
           UNCHANGED attempts, attempts # None, one.of = attempts, two.of = attempts,
           \/ /\ one.type \in {"connectionComplete", "connectionFailed"}
              /\ two.type = "connectProcedureComplete"
              /\ \A type \in ConnectEvents \cup LinkEvents : ~Queued(type)
           \/ /\ one.type = "pairingComplete" /\ two.type = "disconnectionComplete"
              /\ ~Queued("disconnectionComplete")
    PROVE  QueueInv'
<1> DEFINE n == Len(events)
<1>1. /\ n \in Nat /\ DOMAIN events = 1 .. n /\ DOMAIN events' = 1 .. n + 2
      /\ \A i \in 1 .. n : i \in 1 .. n + 2 /\ events'[i] = events[i]
      /\ n + 1 \in 1 .. n + 2 /\ events'[n + 1] = one
      /\ n + 2 \in 1 .. n + 2 /\ events'[n + 2] = two
      /\ \A i \in 1 .. n + 2 : i \in 1 .. n \/ i = n + 1 \/ i = n + 2
    BY AppendTwoIs
<1> HIDE DEF n
<1>2. Numbered'
    BY <1>1 DEF QueueInv, Numbered
<1>3. Paired'
    BY <1>1 DEF QueueInv, Paired
<1>4. Ordered'
    BY <1>1 DEF QueueInv, Ordered, Queued, ConnectEvents, LinkEvents
<1>5. Once("connectProcedureComplete")'
  <2>1. two.type = "connectProcedureComplete" => ~Queued("connectProcedureComplete")
      BY DEF ConnectEvents
  <2> QED BY <1>1, <2>1 DEF QueueInv, Once, Queued
<1>6. Once("discoveryProcedureComplete")'
    BY <1>1 DEF QueueInv, Once
<1> QED BY <1>2, <1>3, <1>4, <1>5, <1>6 DEF QueueInv

-----------------------------------------------------------------------------
(* The steps. *)

(* Every step keeps the types. *)
LEMMA TypesStep ==
    ASSUME Types, TimerInv, [Next]_vars
    PROVE  Types'
<1>1. CentralTypes /\ StackTypes /\ HistoryTypes /\ events \in Seq(Event)
    BY DEF Types
<1>2. /\ Number = 0 .. MaxAttempts /\ Attempt = 1 .. MaxAttempts /\ None = 0 /\ MaxAttempts \in Nat
      /\ initiatingStateTimer => onConnectDone # None
    BY MaxAttemptsAssumption DEF Number, Attempt, None, TimerInv
<1>3. CASE Connect
  <2>1. events' \in Seq(Event)
      BY <1>1, <1>3 DEF Connect, InitialResult, stack
  <2>2. CentralTypes'
    <3>1. attempts' \in Number
        BY <1>1, <1>2, <1>3 DEF Connect, HistoryTypes
    <3> QED BY <1>1, <3>1, <1>3
               DEF Connect, InitialResult, linkCallbacks, discoveryCallbacks, CentralTypes,
                   FailureResult
  <2>3. StackTypes'
    <3>1. attempts' \in Number
        BY <1>1, <1>2, <1>3 DEF Connect, HistoryTypes
    <3> QED BY <1>1, <3>1, <1>3 DEF Connect, StackTypes
  <2>4. HistoryTypes'
      BY <1>1, <1>2, <1>3
         DEF Connect, InitialResult, linkCallbacks, discoveryCallbacks, connecting, stack, history,
             HistoryTypes, Number, Attempt, None, FailureResult
  <2> QED BY <2>1, <2>2, <2>3, <2>4 DEF Types
<1>4. CASE CancelConnect
  <2>1. events' \in Seq(Event)
      BY <1>1, <1>4 DEF CancelConnect, TerminateAccepted, stack
  <2>2. CentralTypes'
      BY <1>1, <1>2, <1>4
         DEF CancelConnect, TerminateAccepted, linkCallbacks, discoveryCallbacks, connecting,
             stack, history, CentralTypes, Number, Attempt, None, FailureResult
  <2>3. StackTypes'
      BY <1>1, <1>2, <1>4
         DEF CancelConnect, TerminateAccepted, linkCallbacks, discoveryCallbacks, connecting,
             stack, history, StackTypes, Procedure, Number, Attempt, None
  <2>4. HistoryTypes'
    <3>1. <<onConnectDone, "cancelled">> \in Attempt \X FailureResult
          /\ <<onConnectDone, "timeout">> \in Attempt \X FailureResult
      <4>1. onConnectDone \in Attempt
          BY <1>1, <1>2, <1>4 DEF CancelConnect, CentralTypes
      <4> QED BY <4>1 DEF FailureResult
    <3>2. /\ \/ UNCHANGED asked
             \/ asked' = asked \cup {<<onConnectDone, "cancelled">>}
          /\ UNCHANGED <<attempts, fate, told, late, failedAssertion>>
        BY <1>4 DEF CancelConnect
    <3>3. asked' \subseteq Attempt \X FailureResult
        BY <1>1, <3>1, <3>2 DEF HistoryTypes
    <3> QED BY <1>1, <3>2, <3>3 DEF HistoryTypes
  <2> QED BY <2>1, <2>2, <2>3, <2>4 DEF Types
<1>5. CASE Disconnect
  <2>1. events' \in Seq(Event)
      BY <1>1, <1>5 DEF Disconnect, LinkCommand, stack
  <2>2. CentralTypes'
      BY <1>1, <1>2, <1>5
         DEF Disconnect, LinkCommand, linkCallbacks, discoveryCallbacks, connecting, stack,
             history, CentralTypes, Number, Attempt, None, FailureResult
  <2>3. StackTypes'
      BY <1>1, <1>2, <1>5
         DEF Disconnect, LinkCommand, linkCallbacks, discoveryCallbacks, connecting, stack,
             history, StackTypes, Procedure, Number, Attempt, None
  <2>4. HistoryTypes'
      BY <1>1, <1>2, <1>5
         DEF Disconnect, LinkCommand, linkCallbacks, discoveryCallbacks, connecting, stack,
             history, HistoryTypes, Number, Attempt, None, FailureResult
  <2> QED BY <2>1, <2>2, <2>3, <2>4 DEF Types
<1>6. CASE UpdateConnectionParameters
  <2>1. events' \in Seq(Event)
      BY <1>1, <1>6 DEF UpdateConnectionParameters, LinkCommand, stack
  <2>2. CentralTypes'
      BY <1>1, <1>2, <1>6
         DEF UpdateConnectionParameters, LinkCommand, linkCallbacks, discoveryCallbacks,
             connecting, stack, history, CentralTypes, Number, Attempt, None, FailureResult
  <2>3. StackTypes'
      BY <1>1, <1>2, <1>6
         DEF UpdateConnectionParameters, LinkCommand, linkCallbacks, discoveryCallbacks,
             connecting, stack, history, StackTypes, Procedure, Number, Attempt, None
  <2>4. HistoryTypes'
      BY <1>1, <1>2, <1>6
         DEF UpdateConnectionParameters, LinkCommand, linkCallbacks, discoveryCallbacks,
             connecting, stack, history, HistoryTypes, Number, Attempt, None, FailureResult
  <2> QED BY <2>1, <2>2, <2>3, <2>4 DEF Types
<1>7. CASE PairAndBond
  <2>1. events' \in Seq(Event)
      BY <1>1, <1>7 DEF PairAndBond, LinkCommand, stack
  <2>2. CentralTypes'
      BY <1>1, <1>2, <1>7
         DEF PairAndBond, LinkCommand, linkCallbacks, discoveryCallbacks, connecting, stack,
             history, CentralTypes, Number, Attempt, None, FailureResult
  <2>3. StackTypes'
      BY <1>1, <1>2, <1>7
         DEF PairAndBond, LinkCommand, linkCallbacks, discoveryCallbacks, connecting, stack,
             history, StackTypes, Procedure, Number, Attempt, None
  <2>4. HistoryTypes'
      BY <1>1, <1>2, <1>7
         DEF PairAndBond, LinkCommand, linkCallbacks, discoveryCallbacks, connecting, stack,
             history, HistoryTypes, Number, Attempt, None, FailureResult
  <2> QED BY <2>1, <2>2, <2>3, <2>4 DEF Types
<1>8. CASE StartDeviceDiscovery
  <2>1. events' \in Seq(Event)
      BY <1>1, <1>8 DEF StartDeviceDiscovery, stack
  <2>2. CentralTypes'
      BY <1>1, <1>2, <1>8
         DEF StartDeviceDiscovery, linkCallbacks, discoveryCallbacks, connecting, stack, history,
             CentralTypes, Number, Attempt, None, FailureResult
  <2>3. StackTypes'
      BY <1>1, <1>2, <1>8
         DEF StartDeviceDiscovery, linkCallbacks, discoveryCallbacks, connecting, stack, history,
             StackTypes, Procedure, Number, Attempt, None
  <2>4. HistoryTypes'
      BY <1>1, <1>2, <1>8
         DEF StartDeviceDiscovery, linkCallbacks, discoveryCallbacks, connecting, stack, history,
             HistoryTypes, Number, Attempt, None, FailureResult
  <2> QED BY <2>1, <2>2, <2>3, <2>4 DEF Types
<1>9. CASE StopDeviceDiscovery
  <2>1. events' \in Seq(Event)
      BY <1>1, <1>9 DEF StopDeviceDiscovery, stack
  <2>2. CentralTypes'
      BY <1>1, <1>2, <1>9
         DEF StopDeviceDiscovery, linkCallbacks, discoveryCallbacks, connecting, stack, history,
             CentralTypes, Number, Attempt, None, FailureResult
  <2>3. StackTypes'
      BY <1>1, <1>2, <1>9
         DEF StopDeviceDiscovery, linkCallbacks, discoveryCallbacks, connecting, stack, history,
             StackTypes, Procedure, Number, Attempt, None
  <2>4. HistoryTypes'
      BY <1>1, <1>2, <1>9
         DEF StopDeviceDiscovery, linkCallbacks, discoveryCallbacks, connecting, stack, history,
             HistoryTypes, Number, Attempt, None, FailureResult
  <2> QED BY <2>1, <2>2, <2>3, <2>4 DEF Types
<1>10. CASE InitiatingTimeout
  <2>1. events' \in Seq(Event)
      BY <1>1, <1>10 DEF InitiatingTimeout, TerminateGapProcedure, TerminateAccepted, stack
  <2>2. CentralTypes'
      BY <1>1, <1>2, <1>10
         DEF InitiatingTimeout, TerminateGapProcedure, TerminateAccepted, linkCallbacks,
             discoveryCallbacks, connecting, stack, history, CentralTypes, Number, Attempt, None,
             FailureResult
  <2>3. StackTypes'
      BY <1>1, <1>2, <1>10
         DEF InitiatingTimeout, TerminateGapProcedure, TerminateAccepted, linkCallbacks,
             discoveryCallbacks, connecting, stack, history, StackTypes, Procedure, Number,
             Attempt, None
  <2>4. HistoryTypes'
    <3>1. <<onConnectDone, "cancelled">> \in Attempt \X FailureResult
          /\ <<onConnectDone, "timeout">> \in Attempt \X FailureResult
      <4>1. onConnectDone \in Attempt
          BY <1>1, <1>2, <1>10 DEF InitiatingTimeout, CentralTypes
      <4> QED BY <4>1 DEF FailureResult
    <3>2. /\ \/ UNCHANGED asked
             \/ asked' = asked \cup {<<onConnectDone, "cancelled">>}
             \/ asked' = asked \cup {<<onConnectDone, "timeout">>}
          /\ \/ UNCHANGED late
             \/ onConnectDone \in Attempt /\ late' = late \cup {onConnectDone}
          /\ UNCHANGED <<attempts, fate, told, failedAssertion>>
        BY <1>1, <1>2, <1>10 DEF InitiatingTimeout, CentralTypes
    <3>3. asked' \subseteq Attempt \X FailureResult /\ late' \subseteq Attempt
        BY <1>1, <3>1, <3>2 DEF HistoryTypes
    <3> QED BY <1>1, <3>2, <3>3 DEF HistoryTypes
  <2> QED BY <2>1, <2>2, <2>3, <2>4 DEF Types
<1>11. CASE CompleteStartDeviceDiscovery
  <2>1. events' \in Seq(Event)
      BY <1>1, <1>11 DEF CompleteStartDeviceDiscovery, stack
  <2>2. CentralTypes'
    <3>1. /\ onStartDeviceDiscoveryDone' = FALSE
          /\ UNCHANGED <<connectionHandle, discovering, connectFailureResult, initiatingStateTimer,
                         onConnectDone, onCancelConnectDone, onDisconnectDone,
                         onUpdateConnectionParametersDone, onPairAndBondDone,
                         onStopDeviceDiscoveryDone, state, l2capResponse>>
        BY <1>11 DEF CompleteStartDeviceDiscovery, linkCallbacks, connecting
    <3> QED BY <1>1, <3>1 DEF CentralTypes
  <2>3. StackTypes'
      BY <1>1, <1>2, <1>11
         DEF CompleteStartDeviceDiscovery, linkCallbacks, discoveryCallbacks, connecting, stack,
             history, StackTypes, Procedure, Number, Attempt, None
  <2>4. HistoryTypes'
      BY <1>1, <1>2, <1>11
         DEF CompleteStartDeviceDiscovery, linkCallbacks, discoveryCallbacks, connecting, stack,
             history, HistoryTypes, Number, Attempt, None, FailureResult
  <2> QED BY <2>1, <2>2, <2>3, <2>4 DEF Types
<1>12. CASE L2capRespond
  <2>1. events' \in Seq(Event)
      BY <1>1, <1>12 DEF L2capRespond, stack
  <2>2. CentralTypes'
      BY <1>1, <1>2, <1>12
         DEF L2capRespond, linkCallbacks, discoveryCallbacks, connecting, stack, history,
             CentralTypes, Number, Attempt, None, FailureResult
  <2>3. StackTypes'
      BY <1>1, <1>2, <1>12
         DEF L2capRespond, linkCallbacks, discoveryCallbacks, connecting, stack, history,
             StackTypes, Procedure, Number, Attempt, None
  <2>4. HistoryTypes'
      BY <1>1, <1>2, <1>12
         DEF L2capRespond, linkCallbacks, discoveryCallbacks, connecting, stack, history,
             HistoryTypes, Number, Attempt, None, FailureResult
  <2> QED BY <2>1, <2>2, <2>3, <2>4 DEF Types
<1>13. CASE ConnectionComplete
  <2>5. Handle("connectionComplete")
      BY <1>13 DEF ConnectionComplete
  <2>1. events' \in Seq(Event) /\ Of \in Number
      BY <1>1, <2>5, HandleIs DEF Types
  <2>2. CentralTypes'
      BY <1>1, <1>2, <2>1, <1>13
         DEF ConnectionComplete, Tell, linkCallbacks, discoveryCallbacks, connecting, stack,
             history, CentralTypes, Number, Attempt, None, FailureResult
  <2>3. StackTypes'
      BY <1>1, <2>5 DEF Handle, StackTypes
  <2>4. HistoryTypes'
      BY <1>1, <1>2, <2>5, <1>13
         DEF Handle, ConnectionComplete, Tell, linkCallbacks, discoveryCallbacks, connecting,
             stack, history, HistoryTypes, Number, Attempt, None, FailureResult
  <2> QED BY <2>1, <2>2, <2>3, <2>4 DEF Types
<1>14. CASE ConnectionFailed
  <2>5. Handle("connectionFailed")
      BY <1>14 DEF ConnectionFailed
  <2>1. events' \in Seq(Event) /\ Of \in Number
      BY <1>1, <2>5, HandleIs DEF Types
  <2>2. CentralTypes'
      BY <1>1, <1>2, <2>1, <1>14
         DEF ConnectionFailed, Tell, linkCallbacks, discoveryCallbacks, connecting, stack, history,
             CentralTypes, Number, Attempt, None, FailureResult
  <2>3. StackTypes'
      BY <1>1, <2>5 DEF Handle, StackTypes
  <2>4. HistoryTypes'
    <3>1. \/ UNCHANGED told
          \/ onConnectDone \in Attempt /\ told' = [told EXCEPT ![onConnectDone] = connectFailureResult]
        BY <1>1, <1>2, <1>14 DEF ConnectionFailed, Tell, CentralTypes
    <3>2. told' \in [Attempt -> FailureResult \cup {"none", "success"}]
        BY <1>1, <3>1 DEF CentralTypes, HistoryTypes
    <3>3. UNCHANGED <<attempts, fate, asked, late, failedAssertion>>
        BY <2>5, <1>14 DEF Handle, ConnectionFailed
    <3> QED BY <1>1, <3>2, <3>3 DEF HistoryTypes
  <2> QED BY <2>1, <2>2, <2>3, <2>4 DEF Types
<1>15. CASE ConnectProcedureComplete
  <2>5. Handle("connectProcedureComplete")
      BY <1>15 DEF ConnectProcedureComplete
  <2>1. events' \in Seq(Event) /\ Of \in Number
      BY <1>1, <2>5, HandleIs DEF Types
  <2>2. CentralTypes'
      BY <1>1, <1>2, <2>1, <1>15
         DEF ConnectProcedureComplete, Tell, Ignored, linkCallbacks, discoveryCallbacks,
             connecting, stack, history, CentralTypes, Number, Attempt, None, FailureResult
  <2>3. StackTypes'
      BY <1>1, <2>5 DEF Handle, StackTypes
  <2>4. HistoryTypes'
    <3>1. \/ UNCHANGED told
          \/ onConnectDone \in Attempt /\ told' = [told EXCEPT ![onConnectDone] = connectFailureResult]
        BY <1>1, <1>2, <1>15 DEF ConnectProcedureComplete, Tell, CentralTypes
    <3>2. told' \in [Attempt -> FailureResult \cup {"none", "success"}]
        BY <1>1, <3>1 DEF CentralTypes, HistoryTypes
    <3>3. UNCHANGED <<attempts, fate, asked, late, failedAssertion>>
        BY <2>5, <1>15 DEF Handle, ConnectProcedureComplete
    <3> QED BY <1>1, <3>2, <3>3 DEF HistoryTypes
  <2> QED BY <2>1, <2>2, <2>3, <2>4 DEF Types
<1>16. CASE DiscoveryComplete
  <2>5. Handle("discoveryProcedureComplete")
      BY <1>16 DEF DiscoveryComplete
  <2>1. events' \in Seq(Event) /\ Of \in Number
      BY <1>1, <2>5, HandleIs DEF Types
  <2>2. CentralTypes'
      BY <1>1, <1>2, <2>1, <1>16
         DEF DiscoveryComplete, NoLongerDiscovering, linkCallbacks, discoveryCallbacks, connecting,
             stack, history, CentralTypes, Number, Attempt, None, FailureResult
  <2>3. StackTypes'
      BY <1>1, <2>5 DEF Handle, StackTypes
  <2>4. HistoryTypes'
      BY <1>1, <1>2, <2>5, <1>16
         DEF Handle, DiscoveryComplete, NoLongerDiscovering, linkCallbacks, discoveryCallbacks,
             connecting, stack, history, HistoryTypes, Number, Attempt, None, FailureResult
  <2> QED BY <2>1, <2>2, <2>3, <2>4 DEF Types
<1>17. CASE DisconnectionComplete
  <2>5. Handle("disconnectionComplete")
      BY <1>17 DEF DisconnectionComplete
  <2>1. events' \in Seq(Event) /\ Of \in Number
      BY <1>1, <2>5, HandleIs DEF Types
  <2>2. CentralTypes'
      BY <1>1, <1>2, <2>1, <1>17
         DEF DisconnectionComplete, ReallyAssert, linkCallbacks, discoveryCallbacks, connecting,
             stack, history, CentralTypes, Number, Attempt, None, FailureResult
  <2>3. StackTypes'
      BY <1>1, <2>5 DEF Handle, StackTypes
  <2>4. HistoryTypes'
      BY <1>1, <1>2, <2>5, <1>17
         DEF Handle, DisconnectionComplete, ReallyAssert, linkCallbacks, discoveryCallbacks,
             connecting, stack, history, HistoryTypes, Number, Attempt, None, FailureResult
  <2> QED BY <2>1, <2>2, <2>3, <2>4 DEF Types
<1>18. CASE UpdateComplete
  <2>5. Handle("updateComplete")
      BY <1>18 DEF UpdateComplete
  <2>1. events' \in Seq(Event) /\ Of \in Number
      BY <1>1, <2>5, HandleIs DEF Types
  <2>2. CentralTypes'
      BY <1>1, <1>2, <2>1, <1>18
         DEF UpdateComplete, linkCallbacks, discoveryCallbacks, connecting, stack, history,
             CentralTypes, Number, Attempt, None, FailureResult
  <2>3. StackTypes'
      BY <1>1, <2>5 DEF Handle, StackTypes
  <2>4. HistoryTypes'
      BY <1>1, <1>2, <2>5, <1>18
         DEF Handle, UpdateComplete, linkCallbacks, discoveryCallbacks, connecting, stack, history,
             HistoryTypes, Number, Attempt, None, FailureResult
  <2> QED BY <2>1, <2>2, <2>3, <2>4 DEF Types
<1>19. CASE PairingComplete
  <2>5. Handle("pairingComplete")
      BY <1>19 DEF PairingComplete
  <2>1. events' \in Seq(Event) /\ Of \in Number
      BY <1>1, <2>5, HandleIs DEF Types
  <2>2. CentralTypes'
      BY <1>1, <1>2, <2>1, <1>19
         DEF PairingComplete, ReallyAssert, linkCallbacks, discoveryCallbacks, connecting, stack,
             history, CentralTypes, Number, Attempt, None, FailureResult
  <2>3. StackTypes'
      BY <1>1, <2>5 DEF Handle, StackTypes
  <2>4. HistoryTypes'
      BY <1>1, <1>2, <2>5, <1>19
         DEF Handle, PairingComplete, ReallyAssert, linkCallbacks, discoveryCallbacks, connecting,
             stack, history, HistoryTypes, Number, Attempt, None, FailureResult
  <2> QED BY <2>1, <2>2, <2>3, <2>4 DEF Types
<1>20. CASE LinkChange
  <2>5. Handle("linkChange")
      BY <1>20 DEF LinkChange
  <2>1. events' \in Seq(Event) /\ Of \in Number
      BY <1>1, <2>5, HandleIs DEF Types
  <2>2. CentralTypes'
      BY <1>1, <1>2, <2>1, <1>20
         DEF LinkChange, ReallyAssert, linkCallbacks, discoveryCallbacks, connecting, stack,
             history, CentralTypes, Number, Attempt, None, FailureResult
  <2>3. StackTypes'
      BY <1>1, <2>5 DEF Handle, StackTypes
  <2>4. HistoryTypes'
      BY <1>1, <1>2, <2>5, <1>20
         DEF Handle, LinkChange, ReallyAssert, linkCallbacks, discoveryCallbacks, connecting,
             stack, history, HistoryTypes, Number, Attempt, None, FailureResult
  <2> QED BY <2>1, <2>2, <2>3, <2>4 DEF Types
<1>40. CASE DisconnectionFailed
  <2>5. Handle("disconnectionFailed")
      BY <1>40 DEF DisconnectionFailed
  <2>1. events' \in Seq(Event) /\ Of \in Number
      BY <1>1, <2>5, HandleIs DEF Types
  <2>2. CentralTypes'
      BY <1>1, <1>2, <2>1, <1>40
         DEF DisconnectionFailed, ReallyAssert, linkCallbacks, discoveryCallbacks, connecting, stack,
             history, CentralTypes, Number, Attempt, None, FailureResult
  <2>3. StackTypes'
      BY <1>1, <2>5 DEF Handle, StackTypes
  <2>4. HistoryTypes'
      BY <1>1, <1>2, <2>5, <1>40
         DEF Handle, DisconnectionFailed, ReallyAssert, linkCallbacks, discoveryCallbacks, connecting,
             stack, history, HistoryTypes, Number, Attempt, None, FailureResult
  <2> QED BY <2>1, <2>2, <2>3, <2>4 DEF Types
<1>21. CASE L2capConnectionUpdateRequest
  <2>5. Handle("l2capRequest")
      BY <1>21 DEF L2capConnectionUpdateRequest
  <2>1. events' \in Seq(Event) /\ Of \in Number
      BY <1>1, <2>5, HandleIs DEF Types
  <2>2. CentralTypes'
      BY <1>1, <1>2, <2>1, <1>21
         DEF L2capConnectionUpdateRequest, linkCallbacks, discoveryCallbacks, connecting, stack,
             history, CentralTypes, Number, Attempt, None, FailureResult
  <2>3. StackTypes'
      BY <1>1, <2>5 DEF Handle, StackTypes
  <2>4. HistoryTypes'
      BY <1>1, <1>2, <2>5, <1>21
         DEF Handle, L2capConnectionUpdateRequest, linkCallbacks, discoveryCallbacks, connecting,
             stack, history, HistoryTypes, Number, Attempt, None, FailureResult
  <2> QED BY <2>1, <2>2, <2>3, <2>4 DEF Types
<1>22. CASE Establishes
  <2>1. events' \in Seq(Event)
    <3>1. /\ EventOf("connectionComplete", attempt) \in Event
          /\ EventOf("connectProcedureComplete", attempt) \in Event
        BY <1>1 DEF StackTypes, EventOf, Event
    <3> QED BY <1>1, <3>1, <1>22, AppendTwoIs DEF Establishes, Types
  <2>2. CentralTypes'
      BY <1>1, <1>2, <1>22
         DEF Establishes, Stays, linkCallbacks, discoveryCallbacks, connecting, stack, history,
             CentralTypes, Number, Attempt, None, FailureResult
  <2>3. StackTypes'
      BY <1>1, <1>2, <1>22
         DEF Establishes, Stays, linkCallbacks, discoveryCallbacks, connecting, stack, history,
             StackTypes, Procedure, Number, Attempt, None
  <2>4. HistoryTypes'
      BY <1>1, <1>2, <1>22
         DEF Establishes, Stays, linkCallbacks, discoveryCallbacks, connecting, stack, history,
             HistoryTypes, Number, Attempt, None, FailureResult
  <2> QED BY <2>1, <2>2, <2>3, <2>4 DEF Types
<1>23. CASE Fails
  <2>1. events' \in Seq(Event)
    <3>1. /\ EventOf("connectionFailed", attempt) \in Event
          /\ EventOf("connectProcedureComplete", attempt) \in Event
        BY <1>1 DEF StackTypes, EventOf, Event
    <3> QED BY <1>1, <3>1, <1>23, AppendIs, AppendTwoIs DEF Fails, Types
  <2>2. CentralTypes'
      BY <1>1, <1>2, <1>23
         DEF Fails, Stays, linkCallbacks, discoveryCallbacks, connecting, stack, history,
             CentralTypes, Number, Attempt, None, FailureResult
  <2>3. StackTypes'
      BY <1>1, <1>2, <1>23
         DEF Fails, Stays, linkCallbacks, discoveryCallbacks, connecting, stack, history,
             StackTypes, Procedure, Number, Attempt, None
  <2>4. HistoryTypes'
      BY <1>1, <1>2, <1>23
         DEF Fails, Stays, linkCallbacks, discoveryCallbacks, connecting, stack, history,
             HistoryTypes, Number, Attempt, None, FailureResult
  <2> QED BY <2>1, <2>2, <2>3, <2>4 DEF Types
<1>24. CASE LosesLink
  <2>1. events' \in Seq(Event)
    <3>1. EventOf("pairingComplete", link) \in Event /\ EventOf("disconnectionComplete",
          link) \in Event
        BY <1>1 DEF StackTypes, EventOf, Event
    <3> QED BY <1>1, <3>1, <1>24, AppendIs, AppendTwoIs DEF LosesLink, Types
  <2>2. CentralTypes'
      BY <1>1, <1>2, <1>24
         DEF LosesLink, OfLink, Stays, linkCallbacks, discoveryCallbacks, connecting, stack,
             history, CentralTypes, Number, Attempt, None, FailureResult
  <2>3. StackTypes'
      BY <1>1, <1>2, <1>24
         DEF LosesLink, OfLink, Stays, linkCallbacks, discoveryCallbacks, connecting, stack,
             history, StackTypes, Procedure, Number, Attempt, None
  <2>4. HistoryTypes'
      BY <1>1, <1>2, <1>24
         DEF LosesLink, OfLink, Stays, linkCallbacks, discoveryCallbacks, connecting, stack,
             history, HistoryTypes, Number, Attempt, None, FailureResult
  <2> QED BY <2>1, <2>2, <2>3, <2>4 DEF Types
<1>25. CASE FinishesUpdate
  <2>1. events' \in Seq(Event)
    <3>1. EventOf("updateComplete", link) \in Event
        BY <1>1 DEF StackTypes, EventOf, Event
    <3> QED BY <1>1, <3>1, <1>25, AppendIs DEF FinishesUpdate, LinkFinishes, Types
  <2>2. CentralTypes'
      BY <1>1, <1>2, <1>25
         DEF FinishesUpdate, LinkFinishes, Stays, linkCallbacks, discoveryCallbacks, connecting,
             stack, history, CentralTypes, Number, Attempt, None, FailureResult
  <2>3. StackTypes'
      BY <1>1, <1>2, <1>25
         DEF FinishesUpdate, LinkFinishes, Stays, linkCallbacks, discoveryCallbacks, connecting,
             stack, history, StackTypes, Procedure, Number, Attempt, None
  <2>4. HistoryTypes'
      BY <1>1, <1>2, <1>25
         DEF FinishesUpdate, LinkFinishes, Stays, linkCallbacks, discoveryCallbacks, connecting,
             stack, history, HistoryTypes, Number, Attempt, None, FailureResult
  <2> QED BY <2>1, <2>2, <2>3, <2>4 DEF Types
<1>26. CASE FinishesPairing
  <2>1. events' \in Seq(Event)
    <3>1. EventOf("pairingComplete", link) \in Event
        BY <1>1 DEF StackTypes, EventOf, Event
    <3> QED BY <1>1, <3>1, <1>26, AppendIs DEF FinishesPairing, LinkFinishes, Types
  <2>2. CentralTypes'
      BY <1>1, <1>2, <1>26
         DEF FinishesPairing, LinkFinishes, Stays, linkCallbacks, discoveryCallbacks, connecting,
             stack, history, CentralTypes, Number, Attempt, None, FailureResult
  <2>3. StackTypes'
      BY <1>1, <1>2, <1>26
         DEF FinishesPairing, LinkFinishes, Stays, linkCallbacks, discoveryCallbacks, connecting,
             stack, history, StackTypes, Procedure, Number, Attempt, None
  <2>4. HistoryTypes'
      BY <1>1, <1>2, <1>26
         DEF FinishesPairing, LinkFinishes, Stays, linkCallbacks, discoveryCallbacks, connecting,
             stack, history, HistoryTypes, Number, Attempt, None, FailureResult
  <2> QED BY <2>1, <2>2, <2>3, <2>4 DEF Types
<1>41. CASE FailsToTerminate
  <2>1. events' \in Seq(Event)
    <3>1. EventOf("disconnectionFailed", link) \in Event
        BY <1>1 DEF StackTypes, EventOf, Event
    <3> QED BY <1>1, <3>1, <1>41, AppendIs DEF FailsToTerminate, LinkFinishes, Types
  <2>2. CentralTypes'
      BY <1>1, <1>2, <1>41
         DEF FailsToTerminate, LinkFinishes, Stays, linkCallbacks, discoveryCallbacks, connecting,
             stack, history, CentralTypes, Number, Attempt, None, FailureResult
  <2>3. StackTypes'
      BY <1>1, <1>2, <1>41
         DEF FailsToTerminate, LinkFinishes, Stays, linkCallbacks, discoveryCallbacks, connecting,
             stack, history, StackTypes, Procedure, Number, Attempt, None
  <2>4. HistoryTypes'
      BY <1>1, <1>2, <1>41
         DEF FailsToTerminate, LinkFinishes, Stays, linkCallbacks, discoveryCallbacks, connecting,
             stack, history, HistoryTypes, Number, Attempt, None, FailureResult
  <2> QED BY <2>1, <2>2, <2>3, <2>4 DEF Types
<1>27. CASE FinishesDiscovery
  <2>1. events' \in Seq(Event)
    <3>1. EventOf("discoveryProcedureComplete", None) \in Event
        BY DEF EventOf, Event, Number
    <3> QED BY <1>1, <3>1, <1>27, AppendIs DEF FinishesDiscovery, Types
  <2>2. CentralTypes'
      BY <1>1, <1>2, <1>27
         DEF FinishesDiscovery, Stays, linkCallbacks, discoveryCallbacks, connecting, stack,
             history, CentralTypes, Number, Attempt, None, FailureResult
  <2>3. StackTypes'
      BY <1>1, <1>2, <1>27
         DEF FinishesDiscovery, Stays, linkCallbacks, discoveryCallbacks, connecting, stack,
             history, StackTypes, Procedure, Number, Attempt, None
  <2>4. HistoryTypes'
      BY <1>1, <1>2, <1>27
         DEF FinishesDiscovery, Stays, linkCallbacks, discoveryCallbacks, connecting, stack,
             history, HistoryTypes, Number, Attempt, None, FailureResult
  <2> QED BY <2>1, <2>2, <2>3, <2>4 DEF Types
<1>28. CASE Reports
  <2>1. events' \in Seq(Event)
    <3>1. EventOf("linkChange", link) \in Event /\ EventOf("l2capRequest", link) \in Event
        BY <1>1 DEF StackTypes, EventOf, Event
    <3> QED BY <1>1, <3>1, <1>28, AppendIs DEF Reports, Types
  <2>2. CentralTypes'
      BY <1>1, <1>2, <1>28
         DEF Reports, Stays, linkCallbacks, discoveryCallbacks, connecting, stack, history,
             CentralTypes, Number, Attempt, None, FailureResult
  <2>3. StackTypes'
      BY <1>1, <1>2, <1>28
         DEF Reports, Stays, linkCallbacks, discoveryCallbacks, connecting, stack, history,
             StackTypes, Procedure, Number, Attempt, None
  <2>4. HistoryTypes'
      BY <1>1, <1>2, <1>28
         DEF Reports, Stays, linkCallbacks, discoveryCallbacks, connecting, stack, history,
             HistoryTypes, Number, Attempt, None, FailureResult
  <2> QED BY <2>1, <2>2, <2>3, <2>4 DEF Types
<1>29. CASE UNCHANGED vars
    BY <1>1, <1>29
       DEF vars, linkCallbacks, discoveryCallbacks, connecting, stack, history,
           Types, CentralTypes, StackTypes, HistoryTypes
<1> QED BY <1>40, <1>41, <1>3, <1>4, <1>5, <1>6, <1>7, <1>8, <1>9, <1>10, <1>11, <1>12, <1>13, <1>14, <1>15,
           <1>16, <1>17, <1>18, <1>19, <1>20, <1>21, <1>22, <1>23, <1>24, <1>25, <1>26, <1>27,
                <1>28, <1>29 DEF Next, HandleEvent

-----------------------------------------------------------------------------
(* What the stack reports. *)

(* A connection: its completion and that of the procedure. *)
LEMMA EstablishesIs ==
    ASSUME Types, Establishes
    PROVE  \A type : Queued(type)' <=> Queued(type) \/ type \in {"connectionComplete",
    "connectProcedureComplete"}
<1>1. /\ EventOf("connectionComplete", attempt) \in Event
      /\ EventOf("connectProcedureComplete", attempt) \in Event
    BY DEF Types, StackTypes, EventOf, Event
<1>2. /\ EventOf("connectionComplete", attempt).type = "connectionComplete"
      /\ EventOf("connectProcedureComplete", attempt).type = "connectProcedureComplete"
    BY DEF EventOf
<1> QED BY <1>1, <1>2, AppendTwoIs DEF Establishes

(* A connect that fails, or that the host ended. *)
LEMMA FailsIs ==
    ASSUME Types, Fails
    PROVE  \/ \A type : Queued(type)' <=>
                  Queued(type) \/ type \in {"connectionFailed", "connectProcedureComplete"}
           \/ /\ aborting
              /\ \A type : Queued(type)' <=> Queued(type) \/ type = "connectProcedureComplete"
<1>1. /\ EventOf("connectionFailed", attempt) \in Event
      /\ EventOf("connectProcedureComplete", attempt) \in Event
    BY DEF Types, StackTypes, EventOf, Event
<1>2. /\ EventOf("connectionFailed", attempt).type = "connectionFailed"
      /\ EventOf("connectProcedureComplete", attempt).type = "connectProcedureComplete"
    BY DEF EventOf
<1>3. CASE events' = events \o <<EventOf("connectionFailed", attempt),
      EventOf("connectProcedureComplete", attempt)>>
    BY <1>1, <1>2, <1>3, AppendTwoIs
<1>4. CASE aborting /\ events' = Append(events, EventOf("connectProcedureComplete", attempt))
    BY <1>1, <1>2, <1>4, AppendIs
<1> QED BY <1>3, <1>4 DEF Fails

(* The end of a link, and of its pairing. *)
LEMMA LosesLinkIs ==
    ASSUME Types, LosesLink
    PROVE  \/ \A type : Queued(type)' <=> Queued(type) \/ type = "disconnectionComplete"
           \/ \A type : Queued(type)' <=> Queued(type) \/ type \in {"pairingComplete",
              "disconnectionComplete"}
<1>1. EventOf("pairingComplete", link) \in Event /\ EventOf("disconnectionComplete", link) \in Event
    BY DEF Types, StackTypes, EventOf, Event
<1>2. /\ EventOf("pairingComplete", link).type = "pairingComplete"
      /\ EventOf("disconnectionComplete", link).type = "disconnectionComplete"
    BY DEF EventOf
<1>3. CASE events' = Append(events, EventOf("disconnectionComplete", link))
    BY <1>1, <1>2, <1>3, AppendIs
<1>4. CASE events' = events \o <<EventOf("pairingComplete", link), EventOf("disconnectionComplete",
      link)>>
    BY <1>1, <1>2, <1>4, AppendTwoIs
<1> QED BY <1>3, <1>4 DEF LosesLink

(* The end of a procedure, and what the peer does. *)
LEMMA ReportsIs ==
    ASSUME Types
    PROVE  /\ FinishesUpdate => \A type : Queued(type)' <=> Queued(type) \/ type = "updateComplete"
           /\ FinishesPairing => \A type : Queued(type)' <=> Queued(type) \/ type = "pairingComplete"
           /\ FailsToTerminate =>
                \A type : Queued(type)' <=> Queued(type) \/ type = "disconnectionFailed"
           /\ FinishesDiscovery =>
                \A type : Queued(type)' <=> Queued(type) \/ type = "discoveryProcedureComplete"
           /\ Reports => \/ \A type : Queued(type)' <=> Queued(type) \/ type = "linkChange"
                         \/ \A type : Queued(type)' <=> Queued(type) \/ type = "l2capRequest"
<1>1. /\ EventOf("updateComplete", link) \in Event /\ EventOf("updateComplete",
         link).type = "updateComplete"
      /\ EventOf("pairingComplete", link) \in Event /\ EventOf("pairingComplete",
         link).type = "pairingComplete"
      /\ EventOf("disconnectionFailed", link) \in Event
      /\ EventOf("disconnectionFailed", link).type = "disconnectionFailed"
      /\ EventOf("linkChange", link) \in Event /\ EventOf("linkChange", link).type = "linkChange"
      /\ EventOf("l2capRequest", link) \in Event /\ EventOf("l2capRequest",
         link).type = "l2capRequest"
    BY DEF Types, StackTypes, EventOf, Event
<1>2. /\ EventOf("discoveryProcedureComplete", None) \in Event
      /\ EventOf("discoveryProcedureComplete", None).type = "discoveryProcedureComplete"
    BY DEF EventOf, Event, Number
<1>3. ASSUME FinishesUpdate
      PROVE  \A type : Queued(type)' <=> Queued(type) \/ type = "updateComplete"
  <2>1. events' = Append(events, EventOf("updateComplete", link))
      BY <1>3 DEF FinishesUpdate, LinkFinishes
  <2> QED BY <1>1, <2>1, AppendIs
<1>4. ASSUME FinishesPairing
      PROVE  \A type : Queued(type)' <=> Queued(type) \/ type = "pairingComplete"
  <2>1. events' = Append(events, EventOf("pairingComplete", link))
      BY <1>4 DEF FinishesPairing, LinkFinishes
  <2> QED BY <1>1, <2>1, AppendIs
<1>7. ASSUME FailsToTerminate
      PROVE  \A type : Queued(type)' <=> Queued(type) \/ type = "disconnectionFailed"
  <2>1. events' = Append(events, EventOf("disconnectionFailed", link))
      BY <1>7 DEF FailsToTerminate, LinkFinishes
  <2> QED BY <1>1, <2>1, AppendIs
<1>5. ASSUME FinishesDiscovery
      PROVE  \A type : Queued(type)' <=> Queued(type) \/ type = "discoveryProcedureComplete"
  <2>1. events' = Append(events, EventOf("discoveryProcedureComplete", None))
      BY <1>5 DEF FinishesDiscovery
  <2> QED BY <1>2, <2>1, AppendIs
<1>6. ASSUME Reports
      PROVE  \/ \A type : Queued(type)' <=> Queued(type) \/ type = "linkChange"
             \/ \A type : Queued(type)' <=> Queued(type) \/ type = "l2capRequest"
  <2>1. CASE events' = Append(events, EventOf("linkChange", link))
      BY <1>1, <2>1, AppendIs
  <2>2. CASE events' = Append(events, EventOf("l2capRequest", link))
      BY <1>1, <2>2, AppendIs
  <2> QED BY <1>6, <2>1, <2>2 DEF Reports
<1> QED BY <1>3, <1>4, <1>5, <1>6, <1>7

(* A connect begins with no event of another one, or of a link, on its way. *)
LEMMA ConnectBegins ==
    ASSUME Inv, FreesWhenHandled, Connect
    PROVE  /\ \A type \in ConnectEvents \cup LinkEvents : ~Queued(type)
           /\ \A type : Queued(type)' <=> Queued(type)
           /\ attempts' = attempts + 1 /\ attempts' \in Attempt /\ attempts' # None
           /\ attempt' = attempts' /\ onConnectDone' = attempts' /\ onConnectDone = None
           /\ link = None /\ connectionHandle = None /\ told[attempts'] = "none"
<1>1. /\ attempts' = attempts + 1 /\ attempt' = attempts' /\ onConnectDone' = attempts'
      /\ onConnectDone = None /\ connectionHandle = None /\ attempts < MaxAttempts
      /\ ~Queued("connectProcedureComplete") /\ UNCHANGED events
    BY DEF Connect
<1>2. attempts' \in Attempt /\ attempts' # None /\ attempts' > attempts
    BY <1>1, MaxAttemptsAssumption DEF Inv, Types, HistoryTypes, Attempt, None
<1>3. ~Queued("connectionComplete") /\ ~Queued("connectionFailed")
  <2>1. ASSUME NEW i \in DOMAIN events, events[i].type \in {"connectionComplete",
        "connectionFailed"}
        PROVE  Queued("connectProcedureComplete")
    <3>1. i + 1 \in DOMAIN events /\ events[i + 1].type = "connectProcedureComplete"
        BY <2>1 DEF Inv, QueueInv, Paired
    <3>2. DOMAIN events = 1 .. Len(events)
        BY EventIs DEF Inv, Types
    <3> QED BY <3>1, <3>2 DEF Queued
  <2>2. DOMAIN events = 1 .. Len(events)
      BY EventIs DEF Inv, Types
  <2> QED BY <1>1, <2>1, <2>2 DEF Queued
<1>4. attempts = None => \A type \in LinkEvents : ~Queued(type)
    BY DEF Inv, QueueInv, Numbered, Queued
<1>5. \A type \in LinkEvents : ~Queued(type)
    BY <1>1, <1>3, <1>4 DEF Inv, LinkInv
<1>6. link = None
    BY <1>1, <1>3 DEF Inv, LinkInv
<1>7. told[attempts'] = "none"
    BY <1>2 DEF Inv, ToldInv
<1>8. \A type : Queued(type)' <=> Queued(type)
    BY <1>1 DEF Queued
<1> QED BY <1>1, <1>2, <1>3, <1>5, <1>6, <1>7, <1>8 DEF ConnectEvents

(* What holds when the stack ends a connect, in a link or in none. *)
LEMMA ConnectEnds ==
    ASSUME Inv, Establishes \/ Fails
    PROVE  /\ attempt = attempts /\ attempts \in Attempt /\ attempts # None /\ attempt' = None
           /\ onConnectDone = attempts /\ told[attempts] = "none" /\ link = None /\ connectionHandle = None
           /\ \A type \in ConnectEvents \cup LinkEvents : ~Queued(type)
           /\ Establishes => fate' = [fate EXCEPT ![attempts] = "connected"] /\ link' = attempts
           /\ Fails => fate' = [fate EXCEPT ![attempts] = "ended"] /\ link' = None
           /\ \A a \in Attempt : a # attempts => fate'[a] = fate[a]
           /\ Establishes => fate'[attempts] = "connected"
           /\ Fails => fate'[attempts] = "ended"
           /\ UNCHANGED <<procedures, connectionHandle, discovering, connecting, linkCallbacks,
                          discoveryCallbacks,
                          state, l2capResponse, attempts, told, asked, late, failedAssertion>>
<1>1. attempt # None /\ attempt' = None
    BY DEF Establishes, Fails
<1>2. /\ attempt = attempts /\ onConnectDone = attempts /\ attempts # None
      /\ told[attempts] = "none" /\ link = None /\ connectionHandle = None
      /\ \A type \in ConnectEvents \cup LinkEvents : ~Queued(type)
    BY <1>1 DEF Inv, AttemptInv
<1>3. attempts \in Attempt
    BY <1>2 DEF Inv, Types, StackTypes, Number
<1>4. fate \in [Attempt -> {"open", "connected", "ended"}]
    BY DEF Inv, Types, HistoryTypes
<1>5. /\ Establishes => fate' = [fate EXCEPT ![attempts] = "connected"] /\ link' = attempts
      /\ Fails => fate' = [fate EXCEPT ![attempts] = "ended"] /\ link' = None
      /\ UNCHANGED <<procedures, Stays>>
    BY <1>2 DEF Establishes, Fails
<1> QED BY <1>1, <1>2, <1>3, <1>4, <1>5 DEF Stays

(* Every step stops the timer with the connect it runs for. *)
LEMMA TimerStep ==
    ASSUME Types, TimerInv, [Next]_vars
    PROVE  TimerInv'
<1>1. CASE Connect
    BY <1>1
       DEF Connect, InitialResult, linkCallbacks, discoveryCallbacks, connecting, stack, history,
           TimerInv, Types, HistoryTypes, None
<1>2. CASE CancelConnect
    BY <1>2
       DEF CancelConnect, TerminateAccepted, linkCallbacks, discoveryCallbacks, connecting, stack,
           history, TimerInv
<1>3. CASE Disconnect
    BY <1>3
       DEF Disconnect, LinkCommand, linkCallbacks, discoveryCallbacks, connecting, stack, history,
           TimerInv
<1>4. CASE UpdateConnectionParameters
    BY <1>4
       DEF UpdateConnectionParameters, LinkCommand, linkCallbacks, discoveryCallbacks, connecting,
           stack, history, TimerInv
<1>5. CASE PairAndBond
    BY <1>5
       DEF PairAndBond, LinkCommand, linkCallbacks, discoveryCallbacks, connecting, stack, history,
           TimerInv
<1>6. CASE StartDeviceDiscovery
    BY <1>6
       DEF StartDeviceDiscovery, linkCallbacks, discoveryCallbacks, connecting, stack, history,
           TimerInv
<1>7. CASE StopDeviceDiscovery
    BY <1>7
       DEF StopDeviceDiscovery, linkCallbacks, discoveryCallbacks, connecting, stack, history,
           TimerInv
<1>8. CASE InitiatingTimeout
    BY <1>8
       DEF InitiatingTimeout, TerminateGapProcedure, TerminateAccepted, linkCallbacks,
           discoveryCallbacks, connecting, stack, history, TimerInv
<1>9. CASE CompleteStartDeviceDiscovery
    BY <1>9
       DEF CompleteStartDeviceDiscovery, linkCallbacks, discoveryCallbacks, connecting, stack,
           history, TimerInv
<1>10. CASE L2capRespond
    BY <1>10
       DEF L2capRespond, linkCallbacks, discoveryCallbacks, connecting, stack, history, TimerInv
<1>11. CASE ConnectionComplete
    BY <1>11
       DEF ConnectionComplete, Tell, linkCallbacks, discoveryCallbacks, connecting, stack, history,
           Handle, TimerInv
<1>12. CASE ConnectionFailed
    BY <1>12
       DEF ConnectionFailed, Tell, linkCallbacks, discoveryCallbacks, connecting, stack, history,
           Handle, TimerInv
<1>13. CASE ConnectProcedureComplete
    BY <1>13
       DEF ConnectProcedureComplete, Tell, Ignored, linkCallbacks, discoveryCallbacks, connecting,
           stack, history, Handle, TimerInv
<1>14. CASE DiscoveryComplete
    BY <1>14
       DEF DiscoveryComplete, NoLongerDiscovering, linkCallbacks, discoveryCallbacks, connecting,
           stack, history, Handle, TimerInv
<1>15. CASE DisconnectionComplete
    BY <1>15
       DEF DisconnectionComplete, ReallyAssert, linkCallbacks, discoveryCallbacks, connecting,
           stack, history, Handle, TimerInv
<1>16. CASE UpdateComplete
    BY <1>16
       DEF UpdateComplete, linkCallbacks, discoveryCallbacks, connecting, stack, history, Handle,
           TimerInv
<1>17. CASE PairingComplete
    BY <1>17
       DEF PairingComplete, ReallyAssert, linkCallbacks, discoveryCallbacks, connecting, stack,
           history, Handle, TimerInv
<1>18. CASE LinkChange
    BY <1>18
       DEF LinkChange, ReallyAssert, linkCallbacks, discoveryCallbacks, connecting, stack, history,
           Handle, TimerInv
<1>40. CASE DisconnectionFailed
    BY <1>40
       DEF DisconnectionFailed, ReallyAssert, linkCallbacks, discoveryCallbacks, connecting, stack, history,
           Handle, TimerInv
<1>19. CASE L2capConnectionUpdateRequest
    BY <1>19
       DEF L2capConnectionUpdateRequest, linkCallbacks, discoveryCallbacks, connecting, stack,
           history, Handle, TimerInv
<1>20. CASE Establishes
    BY <1>20
       DEF Establishes, Stays, linkCallbacks, discoveryCallbacks, connecting, stack, history,
           TimerInv
<1>21. CASE Fails
    BY <1>21
       DEF Fails, Stays, linkCallbacks, discoveryCallbacks, connecting, stack, history, TimerInv
<1>22. CASE LosesLink
    BY <1>22
       DEF LosesLink, OfLink, Stays, linkCallbacks, discoveryCallbacks, connecting, stack, history,
           TimerInv
<1>23. CASE FinishesUpdate
    BY <1>23
       DEF FinishesUpdate, LinkFinishes, Stays, linkCallbacks, discoveryCallbacks, connecting,
           stack, history, TimerInv
<1>24. CASE FinishesPairing
    BY <1>24
       DEF FinishesPairing, LinkFinishes, Stays, linkCallbacks, discoveryCallbacks, connecting,
           stack, history, TimerInv
<1>41. CASE FailsToTerminate
    BY <1>41
       DEF FailsToTerminate, LinkFinishes, Stays, linkCallbacks, discoveryCallbacks, connecting,
           stack, history, TimerInv
<1>25. CASE FinishesDiscovery
    BY <1>25
       DEF FinishesDiscovery, Stays, linkCallbacks, discoveryCallbacks, connecting, stack, history,
           TimerInv
<1>26. CASE Reports
    BY <1>26
       DEF Reports, Stays, linkCallbacks, discoveryCallbacks, connecting, stack, history, TimerInv
<1>27. CASE UNCHANGED vars
    BY <1>27 DEF vars, linkCallbacks, discoveryCallbacks, connecting, stack, history, TimerInv
<1> QED BY <1>40, <1>41, <1>1, <1>2, <1>3, <1>4, <1>5, <1>6, <1>7, <1>8, <1>9, <1>10, <1>11, <1>12, <1>13, <1>14,
           <1>15, <1>16, <1>17, <1>18, <1>19, <1>20, <1>21, <1>22, <1>23, <1>24, <1>25, <1>26,
                <1>27 DEF Next, HandleEvent

(* Every step keeps account of the discovery. *)
LEMMA DiscoveryStep ==
    ASSUME Inv, [Next]_vars
    PROVE  DiscoveryInv'
<1>1. Types /\ QueueInv /\ DiscoveryInv
    BY DEF Inv
<1>2. CASE Connect
  <2>1. \A type : Queued(type)' <=> Queued(type)
      BY <1>2 DEF Connect, InitialResult, stack, Queued
  <2> QED BY <1>1, <2>1, <1>2
             DEF Connect, InitialResult, linkCallbacks, discoveryCallbacks, connecting, stack,
                 history, DiscoveryInv, OfLink
<1>3. CASE CancelConnect
  <2>1. \A type : Queued(type)' <=> Queued(type)
      BY <1>3 DEF CancelConnect, TerminateAccepted, stack, Queued
  <2> QED BY <1>1, <2>1, <1>3
             DEF CancelConnect, TerminateAccepted, linkCallbacks, discoveryCallbacks, connecting,
                 stack, history, DiscoveryInv, OfLink
<1>4. CASE Disconnect
  <2>1. \A type : Queued(type)' <=> Queued(type)
      BY <1>4 DEF Disconnect, LinkCommand, stack, Queued
  <2> QED BY <1>1, <2>1, <1>4
             DEF Disconnect, LinkCommand, linkCallbacks, discoveryCallbacks, connecting, stack,
                 history, DiscoveryInv, OfLink
<1>5. CASE UpdateConnectionParameters
  <2>1. \A type : Queued(type)' <=> Queued(type)
      BY <1>5 DEF UpdateConnectionParameters, LinkCommand, stack, Queued
  <2> QED BY <1>1, <2>1, <1>5
             DEF UpdateConnectionParameters, LinkCommand, linkCallbacks, discoveryCallbacks,
                 connecting, stack, history, DiscoveryInv, OfLink
<1>6. CASE PairAndBond
  <2>1. \A type : Queued(type)' <=> Queued(type)
      BY <1>6 DEF PairAndBond, LinkCommand, stack, Queued
  <2> QED BY <1>1, <2>1, <1>6
             DEF PairAndBond, LinkCommand, linkCallbacks, discoveryCallbacks, connecting, stack,
                 history, DiscoveryInv, OfLink
<1>7. CASE StartDeviceDiscovery
  <2>1. \A type : Queued(type)' <=> Queued(type)
      BY <1>7 DEF StartDeviceDiscovery, stack, Queued
  <2> QED BY <1>1, <2>1, <1>7
             DEF StartDeviceDiscovery, linkCallbacks, discoveryCallbacks, connecting, stack,
                 history, DiscoveryInv, OfLink
<1>8. CASE StopDeviceDiscovery
  <2>1. \A type : Queued(type)' <=> Queued(type)
      BY <1>8 DEF StopDeviceDiscovery, stack, Queued
  <2> QED BY <1>1, <2>1, <1>8
             DEF StopDeviceDiscovery, linkCallbacks, discoveryCallbacks, connecting, stack,
                 history, DiscoveryInv, OfLink
<1>9. CASE InitiatingTimeout
  <2>1. \A type : Queued(type)' <=> Queued(type)
      BY <1>9 DEF InitiatingTimeout, TerminateGapProcedure, TerminateAccepted, stack, Queued
  <2> QED BY <1>1, <2>1, <1>9
             DEF InitiatingTimeout, TerminateGapProcedure, TerminateAccepted, linkCallbacks,
                 discoveryCallbacks, connecting, stack, history, DiscoveryInv, OfLink
<1>10. CASE CompleteStartDeviceDiscovery
  <2>1. \A type : Queued(type)' <=> Queued(type)
      BY <1>10 DEF CompleteStartDeviceDiscovery, stack, Queued
  <2> QED BY <1>1, <2>1, <1>10
             DEF CompleteStartDeviceDiscovery, linkCallbacks, discoveryCallbacks, connecting,
                 stack, history, DiscoveryInv, OfLink
<1>11. CASE L2capRespond
  <2>1. \A type : Queued(type)' <=> Queued(type)
      BY <1>11 DEF L2capRespond, stack, Queued
  <2> QED BY <1>1, <2>1, <1>11
             DEF L2capRespond, linkCallbacks, discoveryCallbacks, connecting, stack, history,
                 DiscoveryInv, OfLink
<1>12. CASE ConnectionComplete
  <2>1. Handle("connectionComplete")
      BY <1>12 DEF ConnectionComplete
  <2>2. \A type : Queued(type) <=> type = "connectionComplete" \/ Queued(type)'
      BY <1>1, <2>1, HandleIs
  <2>3. /\ Of = attempts /\ attempts # None
        /\ ~Queued("connectionComplete")' /\ ~Queued("connectionFailed")'
        /\ Queued("connectProcedureComplete")'
      BY <1>1, <2>1, HandleQueue DEF ConnectEvents, LinkEvents
  <2> QED BY <1>1, <2>1, <2>2, <2>3, <1>12
             DEF Handle, ConnectionComplete, Tell, linkCallbacks, discoveryCallbacks, connecting,
                 stack, history, DiscoveryInv, OfLink
<1>13. CASE ConnectionFailed
  <2>1. Handle("connectionFailed")
      BY <1>13 DEF ConnectionFailed
  <2>2. \A type : Queued(type) <=> type = "connectionFailed" \/ Queued(type)'
      BY <1>1, <2>1, HandleIs
  <2>3. /\ Of = attempts /\ attempts # None
        /\ ~Queued("connectionComplete")' /\ ~Queued("connectionFailed")'
        /\ Queued("connectProcedureComplete")'
      BY <1>1, <2>1, HandleQueue DEF ConnectEvents, LinkEvents
  <2> QED BY <1>1, <2>1, <2>2, <2>3, <1>13
             DEF Handle, ConnectionFailed, Tell, linkCallbacks, discoveryCallbacks, connecting,
                 stack, history, DiscoveryInv, OfLink
<1>14. CASE ConnectProcedureComplete
  <2>1. Handle("connectProcedureComplete")
      BY <1>14 DEF ConnectProcedureComplete
  <2>2. \A type : Queued(type) <=> type = "connectProcedureComplete" \/ Queued(type)'
      BY <1>1, <2>1, HandleIs
  <2>3. /\ Of = attempts /\ attempts # None
        /\ ~Queued("connectionComplete")' /\ ~Queued("connectionFailed")'
        /\ ~Queued("connectProcedureComplete")'
      BY <1>1, <2>1, HandleQueue DEF ConnectEvents, LinkEvents
  <2> QED BY <1>1, <2>1, <2>2, <2>3, <1>14
             DEF Handle, ConnectProcedureComplete, Tell, Ignored, linkCallbacks,
                 discoveryCallbacks, connecting, stack, history, DiscoveryInv, OfLink
<1>15. CASE DiscoveryComplete
  <2>1. Handle("discoveryProcedureComplete")
      BY <1>15 DEF DiscoveryComplete
  <2>2. \A type : Queued(type) <=> type = "discoveryProcedureComplete" \/ Queued(type)'
      BY <1>1, <2>1, HandleIs
  <2>3. /\ ~Queued("discoveryProcedureComplete")'
      BY <1>1, <2>1, HandleQueue DEF ConnectEvents, LinkEvents
  <2> QED BY <1>1, <2>1, <2>2, <2>3, <1>15
             DEF Handle, DiscoveryComplete, NoLongerDiscovering, linkCallbacks, discoveryCallbacks,
                 connecting, stack, history, DiscoveryInv, OfLink
<1>16. CASE DisconnectionComplete
  <2>1. Handle("disconnectionComplete")
      BY <1>16 DEF DisconnectionComplete
  <2>2. \A type : Queued(type) <=> type = "disconnectionComplete" \/ Queued(type)'
      BY <1>1, <2>1, HandleIs
  <2>3. /\ Of = attempts /\ attempts # None
        /\ ~Queued("connectionComplete")
        /\ \A one \in LinkEvents : ~Queued(one)'
      BY <1>1, <2>1, HandleQueue DEF ConnectEvents, LinkEvents
  <2> QED BY <1>1, <2>1, <2>2, <2>3, <1>16
             DEF Handle, DisconnectionComplete, ReallyAssert, linkCallbacks, discoveryCallbacks,
                 connecting, stack, history, DiscoveryInv, OfLink
<1>17. CASE UpdateComplete
  <2>1. Handle("updateComplete")
      BY <1>17 DEF UpdateComplete
  <2>2. \A type : Queued(type) <=> type = "updateComplete" \/ Queued(type)'
      BY <1>1, <2>1, HandleIs
  <2>3. /\ Of = attempts /\ attempts # None
        /\ ~Queued("connectionComplete")
      BY <1>1, <2>1, HandleQueue DEF ConnectEvents, LinkEvents
  <2> QED BY <1>1, <2>1, <2>2, <2>3, <1>17
             DEF Handle, UpdateComplete, linkCallbacks, discoveryCallbacks, connecting, stack,
                 history, DiscoveryInv, OfLink
<1>18. CASE PairingComplete
  <2>1. Handle("pairingComplete")
      BY <1>18 DEF PairingComplete
  <2>2. \A type : Queued(type) <=> type = "pairingComplete" \/ Queued(type)'
      BY <1>1, <2>1, HandleIs
  <2>3. /\ Of = attempts /\ attempts # None
        /\ ~Queued("connectionComplete")
      BY <1>1, <2>1, HandleQueue DEF ConnectEvents, LinkEvents
  <2> QED BY <1>1, <2>1, <2>2, <2>3, <1>18
             DEF Handle, PairingComplete, ReallyAssert, linkCallbacks, discoveryCallbacks,
                 connecting, stack, history, DiscoveryInv, OfLink
<1>19. CASE LinkChange
  <2>1. Handle("linkChange")
      BY <1>19 DEF LinkChange
  <2>2. \A type : Queued(type) <=> type = "linkChange" \/ Queued(type)'
      BY <1>1, <2>1, HandleIs
  <2>3. /\ Of = attempts /\ attempts # None
        /\ ~Queued("connectionComplete")
      BY <1>1, <2>1, HandleQueue DEF ConnectEvents, LinkEvents
  <2> QED BY <1>1, <2>1, <2>2, <2>3, <1>19
             DEF Handle, LinkChange, ReallyAssert, linkCallbacks, discoveryCallbacks, connecting,
                 stack, history, DiscoveryInv, OfLink
<1>40. CASE DisconnectionFailed
  <2>1. Handle("disconnectionFailed")
      BY <1>40 DEF DisconnectionFailed
  <2>2. \A type : Queued(type) <=> type = "disconnectionFailed" \/ Queued(type)'
      BY <1>1, <2>1, HandleIs
  <2>3. /\ Of = attempts /\ attempts # None
        /\ ~Queued("connectionComplete")
      BY <1>1, <2>1, HandleQueue DEF ConnectEvents, LinkEvents
  <2> QED BY <1>1, <2>1, <2>2, <2>3, <1>40
             DEF Handle, DisconnectionFailed, ReallyAssert, linkCallbacks, discoveryCallbacks, connecting,
                 stack, history, DiscoveryInv, OfLink
<1>20. CASE L2capConnectionUpdateRequest
  <2>1. Handle("l2capRequest")
      BY <1>20 DEF L2capConnectionUpdateRequest
  <2>2. \A type : Queued(type) <=> type = "l2capRequest" \/ Queued(type)'
      BY <1>1, <2>1, HandleIs
  <2>3. /\ Of = attempts /\ attempts # None
        /\ ~Queued("connectionComplete")
      BY <1>1, <2>1, HandleQueue DEF ConnectEvents, LinkEvents
  <2> QED BY <1>1, <2>1, <2>2, <2>3, <1>20
             DEF Handle, L2capConnectionUpdateRequest, linkCallbacks, discoveryCallbacks,
                 connecting, stack, history, DiscoveryInv, OfLink
<1>21. CASE Establishes
    BY <1>1, <1>21, EstablishesIs
       DEF Establishes, Stays, linkCallbacks, discoveryCallbacks, connecting, stack, history,
           DiscoveryInv, OfLink
<1>22. CASE Fails
  <2>1. Queued("discoveryProcedureComplete")' <=> Queued("discoveryProcedureComplete")
      BY <1>1, <1>22, FailsIs
  <2> QED BY <1>1, <2>1, <1>22 DEF Fails, Stays, DiscoveryInv
<1>23. CASE LosesLink
    BY <1>1, <1>23, LosesLinkIs
       DEF LosesLink, OfLink, Stays, linkCallbacks, discoveryCallbacks, connecting, stack, history,
           DiscoveryInv, OfLink
<1>24. CASE FinishesUpdate
    BY <1>1, <1>24, ReportsIs
       DEF FinishesUpdate, LinkFinishes, Stays, linkCallbacks, discoveryCallbacks, connecting,
           stack, history, DiscoveryInv, OfLink
<1>25. CASE FinishesPairing
    BY <1>1, <1>25, ReportsIs
       DEF FinishesPairing, LinkFinishes, Stays, linkCallbacks, discoveryCallbacks, connecting,
           stack, history, DiscoveryInv, OfLink
<1>41. CASE FailsToTerminate
    BY <1>1, <1>41, ReportsIs
       DEF FailsToTerminate, LinkFinishes, Stays, linkCallbacks, discoveryCallbacks, connecting,
           stack, history, DiscoveryInv, OfLink
<1>26. CASE FinishesDiscovery
    BY <1>1, <1>26, ReportsIs
       DEF FinishesDiscovery, Stays, linkCallbacks, discoveryCallbacks, connecting, stack, history,
           DiscoveryInv, OfLink
<1>27. CASE Reports
    BY <1>1, <1>27, ReportsIs
       DEF Reports, Stays, linkCallbacks, discoveryCallbacks, connecting, stack, history,
           DiscoveryInv, OfLink
<1>28. CASE UNCHANGED vars
  <2>1. \A type : Queued(type)' <=> Queued(type)
      BY <1>28 DEF vars, stack, Queued
  <2> QED BY <1>1, <2>1, <1>28
             DEF vars, linkCallbacks, discoveryCallbacks, connecting, stack, history, DiscoveryInv
<1> QED BY <1>40, <1>41, <1>2, <1>3, <1>4, <1>5, <1>6, <1>7, <1>8, <1>9, <1>10, <1>11, <1>12, <1>13, <1>14,
           <1>15, <1>16, <1>17, <1>18, <1>19, <1>20, <1>21, <1>22, <1>23, <1>24, <1>25, <1>26,
                <1>27, <1>28 DEF Next, HandleEvent

(* Every step keeps the callback of a connect until its end is handled. *)
LEMMA AttemptStep ==
    ASSUME Inv, FreesWhenHandled, [Next]_vars
    PROVE  AttemptInv'
<1> USE DEF ResultIs, EndedByItself, TimedOut
<1>1. /\ Types /\ TimerInv /\ QueueInv
      /\ AttemptInv /\ ConnectInv /\ ToldInv /\ LinkInv
    BY DEF Inv
<1>2. CASE Connect
  <2>1. /\ \A type \in ConnectEvents \cup LinkEvents : ~Queued(type)'
        /\ attempts' \in Attempt /\ attempts' > attempts
        /\ attempt' = attempts' /\ onConnectDone' = attempts' /\ attempts' # None
        /\ link' = None /\ connectionHandle' = None /\ told'[attempts'] = "none"
    <3>1. attempts' = attempts + 1
        BY <1>2 DEF Connect
    <3>2. attempts \in Int
        BY <1>1 DEF Types, HistoryTypes
    <3>3. attempts' > attempts
        BY <3>1, <3>2
    <3> QED BY <1>1, <1>2, <3>3, ConnectBegins DEF Connect
  <2>2. /\ connectFailureResult' = "connectionFailed" /\ ~aborting'
        /\ UNCHANGED <<asked, late>>
      BY <1>2 DEF Connect, InitialResult
  <2>3. \A result \in FailureResult : <<attempts', result>> \notin asked'
      BY <1>1, <2>1, <2>2 DEF ToldInv
  <2> QED BY <2>1, <2>2, <2>3 DEF AttemptInv
<1>3. CASE CancelConnect
  <2>1. \A type : Queued(type)' <=> Queued(type)
      BY <1>3 DEF CancelConnect, TerminateAccepted, stack, Queued
  <2> QED BY <1>1, <2>1, <1>3
             DEF CancelConnect, TerminateAccepted, linkCallbacks, discoveryCallbacks, connecting,
                 stack, history, AttemptInv, ConnectEvents, LinkEvents, OfLink
<1>4. CASE Disconnect
  <2>1. \A type : Queued(type)' <=> Queued(type)
      BY <1>4 DEF Disconnect, LinkCommand, stack, Queued
  <2> QED BY <1>1, <2>1, <1>4
             DEF Disconnect, LinkCommand, linkCallbacks, discoveryCallbacks, connecting, stack,
                 history, AttemptInv, ConnectEvents, LinkEvents, OfLink
<1>5. CASE UpdateConnectionParameters
  <2>1. \A type : Queued(type)' <=> Queued(type)
      BY <1>5 DEF UpdateConnectionParameters, LinkCommand, stack, Queued
  <2> QED BY <1>1, <2>1, <1>5
             DEF UpdateConnectionParameters, LinkCommand, linkCallbacks, discoveryCallbacks,
                 connecting, stack, history, AttemptInv, ConnectEvents, LinkEvents, OfLink
<1>6. CASE PairAndBond
  <2>1. \A type : Queued(type)' <=> Queued(type)
      BY <1>6 DEF PairAndBond, LinkCommand, stack, Queued
  <2> QED BY <1>1, <2>1, <1>6
             DEF PairAndBond, LinkCommand, linkCallbacks, discoveryCallbacks, connecting, stack,
                 history, AttemptInv, ConnectEvents, LinkEvents, OfLink
<1>7. CASE StartDeviceDiscovery
  <2>1. \A type : Queued(type)' <=> Queued(type)
      BY <1>7 DEF StartDeviceDiscovery, stack, Queued
  <2> QED BY <1>1, <2>1, <1>7
             DEF StartDeviceDiscovery, linkCallbacks, discoveryCallbacks, connecting, stack,
                 history, AttemptInv, ConnectEvents, LinkEvents, OfLink
<1>8. CASE StopDeviceDiscovery
  <2>1. \A type : Queued(type)' <=> Queued(type)
      BY <1>8 DEF StopDeviceDiscovery, stack, Queued
  <2> QED BY <1>1, <2>1, <1>8
             DEF StopDeviceDiscovery, linkCallbacks, discoveryCallbacks, connecting, stack,
                 history, AttemptInv, ConnectEvents, LinkEvents, OfLink
<1>9. CASE InitiatingTimeout
  <2>1. \A type : Queued(type)' <=> Queued(type)
      BY <1>9 DEF InitiatingTimeout, TerminateGapProcedure, TerminateAccepted, stack, Queued
  <2> QED BY <1>1, <2>1, <1>9
             DEF InitiatingTimeout, TerminateGapProcedure, TerminateAccepted, linkCallbacks,
                 discoveryCallbacks, connecting, stack, history, AttemptInv, ConnectEvents,
                 LinkEvents, OfLink
<1>10. CASE CompleteStartDeviceDiscovery
  <2>1. \A type : Queued(type)' <=> Queued(type)
      BY <1>10 DEF CompleteStartDeviceDiscovery, stack, Queued
  <2> QED BY <1>1, <2>1, <1>10
             DEF CompleteStartDeviceDiscovery, linkCallbacks, discoveryCallbacks, connecting,
                 stack, history, AttemptInv, ConnectEvents, LinkEvents, OfLink
<1>11. CASE L2capRespond
  <2>1. \A type : Queued(type)' <=> Queued(type)
      BY <1>11 DEF L2capRespond, stack, Queued
  <2> QED BY <1>1, <2>1, <1>11
             DEF L2capRespond, linkCallbacks, discoveryCallbacks, connecting, stack, history,
                 AttemptInv, ConnectEvents, LinkEvents, OfLink
<1>12. CASE ConnectionComplete
  <2>1. Handle("connectionComplete")
      BY <1>12 DEF ConnectionComplete
  <2>2. \A type : Queued(type) <=> type = "connectionComplete" \/ Queued(type)'
      BY <1>1, <2>1, HandleIs
  <2>3. /\ Of = attempts /\ attempts # None
        /\ ~Queued("connectionComplete")' /\ ~Queued("connectionFailed")'
        /\ Queued("connectProcedureComplete")'
      BY <1>1, <2>1, HandleQueue DEF ConnectEvents, LinkEvents
  <2> QED BY <1>1, <2>1, <2>2, <2>3, <1>12
             DEF Handle, ConnectionComplete, Tell, linkCallbacks, discoveryCallbacks, connecting,
                 stack, history, AttemptInv, ConnectEvents, LinkEvents, OfLink
<1>13. CASE ConnectionFailed
  <2>1. Handle("connectionFailed")
      BY <1>13 DEF ConnectionFailed
  <2>2. \A type : Queued(type) <=> type = "connectionFailed" \/ Queued(type)'
      BY <1>1, <2>1, HandleIs
  <2>3. /\ Of = attempts /\ attempts # None
        /\ ~Queued("connectionComplete")' /\ ~Queued("connectionFailed")'
        /\ Queued("connectProcedureComplete")'
      BY <1>1, <2>1, HandleQueue DEF ConnectEvents, LinkEvents
  <2> QED BY <1>1, <2>1, <2>2, <2>3, <1>13
             DEF Handle, ConnectionFailed, Tell, linkCallbacks, discoveryCallbacks, connecting,
                 stack, history, AttemptInv, ConnectEvents, LinkEvents, OfLink
<1>14. CASE ConnectProcedureComplete
  <2>1. Handle("connectProcedureComplete")
      BY <1>14 DEF ConnectProcedureComplete
  <2>2. \A type : Queued(type) <=> type = "connectProcedureComplete" \/ Queued(type)'
      BY <1>1, <2>1, HandleIs
  <2>3. ~Queued("connectionComplete") /\ ~Queued("connectionFailed")
      BY <1>1, <2>1, <2>2, HandleQueue DEF ConnectEvents
  <2>4. ~initiatingStateTimer
      BY <1>1, <2>2, <2>3 DEF ConnectInv
  <2>5. attempt = None /\ attempt' = None
      BY <1>1, <2>1, <2>2 DEF Handle, AttemptInv, ConnectEvents
  <2>6. onConnectDone' = None
      BY <1>1, <2>4, <1>14 DEF ConnectProcedureComplete, Ignored, Tell, AttemptInv
  <2>7. initiatingStateTimer' = initiatingStateTimer
      BY <1>14 DEF ConnectProcedureComplete
  <2> QED BY <2>4, <2>5, <2>6, <2>7 DEF AttemptInv
<1>15. CASE DiscoveryComplete
  <2>1. Handle("discoveryProcedureComplete")
      BY <1>15 DEF DiscoveryComplete
  <2>2. \A type : Queued(type) <=> type = "discoveryProcedureComplete" \/ Queued(type)'
      BY <1>1, <2>1, HandleIs
  <2>3. /\ ~Queued("discoveryProcedureComplete")'
      BY <1>1, <2>1, HandleQueue DEF ConnectEvents, LinkEvents
  <2> QED BY <1>1, <2>1, <2>2, <2>3, <1>15
             DEF Handle, DiscoveryComplete, NoLongerDiscovering, linkCallbacks, discoveryCallbacks,
                 connecting, stack, history, AttemptInv, ConnectEvents, LinkEvents, OfLink
<1>16. CASE DisconnectionComplete
  <2>1. Handle("disconnectionComplete")
      BY <1>16 DEF DisconnectionComplete
  <2>2. \A type : Queued(type) <=> type = "disconnectionComplete" \/ Queued(type)'
      BY <1>1, <2>1, HandleIs
  <2>3. /\ Of = attempts /\ attempts # None
        /\ ~Queued("connectionComplete")
        /\ \A one \in LinkEvents : ~Queued(one)'
      BY <1>1, <2>1, HandleQueue DEF ConnectEvents, LinkEvents
  <2> QED BY <1>1, <2>1, <2>2, <2>3, <1>16
             DEF Handle, DisconnectionComplete, ReallyAssert, linkCallbacks, discoveryCallbacks,
                 connecting, stack, history, AttemptInv, ConnectEvents, LinkEvents, OfLink
<1>17. CASE UpdateComplete
  <2>1. Handle("updateComplete")
      BY <1>17 DEF UpdateComplete
  <2>2. \A type : Queued(type) <=> type = "updateComplete" \/ Queued(type)'
      BY <1>1, <2>1, HandleIs
  <2>3. /\ Of = attempts /\ attempts # None
        /\ ~Queued("connectionComplete")
      BY <1>1, <2>1, HandleQueue DEF ConnectEvents, LinkEvents
  <2> QED BY <1>1, <2>1, <2>2, <2>3, <1>17
             DEF Handle, UpdateComplete, linkCallbacks, discoveryCallbacks, connecting, stack,
                 history, AttemptInv, ConnectEvents, LinkEvents, OfLink
<1>18. CASE PairingComplete
  <2>1. Handle("pairingComplete")
      BY <1>18 DEF PairingComplete
  <2>2. \A type : Queued(type) <=> type = "pairingComplete" \/ Queued(type)'
      BY <1>1, <2>1, HandleIs
  <2>3. /\ Of = attempts /\ attempts # None
        /\ ~Queued("connectionComplete")
      BY <1>1, <2>1, HandleQueue DEF ConnectEvents, LinkEvents
  <2> QED BY <1>1, <2>1, <2>2, <2>3, <1>18
             DEF Handle, PairingComplete, ReallyAssert, linkCallbacks, discoveryCallbacks,
                 connecting, stack, history, AttemptInv, ConnectEvents, LinkEvents, OfLink
<1>19. CASE LinkChange
  <2>1. Handle("linkChange")
      BY <1>19 DEF LinkChange
  <2>2. \A type : Queued(type) <=> type = "linkChange" \/ Queued(type)'
      BY <1>1, <2>1, HandleIs
  <2>3. /\ Of = attempts /\ attempts # None
        /\ ~Queued("connectionComplete")
      BY <1>1, <2>1, HandleQueue DEF ConnectEvents, LinkEvents
  <2> QED BY <1>1, <2>1, <2>2, <2>3, <1>19
             DEF Handle, LinkChange, ReallyAssert, linkCallbacks, discoveryCallbacks, connecting,
                 stack, history, AttemptInv, ConnectEvents, LinkEvents, OfLink
<1>40. CASE DisconnectionFailed
  <2>1. Handle("disconnectionFailed")
      BY <1>40 DEF DisconnectionFailed
  <2>2. \A type : Queued(type) <=> type = "disconnectionFailed" \/ Queued(type)'
      BY <1>1, <2>1, HandleIs
  <2>3. /\ Of = attempts /\ attempts # None
        /\ ~Queued("connectionComplete")
      BY <1>1, <2>1, HandleQueue DEF ConnectEvents, LinkEvents
  <2> QED BY <1>1, <2>1, <2>2, <2>3, <1>40
             DEF Handle, DisconnectionFailed, ReallyAssert, linkCallbacks, discoveryCallbacks, connecting,
                 stack, history, AttemptInv, ConnectEvents, LinkEvents, OfLink
<1>20. CASE L2capConnectionUpdateRequest
  <2>1. Handle("l2capRequest")
      BY <1>20 DEF L2capConnectionUpdateRequest
  <2>2. \A type : Queued(type) <=> type = "l2capRequest" \/ Queued(type)'
      BY <1>1, <2>1, HandleIs
  <2>3. /\ Of = attempts /\ attempts # None
        /\ ~Queued("connectionComplete")
      BY <1>1, <2>1, HandleQueue DEF ConnectEvents, LinkEvents
  <2> QED BY <1>1, <2>1, <2>2, <2>3, <1>20
             DEF Handle, L2capConnectionUpdateRequest, linkCallbacks, discoveryCallbacks,
                 connecting, stack, history, AttemptInv, ConnectEvents, LinkEvents, OfLink
<1>21. CASE Establishes
  <2>1. /\ UNCHANGED <<onConnectDone, connectFailureResult, initiatingStateTimer, aborting,
                       attempts, told, asked, late, connectionHandle>>
        /\ attempt' = None /\ Queued("connectProcedureComplete")'
      BY <1>1, <1>21, EstablishesIs, ConnectEnds DEF Establishes, connecting
  <2> QED BY <1>1, <2>1 DEF AttemptInv
<1>22. CASE Fails
  <2>1. /\ UNCHANGED <<onConnectDone, connectFailureResult, initiatingStateTimer,
                       attempts, told, asked, late, connectionHandle>>
        /\ attempt' = None /\ ~aborting' /\ Queued("connectProcedureComplete")'
      BY <1>1, <1>22, FailsIs, ConnectEnds DEF Fails, connecting
  <2> QED BY <1>1, <2>1 DEF AttemptInv
<1>23. CASE LosesLink
    BY <1>1, <1>23, LosesLinkIs
       DEF LosesLink, OfLink, Stays, linkCallbacks, discoveryCallbacks, connecting, stack, history,
           AttemptInv, ConnectEvents, LinkEvents, OfLink
<1>24. CASE FinishesUpdate
  <2>1. attempt = None
      BY <1>1, <1>24 DEF FinishesUpdate, LinkFinishes, LinkInv, AttemptInv, OfLink
  <2>2. \A type : Queued(type) => Queued(type)'
      BY <1>1, <1>24, ReportsIs
  <2> QED BY <1>1, <2>1, <2>2, <1>24 DEF FinishesUpdate, LinkFinishes, Stays, connecting, AttemptInv
<1>25. CASE FinishesPairing
  <2>1. attempt = None
      BY <1>1, <1>25 DEF FinishesPairing, LinkFinishes, LinkInv, AttemptInv, OfLink
  <2>2. \A type : Queued(type) => Queued(type)'
      BY <1>1, <1>25, ReportsIs
  <2> QED BY <1>1, <2>1, <2>2, <1>25
             DEF FinishesPairing, LinkFinishes, Stays, connecting, AttemptInv
<1>41. CASE FailsToTerminate
  <2>1. attempt = None
      BY <1>1, <1>41 DEF FailsToTerminate, LinkFinishes, LinkInv, AttemptInv, OfLink
  <2>2. \A type : Queued(type) => Queued(type)'
      BY <1>1, <1>41, ReportsIs
  <2> QED BY <1>1, <2>1, <2>2, <1>41
             DEF FailsToTerminate, LinkFinishes, Stays, connecting, AttemptInv
<1>26. CASE FinishesDiscovery
    BY <1>1, <1>26, ReportsIs
       DEF FinishesDiscovery, Stays, linkCallbacks, discoveryCallbacks, connecting, stack, history,
           AttemptInv, ConnectEvents, LinkEvents, OfLink
<1>27. CASE Reports
    BY <1>1, <1>27, ReportsIs
       DEF Reports, Stays, linkCallbacks, discoveryCallbacks, connecting, stack, history,
           AttemptInv, ConnectEvents, LinkEvents, OfLink
<1>28. CASE UNCHANGED vars
  <2>1. \A type : Queued(type)' <=> Queued(type)
      BY <1>28 DEF vars, stack, Queued
  <2> QED BY <1>1, <2>1, <1>28
             DEF vars, linkCallbacks, discoveryCallbacks, connecting, stack, history, AttemptInv
<1> QED BY <1>40, <1>41, <1>2, <1>3, <1>4, <1>5, <1>6, <1>7, <1>8, <1>9, <1>10, <1>11, <1>12, <1>13, <1>14,
           <1>15, <1>16, <1>17, <1>18, <1>19, <1>20, <1>21, <1>22, <1>23, <1>24, <1>25, <1>26,
                <1>27, <1>28 DEF Next, HandleEvent

(* Every step keeps the events of a connect true to what became of it. *)
LEMMA ConnectStep ==
    ASSUME Inv, FreesWhenHandled, [Next]_vars
    PROVE  ConnectInv'
<1>1. /\ Types /\ TimerInv /\ QueueInv
      /\ AttemptInv /\ ConnectInv /\ ToldInv /\ LinkInv
    BY DEF Inv
<1>2. CASE Connect
    BY <1>1, <1>2, ConnectBegins DEF Connect, ConnectInv, ConnectEvents
<1>3. CASE CancelConnect
  <2>1. \A type : Queued(type)' <=> Queued(type)
      BY <1>3 DEF CancelConnect, TerminateAccepted, stack, Queued
  <2> QED BY <1>1, <2>1, <1>3
             DEF CancelConnect, TerminateAccepted, linkCallbacks, discoveryCallbacks, connecting,
                 stack, history, ConnectInv, ConnectEvents, LinkEvents
<1>4. CASE Disconnect
  <2>1. \A type : Queued(type)' <=> Queued(type)
      BY <1>4 DEF Disconnect, LinkCommand, stack, Queued
  <2> QED BY <1>1, <2>1, <1>4
             DEF Disconnect, LinkCommand, linkCallbacks, discoveryCallbacks, connecting, stack,
                 history, ConnectInv, ConnectEvents, LinkEvents
<1>5. CASE UpdateConnectionParameters
  <2>1. \A type : Queued(type)' <=> Queued(type)
      BY <1>5 DEF UpdateConnectionParameters, LinkCommand, stack, Queued
  <2> QED BY <1>1, <2>1, <1>5
             DEF UpdateConnectionParameters, LinkCommand, linkCallbacks, discoveryCallbacks,
                 connecting, stack, history, ConnectInv, ConnectEvents, LinkEvents
<1>6. CASE PairAndBond
  <2>1. \A type : Queued(type)' <=> Queued(type)
      BY <1>6 DEF PairAndBond, LinkCommand, stack, Queued
  <2> QED BY <1>1, <2>1, <1>6
             DEF PairAndBond, LinkCommand, linkCallbacks, discoveryCallbacks, connecting, stack,
                 history, ConnectInv, ConnectEvents, LinkEvents
<1>7. CASE StartDeviceDiscovery
  <2>1. \A type : Queued(type)' <=> Queued(type)
      BY <1>7 DEF StartDeviceDiscovery, stack, Queued
  <2> QED BY <1>1, <2>1, <1>7
             DEF StartDeviceDiscovery, linkCallbacks, discoveryCallbacks, connecting, stack,
                 history, ConnectInv, ConnectEvents, LinkEvents
<1>8. CASE StopDeviceDiscovery
  <2>1. \A type : Queued(type)' <=> Queued(type)
      BY <1>8 DEF StopDeviceDiscovery, stack, Queued
  <2> QED BY <1>1, <2>1, <1>8
             DEF StopDeviceDiscovery, linkCallbacks, discoveryCallbacks, connecting, stack,
                 history, ConnectInv, ConnectEvents, LinkEvents
<1>9. CASE InitiatingTimeout
  <2>1. \A type : Queued(type)' <=> Queued(type)
      BY <1>9 DEF InitiatingTimeout, TerminateGapProcedure, TerminateAccepted, stack, Queued
  <2> QED BY <1>1, <2>1, <1>9
             DEF InitiatingTimeout, TerminateGapProcedure, TerminateAccepted, linkCallbacks,
                 discoveryCallbacks, connecting, stack, history, ConnectInv, ConnectEvents,
                 LinkEvents
<1>10. CASE CompleteStartDeviceDiscovery
  <2>1. \A type : Queued(type)' <=> Queued(type)
      BY <1>10 DEF CompleteStartDeviceDiscovery, stack, Queued
  <2> QED BY <1>1, <2>1, <1>10
             DEF CompleteStartDeviceDiscovery, linkCallbacks, discoveryCallbacks, connecting,
                 stack, history, ConnectInv, ConnectEvents, LinkEvents
<1>11. CASE L2capRespond
  <2>1. \A type : Queued(type)' <=> Queued(type)
      BY <1>11 DEF L2capRespond, stack, Queued
  <2> QED BY <1>1, <2>1, <1>11
             DEF L2capRespond, linkCallbacks, discoveryCallbacks, connecting, stack, history,
                 ConnectInv, ConnectEvents, LinkEvents
<1>12. CASE ConnectionComplete
  <2>1. Handle("connectionComplete")
      BY <1>12 DEF ConnectionComplete
  <2>2. \A type : Queued(type) <=> type = "connectionComplete" \/ Queued(type)'
      BY <1>1, <2>1, HandleIs
  <2>3. /\ Of = attempts /\ attempts # None
        /\ ~Queued("connectionComplete")' /\ ~Queued("connectionFailed")'
        /\ Queued("connectProcedureComplete")'
      BY <1>1, <2>1, HandleQueue DEF ConnectEvents, LinkEvents
  <2> QED BY <1>1, <2>1, <2>2, <2>3, <1>12
             DEF Handle, ConnectionComplete, Tell, linkCallbacks, discoveryCallbacks, connecting,
                 stack, history, ConnectInv, ConnectEvents, LinkEvents
<1>13. CASE ConnectionFailed
  <2>1. Handle("connectionFailed")
      BY <1>13 DEF ConnectionFailed
  <2>2. \A type : Queued(type) <=> type = "connectionFailed" \/ Queued(type)'
      BY <1>1, <2>1, HandleIs
  <2>3. /\ Of = attempts /\ attempts # None
        /\ ~Queued("connectionComplete")' /\ ~Queued("connectionFailed")'
        /\ Queued("connectProcedureComplete")'
      BY <1>1, <2>1, HandleQueue DEF ConnectEvents, LinkEvents
  <2> QED BY <1>1, <2>1, <2>2, <2>3, <1>13
             DEF Handle, ConnectionFailed, Tell, linkCallbacks, discoveryCallbacks, connecting,
                 stack, history, ConnectInv, ConnectEvents, LinkEvents
<1>14. CASE ConnectProcedureComplete
  <2>1. Handle("connectProcedureComplete")
      BY <1>14 DEF ConnectProcedureComplete
  <2>2. \A type : Queued(type) <=> type = "connectProcedureComplete" \/ Queued(type)'
      BY <1>1, <2>1, HandleIs
  <2>3. /\ Of = attempts /\ attempts # None
        /\ ~Queued("connectionComplete")' /\ ~Queued("connectionFailed")'
        /\ ~Queued("connectProcedureComplete")'
      BY <1>1, <2>1, HandleQueue DEF ConnectEvents, LinkEvents
  <2> QED BY <1>1, <2>1, <2>2, <2>3, <1>14
             DEF Handle, ConnectProcedureComplete, Tell, Ignored, linkCallbacks,
                 discoveryCallbacks, connecting, stack, history, ConnectInv, ConnectEvents,
                 LinkEvents
<1>15. CASE DiscoveryComplete
  <2>1. Handle("discoveryProcedureComplete")
      BY <1>15 DEF DiscoveryComplete
  <2>2. \A type : Queued(type) <=> type = "discoveryProcedureComplete" \/ Queued(type)'
      BY <1>1, <2>1, HandleIs
  <2>3. /\ ~Queued("discoveryProcedureComplete")'
      BY <1>1, <2>1, HandleQueue DEF ConnectEvents, LinkEvents
  <2> QED BY <1>1, <2>1, <2>2, <2>3, <1>15
             DEF Handle, DiscoveryComplete, NoLongerDiscovering, linkCallbacks, discoveryCallbacks,
                 connecting, stack, history, ConnectInv, ConnectEvents, LinkEvents
<1>16. CASE DisconnectionComplete
  <2>1. Handle("disconnectionComplete")
      BY <1>16 DEF DisconnectionComplete
  <2>2. \A type : Queued(type) <=> type = "disconnectionComplete" \/ Queued(type)'
      BY <1>1, <2>1, HandleIs
  <2>3. /\ Of = attempts /\ attempts # None
        /\ ~Queued("connectionComplete")
        /\ \A one \in LinkEvents : ~Queued(one)'
      BY <1>1, <2>1, HandleQueue DEF ConnectEvents, LinkEvents
  <2> QED BY <1>1, <2>1, <2>2, <2>3, <1>16
             DEF Handle, DisconnectionComplete, ReallyAssert, linkCallbacks, discoveryCallbacks,
                 connecting, stack, history, ConnectInv, ConnectEvents, LinkEvents
<1>17. CASE UpdateComplete
  <2>1. Handle("updateComplete")
      BY <1>17 DEF UpdateComplete
  <2>2. \A type : Queued(type) <=> type = "updateComplete" \/ Queued(type)'
      BY <1>1, <2>1, HandleIs
  <2>3. /\ Of = attempts /\ attempts # None
        /\ ~Queued("connectionComplete")
      BY <1>1, <2>1, HandleQueue DEF ConnectEvents, LinkEvents
  <2> QED BY <1>1, <2>1, <2>2, <2>3, <1>17
             DEF Handle, UpdateComplete, linkCallbacks, discoveryCallbacks, connecting, stack,
                 history, ConnectInv, ConnectEvents, LinkEvents
<1>18. CASE PairingComplete
  <2>1. Handle("pairingComplete")
      BY <1>18 DEF PairingComplete
  <2>2. \A type : Queued(type) <=> type = "pairingComplete" \/ Queued(type)'
      BY <1>1, <2>1, HandleIs
  <2>3. /\ Of = attempts /\ attempts # None
        /\ ~Queued("connectionComplete")
      BY <1>1, <2>1, HandleQueue DEF ConnectEvents, LinkEvents
  <2> QED BY <1>1, <2>1, <2>2, <2>3, <1>18
             DEF Handle, PairingComplete, ReallyAssert, linkCallbacks, discoveryCallbacks,
                 connecting, stack, history, ConnectInv, ConnectEvents, LinkEvents
<1>19. CASE LinkChange
  <2>1. Handle("linkChange")
      BY <1>19 DEF LinkChange
  <2>2. \A type : Queued(type) <=> type = "linkChange" \/ Queued(type)'
      BY <1>1, <2>1, HandleIs
  <2>3. /\ Of = attempts /\ attempts # None
        /\ ~Queued("connectionComplete")
      BY <1>1, <2>1, HandleQueue DEF ConnectEvents, LinkEvents
  <2> QED BY <1>1, <2>1, <2>2, <2>3, <1>19
             DEF Handle, LinkChange, ReallyAssert, linkCallbacks, discoveryCallbacks, connecting,
                 stack, history, ConnectInv, ConnectEvents, LinkEvents
<1>40. CASE DisconnectionFailed
  <2>1. Handle("disconnectionFailed")
      BY <1>40 DEF DisconnectionFailed
  <2>2. \A type : Queued(type) <=> type = "disconnectionFailed" \/ Queued(type)'
      BY <1>1, <2>1, HandleIs
  <2>3. /\ Of = attempts /\ attempts # None
        /\ ~Queued("connectionComplete")
      BY <1>1, <2>1, HandleQueue DEF ConnectEvents, LinkEvents
  <2> QED BY <1>1, <2>1, <2>2, <2>3, <1>40
             DEF Handle, DisconnectionFailed, ReallyAssert, linkCallbacks, discoveryCallbacks, connecting,
                 stack, history, ConnectInv, ConnectEvents, LinkEvents
<1>20. CASE L2capConnectionUpdateRequest
  <2>1. Handle("l2capRequest")
      BY <1>20 DEF L2capConnectionUpdateRequest
  <2>2. \A type : Queued(type) <=> type = "l2capRequest" \/ Queued(type)'
      BY <1>1, <2>1, HandleIs
  <2>3. /\ Of = attempts /\ attempts # None
        /\ ~Queued("connectionComplete")
      BY <1>1, <2>1, HandleQueue DEF ConnectEvents, LinkEvents
  <2> QED BY <1>1, <2>1, <2>2, <2>3, <1>20
             DEF Handle, L2capConnectionUpdateRequest, linkCallbacks, discoveryCallbacks,
                 connecting, stack, history, ConnectInv, ConnectEvents, LinkEvents
<1>21. CASE Establishes
    BY <1>1, <1>21, EstablishesIs, ConnectEnds
       DEF ConnectInv, AttemptInv, ConnectEvents, LinkEvents, connecting
<1>22. CASE Fails
  <2>1. CASE \A type : Queued(type)' <=> Queued(type) \/ type \in {"connectionFailed",
        "connectProcedureComplete"}
      BY <1>1, <2>1, <1>22, ConnectEnds
         DEF ConnectInv, AttemptInv, ConnectEvents, LinkEvents, connecting
  <2>2. CASE aborting /\ \A type : Queued(type)' <=> Queued(type) \/ type = "connectProcedureComplete"
      BY <1>1, <2>2, <1>22, ConnectEnds
         DEF ConnectInv, AttemptInv, ConnectEvents, LinkEvents, connecting
  <2> QED BY <1>1, <2>1, <2>2, <1>22, FailsIs
<1>23. CASE LosesLink
    BY <1>1, <1>23, LosesLinkIs
       DEF LosesLink, OfLink, Stays, linkCallbacks, discoveryCallbacks, connecting, stack, history,
           ConnectInv, ConnectEvents, LinkEvents
<1>24. CASE FinishesUpdate
    BY <1>1, <1>24, ReportsIs
       DEF FinishesUpdate, LinkFinishes, Stays, linkCallbacks, discoveryCallbacks, connecting,
           stack, history, ConnectInv, ConnectEvents, LinkEvents
<1>25. CASE FinishesPairing
    BY <1>1, <1>25, ReportsIs
       DEF FinishesPairing, LinkFinishes, Stays, linkCallbacks, discoveryCallbacks, connecting,
           stack, history, ConnectInv, ConnectEvents, LinkEvents
<1>41. CASE FailsToTerminate
    BY <1>1, <1>41, ReportsIs
       DEF FailsToTerminate, LinkFinishes, Stays, linkCallbacks, discoveryCallbacks, connecting,
           stack, history, ConnectInv, ConnectEvents, LinkEvents
<1>26. CASE FinishesDiscovery
    BY <1>1, <1>26, ReportsIs
       DEF FinishesDiscovery, Stays, linkCallbacks, discoveryCallbacks, connecting, stack, history,
           ConnectInv, ConnectEvents, LinkEvents
<1>27. CASE Reports
    BY <1>1, <1>27, ReportsIs
       DEF Reports, Stays, linkCallbacks, discoveryCallbacks, connecting, stack, history,
           ConnectInv, ConnectEvents, LinkEvents
<1>28. CASE UNCHANGED vars
  <2>1. \A type : Queued(type)' <=> Queued(type)
      BY <1>28 DEF vars, stack, Queued
  <2> QED BY <1>1, <2>1, <1>28
             DEF vars, linkCallbacks, discoveryCallbacks, connecting, stack, history, ConnectInv
<1> QED BY <1>40, <1>41, <1>2, <1>3, <1>4, <1>5, <1>6, <1>7, <1>8, <1>9, <1>10, <1>11, <1>12, <1>13, <1>14,
           <1>15, <1>16, <1>17, <1>18, <1>19, <1>20, <1>21, <1>22, <1>23, <1>24, <1>25, <1>26,
                <1>27, <1>28 DEF Next, HandleEvent

(* What the host asks of a connect that was told nothing yet is no matter  *)
(* of another one.                                                         *)
LEMMA ToldOfAnother ==
    ASSUME ToldInv, told[attempts] = "none", ~(attempts > attempts),
           UNCHANGED <<onConnectDone, attempts, fate, told>>,
           \A a \in Attempt : a # attempts =>
               /\ a \in late' <=> a \in late
               /\ \A result \in FailureResult : <<a, result>> \in asked' <=> <<a, result>> \in asked
    PROVE  ToldInv'
<1>1. ASSUME NEW a \in Attempt, a # attempts
      PROVE  /\ EndedByItself(a)' <=> EndedByItself(a)
             /\ TimedOut(a)' <=> TimedOut(a)
             /\ <<a, "cancelled">> \in asked' <=> <<a, "cancelled">> \in asked
    BY <1>1 DEF EndedByItself, TimedOut, FailureResult
<1>2. \A a \in Attempt : ResultIs(a, told[a])'
  <2>1. SUFFICES ASSUME NEW a \in Attempt
                 PROVE  ResultIs(a, told[a])'
      OBVIOUS
  <2>2. CASE a = attempts
      BY <2>2 DEF ResultIs
  <2>3. CASE a # attempts
      BY <1>1, <2>3 DEF ResultIs, ToldInv
  <2> QED BY <2>2, <2>3
<1>3. \A a \in Attempt : a > attempts' => EndedByItself(a)'
    BY <1>1 DEF ToldInv
<1> QED BY <1>2, <1>3 DEF ToldInv

(* Every step keeps what a connect was told true to what became of it. *)
LEMMA ToldStep ==
    ASSUME Inv, FreesWhenHandled, [Next]_vars
    PROVE  ToldInv'
<1> USE DEF ResultIs, EndedByItself, TimedOut
<1>1. /\ Types /\ TimerInv /\ QueueInv
      /\ AttemptInv /\ ConnectInv /\ ToldInv
    BY DEF Inv
<1>2. CASE Connect
  <2>1. /\ attempts' = attempts + 1 /\ attempts' \in Attempt /\ onConnectDone' = attempts'
        /\ onConnectDone = None /\ told[attempts'] = "none"
      BY <1>2, ConnectBegins
  <2>2. UNCHANGED <<told, fate, asked, late>>
      BY <1>2 DEF Connect
  <2>3. \A a \in Attempt : a # None /\ (a <= attempts' => a <= attempts \/ a = attempts') /\ (a > attempts' => a > attempts)
      BY <1>1, <2>1, MaxAttemptsAssumption DEF Types, HistoryTypes, Attempt, None
  <2> QED BY <1>1, <2>1, <2>2, <2>3 DEF ToldInv
<1>3. CASE CancelConnect
  <2>1. /\ onConnectDone = attempts /\ attempts \in Attempt /\ told[attempts] = "none"
        /\ ~(attempts > attempts)
      BY <1>1, <1>3 DEF CancelConnect, AttemptInv, Types, CentralTypes, HistoryTypes, Number
  <2>2. /\ UNCHANGED <<onConnectDone, attempts, fate, told, late>>
        /\ UNCHANGED asked \/ asked' = asked \cup {<<onConnectDone, "cancelled">>}
      BY <1>3 DEF CancelConnect
  <2>3. \A a \in Attempt : a # attempts =>
            /\ a \in late' <=> a \in late
            /\ \A result \in FailureResult : <<a, result>> \in asked' <=> <<a, result>> \in asked
      BY <2>1, <2>2
  <2> QED BY <1>1, <2>1, <2>2, <2>3, ToldOfAnother
<1>4. CASE Disconnect
  <2>1. \A type : Queued(type)' <=> Queued(type)
      BY <1>4 DEF Disconnect, LinkCommand, stack, Queued
  <2> QED BY <1>1, <2>1, <1>4
             DEF Disconnect, LinkCommand, linkCallbacks, discoveryCallbacks, connecting, stack,
                 history, ToldInv, ConnectEvents, LinkEvents
<1>5. CASE UpdateConnectionParameters
  <2>1. \A type : Queued(type)' <=> Queued(type)
      BY <1>5 DEF UpdateConnectionParameters, LinkCommand, stack, Queued
  <2> QED BY <1>1, <2>1, <1>5
             DEF UpdateConnectionParameters, LinkCommand, linkCallbacks, discoveryCallbacks,
                 connecting, stack, history, ToldInv, ConnectEvents, LinkEvents
<1>6. CASE PairAndBond
  <2>1. \A type : Queued(type)' <=> Queued(type)
      BY <1>6 DEF PairAndBond, LinkCommand, stack, Queued
  <2> QED BY <1>1, <2>1, <1>6
             DEF PairAndBond, LinkCommand, linkCallbacks, discoveryCallbacks, connecting, stack,
                 history, ToldInv, ConnectEvents, LinkEvents
<1>7. CASE StartDeviceDiscovery
  <2>1. \A type : Queued(type)' <=> Queued(type)
      BY <1>7 DEF StartDeviceDiscovery, stack, Queued
  <2> QED BY <1>1, <2>1, <1>7
             DEF StartDeviceDiscovery, linkCallbacks, discoveryCallbacks, connecting, stack,
                 history, ToldInv, ConnectEvents, LinkEvents
<1>8. CASE StopDeviceDiscovery
  <2>1. \A type : Queued(type)' <=> Queued(type)
      BY <1>8 DEF StopDeviceDiscovery, stack, Queued
  <2> QED BY <1>1, <2>1, <1>8
             DEF StopDeviceDiscovery, linkCallbacks, discoveryCallbacks, connecting, stack,
                 history, ToldInv, ConnectEvents, LinkEvents
<1>9. CASE InitiatingTimeout
  <2>1. /\ onConnectDone = attempts /\ attempts \in Attempt /\ told[attempts] = "none"
        /\ ~(attempts > attempts)
      BY <1>1, <1>9
         DEF InitiatingTimeout, TimerInv, AttemptInv, Types, CentralTypes, HistoryTypes, Number
  <2>2. /\ UNCHANGED <<onConnectDone, attempts, fate, told>>
        /\ UNCHANGED asked \/ asked' = asked \cup {<<onConnectDone, "timeout">>}
        /\ UNCHANGED late \/ late' = late \cup {onConnectDone}
      BY <1>9 DEF InitiatingTimeout
  <2>3. \A a \in Attempt : a # attempts =>
            /\ a \in late' <=> a \in late
            /\ \A result \in FailureResult : <<a, result>> \in asked' <=> <<a, result>> \in asked
      BY <2>1, <2>2
  <2> QED BY <1>1, <2>1, <2>2, <2>3, ToldOfAnother
<1>10. CASE CompleteStartDeviceDiscovery
  <2>1. \A type : Queued(type)' <=> Queued(type)
      BY <1>10 DEF CompleteStartDeviceDiscovery, stack, Queued
  <2> QED BY <1>1, <2>1, <1>10
             DEF CompleteStartDeviceDiscovery, linkCallbacks, discoveryCallbacks, connecting,
                 stack, history, ToldInv, ConnectEvents, LinkEvents
<1>11. CASE L2capRespond
  <2>1. \A type : Queued(type)' <=> Queued(type)
      BY <1>11 DEF L2capRespond, stack, Queued
  <2> QED BY <1>1, <2>1, <1>11
             DEF L2capRespond, linkCallbacks, discoveryCallbacks, connecting, stack, history,
                 ToldInv, ConnectEvents, LinkEvents
<1>12. CASE ConnectionComplete
  <2>1. Handle("connectionComplete")
      BY <1>12 DEF ConnectionComplete
  <2>2. UNCHANGED <<attempts, fate, asked, late>>
      BY <2>1 DEF Handle
  <2>3. CASE onConnectDone = None
    <3>1. UNCHANGED <<told, onConnectDone>>
        BY <2>3, <1>12 DEF ConnectionComplete, Tell
    <3> QED BY <1>1, <2>2, <3>1 DEF ToldInv
  <2>4. CASE onConnectDone # None
    <3>1. onConnectDone = attempts /\ attempts \in Attempt
        BY <1>1, <2>4 DEF AttemptInv, Types, CentralTypes, Number
    <3>2. told' = [told EXCEPT ![attempts] = "success"] /\ onConnectDone' = None
        BY <2>4, <3>1, <1>12 DEF ConnectionComplete, Tell
    <3>3. told'[attempts] = "success" /\ \A a \in Attempt : a # attempts => told'[a] = told[a]
        BY <1>1, <3>1, <3>2 DEF Types, HistoryTypes
    <3>4. \A a \in Attempt : a # attempts /\ a <= attempts => told[a] # "none"
        BY <1>1, <2>4, <3>1 DEF ToldInv
    <3>5. \A a \in Attempt : a > attempts => a # attempts
        BY <1>1 DEF Types, HistoryTypes, Attempt
    <3>6. Queued("connectionComplete")
        BY <1>1, <2>1, HandleIs
    <3>7. fate[attempts] = "connected"
        BY <1>1, <3>6 DEF ConnectInv
    <3> QED BY <1>1, <2>2, <3>1, <3>2, <3>3, <3>4, <3>5, <3>7 DEF ToldInv, FailureResult
  <2> QED BY <2>3, <2>4
<1>13. CASE ConnectionFailed
  <2>1. Handle("connectionFailed")
      BY <1>13 DEF ConnectionFailed
  <2>2. UNCHANGED <<attempts, fate, asked, late>>
      BY <2>1 DEF Handle
  <2>3. CASE onConnectDone = None
    <3>1. UNCHANGED <<told, onConnectDone>>
        BY <2>3, <1>13 DEF ConnectionFailed, Tell
    <3> QED BY <1>1, <2>2, <3>1 DEF ToldInv
  <2>4. CASE onConnectDone # None
    <3>1. onConnectDone = attempts /\ attempts \in Attempt
        BY <1>1, <2>4 DEF AttemptInv, Types, CentralTypes, Number
    <3>2. told' = [told EXCEPT ![attempts] = connectFailureResult] /\ onConnectDone' = None
        BY <2>4, <3>1, <1>13 DEF ConnectionFailed, Tell
    <3>3. told'[attempts] = connectFailureResult /\ \A a \in Attempt : a # attempts => told'[a] = told[a]
        BY <1>1, <3>1, <3>2 DEF Types, HistoryTypes
    <3>4. \A a \in Attempt : a # attempts /\ a <= attempts => told[a] # "none"
        BY <1>1, <2>4, <3>1 DEF ToldInv
    <3>5. \A a \in Attempt : a > attempts => a # attempts
        BY <1>1 DEF Types, HistoryTypes, Attempt
    <3>6. Queued("connectionFailed")
        BY <1>1, <2>1, HandleIs
    <3>7. fate[attempts] = "ended"
        BY <1>1, <3>6 DEF ConnectInv
    <3>8. connectFailureResult \in FailureResult /\ connectFailureResult # "none" /\ connectFailureResult # "success"
        BY <1>1 DEF Types, CentralTypes, FailureResult
    <3>9. ResultIs(attempts, connectFailureResult)
        BY <1>1, <2>4 DEF AttemptInv
    <3> QED BY <1>1, <2>2, <3>1, <3>2, <3>3, <3>4, <3>5, <3>7, <3>8, <3>9 DEF ToldInv
  <2> QED BY <2>3, <2>4
<1>14. CASE ConnectProcedureComplete
  <2>1. Handle("connectProcedureComplete")
      BY <1>14 DEF ConnectProcedureComplete
  <2>2. UNCHANGED <<attempts, fate, asked, late>>
      BY <2>1 DEF Handle
  <2>3. CASE onConnectDone = None \/ Ignored
    <3>1. UNCHANGED <<told, onConnectDone>>
        BY <2>3, <1>14 DEF ConnectProcedureComplete, Tell, Ignored
    <3> QED BY <1>1, <2>2, <3>1 DEF ToldInv
  <2>4. CASE onConnectDone # None /\ ~Ignored
    <3>1. onConnectDone = attempts /\ attempts \in Attempt
        BY <1>1, <2>4 DEF AttemptInv, Types, CentralTypes, Number
    <3>2. told' = [told EXCEPT ![attempts] = connectFailureResult] /\ onConnectDone' = None
        BY <2>4, <3>1, <1>14 DEF ConnectProcedureComplete, Tell
    <3>3. told'[attempts] = connectFailureResult /\ \A a \in Attempt : a # attempts => told'[a] = told[a]
        BY <1>1, <3>1, <3>2 DEF Types, HistoryTypes
    <3>4. \A a \in Attempt : a # attempts /\ a <= attempts => told[a] # "none"
        BY <1>1, <2>4, <3>1 DEF ToldInv
    <3>5. \A a \in Attempt : a > attempts => a # attempts
        BY <1>1 DEF Types, HistoryTypes, Attempt
    <3>6. Queued("connectProcedureComplete")
        BY <1>1, <2>1, HandleIs
    <3>7. fate[attempts] = "ended"
      <4>1. ~Queued("connectionComplete") /\ ~Queued("connectionFailed")
          BY <1>1, <2>1, HandleIs, HandleQueue DEF ConnectEvents
      <4> QED BY <1>1, <2>4, <3>6, <4>1 DEF ConnectInv
    <3>8. connectFailureResult \in FailureResult /\ connectFailureResult # "none" /\ connectFailureResult # "success"
        BY <1>1 DEF Types, CentralTypes, FailureResult
    <3>9. ResultIs(attempts, connectFailureResult)
        BY <1>1, <2>4 DEF AttemptInv
    <3> QED BY <1>1, <2>2, <3>1, <3>2, <3>3, <3>4, <3>5, <3>7, <3>8, <3>9 DEF ToldInv
  <2> QED BY <2>3, <2>4
<1>15. CASE DiscoveryComplete
  <2>1. Handle("discoveryProcedureComplete")
      BY <1>15 DEF DiscoveryComplete
  <2>2. \A type : Queued(type) <=> type = "discoveryProcedureComplete" \/ Queued(type)'
      BY <1>1, <2>1, HandleIs
  <2>3. /\ ~Queued("discoveryProcedureComplete")'
      BY <1>1, <2>1, HandleQueue DEF ConnectEvents, LinkEvents
  <2> QED BY <1>1, <2>1, <2>2, <2>3, <1>15
             DEF Handle, DiscoveryComplete, NoLongerDiscovering, linkCallbacks, discoveryCallbacks,
                 connecting, stack, history, ToldInv, ConnectEvents, LinkEvents
<1>16. CASE DisconnectionComplete
  <2>1. Handle("disconnectionComplete")
      BY <1>16 DEF DisconnectionComplete
  <2>2. \A type : Queued(type) <=> type = "disconnectionComplete" \/ Queued(type)'
      BY <1>1, <2>1, HandleIs
  <2>3. /\ Of = attempts /\ attempts # None
        /\ ~Queued("connectionComplete")
        /\ \A one \in LinkEvents : ~Queued(one)'
      BY <1>1, <2>1, HandleQueue DEF ConnectEvents, LinkEvents
  <2> QED BY <1>1, <2>1, <2>2, <2>3, <1>16
             DEF Handle, DisconnectionComplete, ReallyAssert, linkCallbacks, discoveryCallbacks,
                 connecting, stack, history, ToldInv, ConnectEvents, LinkEvents
<1>17. CASE UpdateComplete
  <2>1. Handle("updateComplete")
      BY <1>17 DEF UpdateComplete
  <2>2. \A type : Queued(type) <=> type = "updateComplete" \/ Queued(type)'
      BY <1>1, <2>1, HandleIs
  <2>3. /\ Of = attempts /\ attempts # None
        /\ ~Queued("connectionComplete")
      BY <1>1, <2>1, HandleQueue DEF ConnectEvents, LinkEvents
  <2> QED BY <1>1, <2>1, <2>2, <2>3, <1>17
             DEF Handle, UpdateComplete, linkCallbacks, discoveryCallbacks, connecting, stack,
                 history, ToldInv, ConnectEvents, LinkEvents
<1>18. CASE PairingComplete
  <2>1. Handle("pairingComplete")
      BY <1>18 DEF PairingComplete
  <2>2. \A type : Queued(type) <=> type = "pairingComplete" \/ Queued(type)'
      BY <1>1, <2>1, HandleIs
  <2>3. /\ Of = attempts /\ attempts # None
        /\ ~Queued("connectionComplete")
      BY <1>1, <2>1, HandleQueue DEF ConnectEvents, LinkEvents
  <2> QED BY <1>1, <2>1, <2>2, <2>3, <1>18
             DEF Handle, PairingComplete, ReallyAssert, linkCallbacks, discoveryCallbacks,
                 connecting, stack, history, ToldInv, ConnectEvents, LinkEvents
<1>19. CASE LinkChange
  <2>1. Handle("linkChange")
      BY <1>19 DEF LinkChange
  <2>2. \A type : Queued(type) <=> type = "linkChange" \/ Queued(type)'
      BY <1>1, <2>1, HandleIs
  <2>3. /\ Of = attempts /\ attempts # None
        /\ ~Queued("connectionComplete")
      BY <1>1, <2>1, HandleQueue DEF ConnectEvents, LinkEvents
  <2> QED BY <1>1, <2>1, <2>2, <2>3, <1>19
             DEF Handle, LinkChange, ReallyAssert, linkCallbacks, discoveryCallbacks, connecting,
                 stack, history, ToldInv, ConnectEvents, LinkEvents
<1>40. CASE DisconnectionFailed
  <2>1. Handle("disconnectionFailed")
      BY <1>40 DEF DisconnectionFailed
  <2>2. \A type : Queued(type) <=> type = "disconnectionFailed" \/ Queued(type)'
      BY <1>1, <2>1, HandleIs
  <2>3. /\ Of = attempts /\ attempts # None
        /\ ~Queued("connectionComplete")
      BY <1>1, <2>1, HandleQueue DEF ConnectEvents, LinkEvents
  <2> QED BY <1>1, <2>1, <2>2, <2>3, <1>40
             DEF Handle, DisconnectionFailed, ReallyAssert, linkCallbacks, discoveryCallbacks, connecting,
                 stack, history, ToldInv, ConnectEvents, LinkEvents
<1>20. CASE L2capConnectionUpdateRequest
  <2>1. Handle("l2capRequest")
      BY <1>20 DEF L2capConnectionUpdateRequest
  <2>2. \A type : Queued(type) <=> type = "l2capRequest" \/ Queued(type)'
      BY <1>1, <2>1, HandleIs
  <2>3. /\ Of = attempts /\ attempts # None
        /\ ~Queued("connectionComplete")
      BY <1>1, <2>1, HandleQueue DEF ConnectEvents, LinkEvents
  <2> QED BY <1>1, <2>1, <2>2, <2>3, <1>20
             DEF Handle, L2capConnectionUpdateRequest, linkCallbacks, discoveryCallbacks,
                 connecting, stack, history, ToldInv, ConnectEvents, LinkEvents
<1>21. CASE Establishes
  <2>1. /\ attempts \in Attempt /\ told[attempts] = "none" /\ UNCHANGED <<attempts, told, asked,
           late, onConnectDone>>
        /\ \A a \in Attempt : a # attempts => fate'[a] = fate[a]
      BY <1>21, ConnectEnds DEF connecting
  <2> QED BY <1>1, <2>1 DEF ToldInv, FailureResult
<1>22. CASE Fails
  <2>1. /\ attempts \in Attempt /\ told[attempts] = "none" /\ UNCHANGED <<attempts, told, asked,
           late, onConnectDone>>
        /\ \A a \in Attempt : a # attempts => fate'[a] = fate[a]
      BY <1>22, ConnectEnds DEF connecting
  <2> QED BY <1>1, <2>1 DEF ToldInv, FailureResult
<1>23. CASE LosesLink
    BY <1>1, <1>23, LosesLinkIs
       DEF LosesLink, OfLink, Stays, linkCallbacks, discoveryCallbacks, connecting, stack, history,
           ToldInv, ConnectEvents, LinkEvents
<1>24. CASE FinishesUpdate
    BY <1>1, <1>24, ReportsIs
       DEF FinishesUpdate, LinkFinishes, Stays, linkCallbacks, discoveryCallbacks, connecting,
           stack, history, ToldInv, ConnectEvents, LinkEvents
<1>25. CASE FinishesPairing
    BY <1>1, <1>25, ReportsIs
       DEF FinishesPairing, LinkFinishes, Stays, linkCallbacks, discoveryCallbacks, connecting,
           stack, history, ToldInv, ConnectEvents, LinkEvents
<1>41. CASE FailsToTerminate
    BY <1>1, <1>41, ReportsIs
       DEF FailsToTerminate, LinkFinishes, Stays, linkCallbacks, discoveryCallbacks, connecting,
           stack, history, ToldInv, ConnectEvents, LinkEvents
<1>26. CASE FinishesDiscovery
    BY <1>1, <1>26, ReportsIs
       DEF FinishesDiscovery, Stays, linkCallbacks, discoveryCallbacks, connecting, stack, history,
           ToldInv, ConnectEvents, LinkEvents
<1>27. CASE Reports
    BY <1>1, <1>27, ReportsIs
       DEF Reports, Stays, linkCallbacks, discoveryCallbacks, connecting, stack, history, ToldInv,
           ConnectEvents, LinkEvents
<1>28. CASE UNCHANGED vars
  <2>1. \A type : Queued(type)' <=> Queued(type)
      BY <1>28 DEF vars, stack, Queued
  <2> QED BY <1>1, <2>1, <1>28
             DEF vars, linkCallbacks, discoveryCallbacks, connecting, stack, history, ToldInv
<1> QED BY <1>40, <1>41, <1>2, <1>3, <1>4, <1>5, <1>6, <1>7, <1>8, <1>9, <1>10, <1>11, <1>12, <1>13, <1>14,
           <1>15, <1>16, <1>17, <1>18, <1>19, <1>20, <1>21, <1>22, <1>23, <1>24, <1>25, <1>26,
                <1>27, <1>28 DEF Next, HandleEvent

(* Every step keeps account of the link. *)
LEMMA LinkStep ==
    ASSUME Inv, FreesWhenHandled, [Next]_vars
    PROVE  LinkInv'
<1>1. /\ Types /\ QueueInv
      /\ AttemptInv /\ ConnectInv /\ LinkInv
    BY DEF Inv
<1>2. CASE Connect
    BY <1>1, <1>2, ConnectBegins DEF Connect, LinkInv, ConnectEvents
<1>3. CASE CancelConnect
  <2>1. \A type : Queued(type)' <=> Queued(type)
      BY <1>3 DEF CancelConnect, TerminateAccepted, stack, Queued
  <2> QED BY <1>1, <2>1, <1>3
             DEF CancelConnect, TerminateAccepted, linkCallbacks, discoveryCallbacks, connecting,
                 stack, history, LinkInv, ConnectEvents, LinkEvents, OfLink
<1>4. CASE Disconnect
  <2>1. \A type : Queued(type)' <=> Queued(type)
      BY <1>4 DEF Disconnect, LinkCommand, stack, Queued
  <2> QED BY <1>1, <2>1, <1>4
             DEF Disconnect, LinkCommand, linkCallbacks, discoveryCallbacks, connecting, stack,
                 history, LinkInv, ConnectEvents, LinkEvents, OfLink
<1>5. CASE UpdateConnectionParameters
  <2>1. \A type : Queued(type)' <=> Queued(type)
      BY <1>5 DEF UpdateConnectionParameters, LinkCommand, stack, Queued
  <2> QED BY <1>1, <2>1, <1>5
             DEF UpdateConnectionParameters, LinkCommand, linkCallbacks, discoveryCallbacks,
                 connecting, stack, history, LinkInv, ConnectEvents, LinkEvents, OfLink
<1>6. CASE PairAndBond
  <2>1. \A type : Queued(type)' <=> Queued(type)
      BY <1>6 DEF PairAndBond, LinkCommand, stack, Queued
  <2> QED BY <1>1, <2>1, <1>6
             DEF PairAndBond, LinkCommand, linkCallbacks, discoveryCallbacks, connecting, stack,
                 history, LinkInv, ConnectEvents, LinkEvents, OfLink
<1>7. CASE StartDeviceDiscovery
  <2>1. \A type : Queued(type)' <=> Queued(type)
      BY <1>7 DEF StartDeviceDiscovery, stack, Queued
  <2> QED BY <1>1, <2>1, <1>7
             DEF StartDeviceDiscovery, linkCallbacks, discoveryCallbacks, connecting, stack,
                 history, LinkInv, ConnectEvents, LinkEvents, OfLink
<1>8. CASE StopDeviceDiscovery
  <2>1. \A type : Queued(type)' <=> Queued(type)
      BY <1>8 DEF StopDeviceDiscovery, stack, Queued
  <2> QED BY <1>1, <2>1, <1>8
             DEF StopDeviceDiscovery, linkCallbacks, discoveryCallbacks, connecting, stack,
                 history, LinkInv, ConnectEvents, LinkEvents, OfLink
<1>9. CASE InitiatingTimeout
  <2>1. \A type : Queued(type)' <=> Queued(type)
      BY <1>9 DEF InitiatingTimeout, TerminateGapProcedure, TerminateAccepted, stack, Queued
  <2> QED BY <1>1, <2>1, <1>9
             DEF InitiatingTimeout, TerminateGapProcedure, TerminateAccepted, linkCallbacks,
                 discoveryCallbacks, connecting, stack, history, LinkInv, ConnectEvents,
                 LinkEvents, OfLink
<1>10. CASE CompleteStartDeviceDiscovery
  <2>1. \A type : Queued(type)' <=> Queued(type)
      BY <1>10 DEF CompleteStartDeviceDiscovery, stack, Queued
  <2> QED BY <1>1, <2>1, <1>10
             DEF CompleteStartDeviceDiscovery, linkCallbacks, discoveryCallbacks, connecting,
                 stack, history, LinkInv, ConnectEvents, LinkEvents, OfLink
<1>11. CASE L2capRespond
  <2>1. \A type : Queued(type)' <=> Queued(type)
      BY <1>11 DEF L2capRespond, stack, Queued
  <2> QED BY <1>1, <2>1, <1>11
             DEF L2capRespond, linkCallbacks, discoveryCallbacks, connecting, stack, history,
                 LinkInv, ConnectEvents, LinkEvents, OfLink
<1>12. CASE ConnectionComplete
  <2>1. Handle("connectionComplete")
      BY <1>12 DEF ConnectionComplete
  <2>2. \A type : Queued(type) <=> type = "connectionComplete" \/ Queued(type)'
      BY <1>1, <2>1, HandleIs
  <2>3. /\ Of = attempts /\ attempts # None
        /\ ~Queued("connectionComplete")' /\ ~Queued("connectionFailed")'
        /\ Queued("connectProcedureComplete")'
      BY <1>1, <2>1, HandleQueue DEF ConnectEvents, LinkEvents
  <2> QED BY <1>1, <2>1, <2>2, <2>3, <1>12
             DEF Handle, ConnectionComplete, Tell, linkCallbacks, discoveryCallbacks, connecting,
                 stack, history, LinkInv, ConnectEvents, LinkEvents, OfLink
<1>13. CASE ConnectionFailed
  <2>1. Handle("connectionFailed")
      BY <1>13 DEF ConnectionFailed
  <2>2. \A type : Queued(type) <=> type = "connectionFailed" \/ Queued(type)'
      BY <1>1, <2>1, HandleIs
  <2>3. /\ Of = attempts /\ attempts # None
        /\ ~Queued("connectionComplete")' /\ ~Queued("connectionFailed")'
        /\ Queued("connectProcedureComplete")'
      BY <1>1, <2>1, HandleQueue DEF ConnectEvents, LinkEvents
  <2> QED BY <1>1, <2>1, <2>2, <2>3, <1>13
             DEF Handle, ConnectionFailed, Tell, linkCallbacks, discoveryCallbacks, connecting,
                 stack, history, LinkInv, ConnectEvents, LinkEvents, OfLink
<1>14. CASE ConnectProcedureComplete
  <2>1. Handle("connectProcedureComplete")
      BY <1>14 DEF ConnectProcedureComplete
  <2>2. \A type : Queued(type) <=> type = "connectProcedureComplete" \/ Queued(type)'
      BY <1>1, <2>1, HandleIs
  <2>3. /\ Of = attempts /\ attempts # None
        /\ ~Queued("connectionComplete")' /\ ~Queued("connectionFailed")'
        /\ ~Queued("connectProcedureComplete")'
      BY <1>1, <2>1, HandleQueue DEF ConnectEvents, LinkEvents
  <2> QED BY <1>1, <2>1, <2>2, <2>3, <1>14
             DEF Handle, ConnectProcedureComplete, Tell, Ignored, linkCallbacks,
                 discoveryCallbacks, connecting, stack, history, LinkInv, ConnectEvents,
                 LinkEvents, OfLink
<1>15. CASE DiscoveryComplete
  <2>1. Handle("discoveryProcedureComplete")
      BY <1>15 DEF DiscoveryComplete
  <2>2. \A type : Queued(type) <=> type = "discoveryProcedureComplete" \/ Queued(type)'
      BY <1>1, <2>1, HandleIs
  <2>3. /\ ~Queued("discoveryProcedureComplete")'
      BY <1>1, <2>1, HandleQueue DEF ConnectEvents, LinkEvents
  <2> QED BY <1>1, <2>1, <2>2, <2>3, <1>15
             DEF Handle, DiscoveryComplete, NoLongerDiscovering, linkCallbacks, discoveryCallbacks,
                 connecting, stack, history, LinkInv, ConnectEvents, LinkEvents, OfLink
<1>16. CASE DisconnectionComplete
  <2>1. Handle("disconnectionComplete")
      BY <1>16 DEF DisconnectionComplete
  <2>2. \A type : Queued(type) <=> type = "disconnectionComplete" \/ Queued(type)'
      BY <1>1, <2>1, HandleIs
  <2>3. /\ Of = attempts /\ attempts # None
        /\ ~Queued("connectionComplete")
        /\ \A one \in LinkEvents : ~Queued(one)'
      BY <1>1, <2>1, HandleQueue DEF ConnectEvents, LinkEvents
  <2> QED BY <1>1, <2>1, <2>2, <2>3, <1>16
             DEF Handle, DisconnectionComplete, ReallyAssert, linkCallbacks, discoveryCallbacks,
                 connecting, stack, history, LinkInv, ConnectEvents, LinkEvents, OfLink
<1>17. CASE UpdateComplete
  <2>1. Handle("updateComplete")
      BY <1>17 DEF UpdateComplete
  <2>2. \A type : Queued(type) <=> type = "updateComplete" \/ Queued(type)'
      BY <1>1, <2>1, HandleIs
  <2>3. /\ Of = attempts /\ attempts # None
        /\ ~Queued("connectionComplete")
      BY <1>1, <2>1, HandleQueue DEF ConnectEvents, LinkEvents
  <2> QED BY <1>1, <2>1, <2>2, <2>3, <1>17
             DEF Handle, UpdateComplete, linkCallbacks, discoveryCallbacks, connecting, stack,
                 history, LinkInv, ConnectEvents, LinkEvents, OfLink
<1>18. CASE PairingComplete
  <2>1. Handle("pairingComplete")
      BY <1>18 DEF PairingComplete
  <2>2. \A type : Queued(type) <=> type = "pairingComplete" \/ Queued(type)'
      BY <1>1, <2>1, HandleIs
  <2>3. /\ Of = attempts /\ attempts # None
        /\ ~Queued("connectionComplete")
      BY <1>1, <2>1, HandleQueue DEF ConnectEvents, LinkEvents
  <2> QED BY <1>1, <2>1, <2>2, <2>3, <1>18
             DEF Handle, PairingComplete, ReallyAssert, linkCallbacks, discoveryCallbacks,
                 connecting, stack, history, LinkInv, ConnectEvents, LinkEvents, OfLink
<1>19. CASE LinkChange
  <2>1. Handle("linkChange")
      BY <1>19 DEF LinkChange
  <2>2. \A type : Queued(type) <=> type = "linkChange" \/ Queued(type)'
      BY <1>1, <2>1, HandleIs
  <2>3. /\ Of = attempts /\ attempts # None
        /\ ~Queued("connectionComplete")
      BY <1>1, <2>1, HandleQueue DEF ConnectEvents, LinkEvents
  <2> QED BY <1>1, <2>1, <2>2, <2>3, <1>19
             DEF Handle, LinkChange, ReallyAssert, linkCallbacks, discoveryCallbacks, connecting,
                 stack, history, LinkInv, ConnectEvents, LinkEvents, OfLink
<1>40. CASE DisconnectionFailed
  <2>1. Handle("disconnectionFailed")
      BY <1>40 DEF DisconnectionFailed
  <2>2. \A type : Queued(type) <=> type = "disconnectionFailed" \/ Queued(type)'
      BY <1>1, <2>1, HandleIs
  <2>3. /\ Of = attempts /\ attempts # None
        /\ ~Queued("connectionComplete")
      BY <1>1, <2>1, HandleQueue DEF ConnectEvents, LinkEvents
  <2> QED BY <1>1, <2>1, <2>2, <2>3, <1>40
             DEF Handle, DisconnectionFailed, ReallyAssert, linkCallbacks, discoveryCallbacks, connecting,
                 stack, history, LinkInv, ConnectEvents, LinkEvents, OfLink
<1>20. CASE L2capConnectionUpdateRequest
  <2>1. Handle("l2capRequest")
      BY <1>20 DEF L2capConnectionUpdateRequest
  <2>2. \A type : Queued(type) <=> type = "l2capRequest" \/ Queued(type)'
      BY <1>1, <2>1, HandleIs
  <2>3. /\ Of = attempts /\ attempts # None
        /\ ~Queued("connectionComplete")
      BY <1>1, <2>1, HandleQueue DEF ConnectEvents, LinkEvents
  <2> QED BY <1>1, <2>1, <2>2, <2>3, <1>20
             DEF Handle, L2capConnectionUpdateRequest, linkCallbacks, discoveryCallbacks,
                 connecting, stack, history, LinkInv, ConnectEvents, LinkEvents, OfLink
<1>21. CASE Establishes
    BY <1>1, <1>21, EstablishesIs, ConnectEnds DEF LinkInv, ConnectEvents, LinkEvents, OfLink
<1>22. CASE Fails
  <2>1. CASE \A type : Queued(type)' <=> Queued(type) \/ type \in {"connectionFailed",
        "connectProcedureComplete"}
      BY <1>1, <2>1, <1>22, ConnectEnds DEF LinkInv, ConnectEvents, LinkEvents, OfLink
  <2>2. CASE aborting /\ \A type : Queued(type)' <=> Queued(type) \/ type = "connectProcedureComplete"
      BY <1>1, <2>2, <1>22, ConnectEnds DEF LinkInv, ConnectEvents, LinkEvents, OfLink
  <2> QED BY <1>1, <2>1, <2>2, <1>22, FailsIs
<1>23. CASE LosesLink
    BY <1>1, <1>23, LosesLinkIs
       DEF LosesLink, OfLink, Stays, linkCallbacks, discoveryCallbacks, connecting, stack, history,
           LinkInv, ConnectEvents, LinkEvents, OfLink
<1>24. CASE FinishesUpdate
    BY <1>1, <1>24, ReportsIs
       DEF FinishesUpdate, LinkFinishes, Stays, linkCallbacks, discoveryCallbacks, connecting,
           stack, history, LinkInv, ConnectEvents, LinkEvents, OfLink
<1>25. CASE FinishesPairing
    BY <1>1, <1>25, ReportsIs
       DEF FinishesPairing, LinkFinishes, Stays, linkCallbacks, discoveryCallbacks, connecting,
           stack, history, LinkInv, ConnectEvents, LinkEvents, OfLink
<1>41. CASE FailsToTerminate
    BY <1>1, <1>41, ReportsIs
       DEF FailsToTerminate, LinkFinishes, Stays, linkCallbacks, discoveryCallbacks, connecting,
           stack, history, LinkInv, ConnectEvents, LinkEvents, OfLink
<1>26. CASE FinishesDiscovery
    BY <1>1, <1>26, ReportsIs
       DEF FinishesDiscovery, Stays, linkCallbacks, discoveryCallbacks, connecting, stack, history,
           LinkInv, ConnectEvents, LinkEvents, OfLink
<1>27. CASE Reports
    BY <1>1, <1>27, ReportsIs
       DEF Reports, Stays, linkCallbacks, discoveryCallbacks, connecting, stack, history, LinkInv,
           ConnectEvents, LinkEvents, OfLink
<1>28. CASE UNCHANGED vars
  <2>1. \A type : Queued(type)' <=> Queued(type)
      BY <1>28 DEF vars, stack, Queued
  <2> QED BY <1>1, <2>1, <1>28
             DEF vars, linkCallbacks, discoveryCallbacks, connecting, stack, history, LinkInv
<1> QED BY <1>40, <1>41, <1>2, <1>3, <1>4, <1>5, <1>6, <1>7, <1>8, <1>9, <1>10, <1>11, <1>12, <1>13, <1>14,
           <1>15, <1>16, <1>17, <1>18, <1>19, <1>20, <1>21, <1>22, <1>23, <1>24, <1>25, <1>26,
                <1>27, <1>28 DEF Next, HandleEvent

(* Every step keeps the queue of events in order. *)
LEMMA QueueStep ==
    ASSUME Inv, FreesWhenHandled, [Next]_vars
    PROVE  QueueInv'
<1>1. Types /\ QueueInv /\ AttemptInv /\ LinkInv /\ DiscoveryInv
    BY DEF Inv
<1>2. CASE Connect
  <2>1. UNCHANGED events /\ \A type \in ConnectEvents \cup LinkEvents : ~Queued(type)
      BY <1>2, ConnectBegins DEF Connect
  <2>2. Numbered'
      BY <2>1 DEF Numbered, Queued
  <2> QED BY <1>1, <2>1, <2>2 DEF QueueInv, Paired, Ordered, Once
<1>3. CASE CancelConnect
  <2>1. UNCHANGED <<events, attempts>>
      BY <1>3 DEF CancelConnect, TerminateAccepted, stack, history
  <2> QED BY <1>1, <2>1 DEF QueueInv, Numbered, Paired, Ordered, Once
<1>4. CASE Disconnect
  <2>1. UNCHANGED <<events, attempts>>
      BY <1>4 DEF Disconnect, LinkCommand, stack, history
  <2> QED BY <1>1, <2>1 DEF QueueInv, Numbered, Paired, Ordered, Once
<1>5. CASE UpdateConnectionParameters
  <2>1. UNCHANGED <<events, attempts>>
      BY <1>5 DEF UpdateConnectionParameters, LinkCommand, stack, history
  <2> QED BY <1>1, <2>1 DEF QueueInv, Numbered, Paired, Ordered, Once
<1>6. CASE PairAndBond
  <2>1. UNCHANGED <<events, attempts>>
      BY <1>6 DEF PairAndBond, LinkCommand, stack, history
  <2> QED BY <1>1, <2>1 DEF QueueInv, Numbered, Paired, Ordered, Once
<1>7. CASE StartDeviceDiscovery
  <2>1. UNCHANGED <<events, attempts>>
      BY <1>7 DEF StartDeviceDiscovery, stack, history
  <2> QED BY <1>1, <2>1 DEF QueueInv, Numbered, Paired, Ordered, Once
<1>8. CASE StopDeviceDiscovery
  <2>1. UNCHANGED <<events, attempts>>
      BY <1>8 DEF StopDeviceDiscovery, stack, history
  <2> QED BY <1>1, <2>1 DEF QueueInv, Numbered, Paired, Ordered, Once
<1>9. CASE InitiatingTimeout
  <2>1. UNCHANGED <<events, attempts>>
      BY <1>9 DEF InitiatingTimeout, TerminateGapProcedure, TerminateAccepted, stack, history
  <2> QED BY <1>1, <2>1 DEF QueueInv, Numbered, Paired, Ordered, Once
<1>10. CASE CompleteStartDeviceDiscovery
  <2>1. UNCHANGED <<events, attempts>>
      BY <1>10 DEF CompleteStartDeviceDiscovery, stack, history
  <2> QED BY <1>1, <2>1 DEF QueueInv, Numbered, Paired, Ordered, Once
<1>11. CASE L2capRespond
  <2>1. UNCHANGED <<events, attempts>>
      BY <1>11 DEF L2capRespond, stack, history
  <2> QED BY <1>1, <2>1 DEF QueueInv, Numbered, Paired, Ordered, Once
<1>12. CASE ConnectionComplete
  <2>1. Handle("connectionComplete")
      BY <1>12 DEF ConnectionComplete
  <2> QED BY <1>1, <2>1, HandleQueue
<1>13. CASE ConnectionFailed
  <2>1. Handle("connectionFailed")
      BY <1>13 DEF ConnectionFailed
  <2> QED BY <1>1, <2>1, HandleQueue
<1>14. CASE ConnectProcedureComplete
  <2>1. Handle("connectProcedureComplete")
      BY <1>14 DEF ConnectProcedureComplete
  <2> QED BY <1>1, <2>1, HandleQueue
<1>15. CASE DiscoveryComplete
  <2>1. Handle("discoveryProcedureComplete")
      BY <1>15 DEF DiscoveryComplete
  <2> QED BY <1>1, <2>1, HandleQueue
<1>16. CASE DisconnectionComplete
  <2>1. Handle("disconnectionComplete")
      BY <1>16 DEF DisconnectionComplete
  <2> QED BY <1>1, <2>1, HandleQueue
<1>17. CASE UpdateComplete
  <2>1. Handle("updateComplete")
      BY <1>17 DEF UpdateComplete
  <2> QED BY <1>1, <2>1, HandleQueue
<1>18. CASE PairingComplete
  <2>1. Handle("pairingComplete")
      BY <1>18 DEF PairingComplete
  <2> QED BY <1>1, <2>1, HandleQueue
<1>19. CASE LinkChange
  <2>1. Handle("linkChange")
      BY <1>19 DEF LinkChange
  <2> QED BY <1>1, <2>1, HandleQueue
<1>40. CASE DisconnectionFailed
  <2>1. Handle("disconnectionFailed")
      BY <1>40 DEF DisconnectionFailed
  <2> QED BY <1>1, <2>1, HandleQueue
<1>20. CASE L2capConnectionUpdateRequest
  <2>1. Handle("l2capRequest")
      BY <1>20 DEF L2capConnectionUpdateRequest
  <2> QED BY <1>1, <2>1, HandleQueue
<1>21. CASE Establishes
  <2>1. /\ attempt = attempts /\ attempts # None /\ UNCHANGED attempts
        /\ \A type \in ConnectEvents \cup LinkEvents : ~Queued(type)
      BY <1>21, ConnectEnds
  <2>2. /\ EventOf("connectionComplete", attempt) \in Event /\ EventOf("connectionComplete",
           attempt).type = "connectionComplete"
        /\ EventOf("connectionComplete", attempt).of = attempt
        /\ EventOf("connectProcedureComplete", attempt) \in Event
        /\ EventOf("connectProcedureComplete", attempt).type = "connectProcedureComplete"
        /\ EventOf("connectProcedureComplete", attempt).of = attempt
      BY <1>1 DEF Types, StackTypes, EventOf, Event
  <2>3. CASE events' = events \o <<EventOf("connectionComplete", attempt),
        EventOf("connectProcedureComplete", attempt)>>
      BY <1>1, <2>1, <2>2, <2>3, AppendTwoQueue
  <2> QED BY <2>3, <1>21 DEF Establishes
<1>22. CASE Fails
  <2>1. /\ attempt = attempts /\ attempts # None /\ UNCHANGED attempts
        /\ \A type \in ConnectEvents \cup LinkEvents : ~Queued(type)
      BY <1>22, ConnectEnds
  <2>2. /\ EventOf("connectionFailed", attempt) \in Event /\ EventOf("connectionFailed",
           attempt).type = "connectionFailed"
        /\ EventOf("connectionFailed", attempt).of = attempt
        /\ EventOf("connectProcedureComplete", attempt) \in Event
        /\ EventOf("connectProcedureComplete", attempt).type = "connectProcedureComplete"
        /\ EventOf("connectProcedureComplete", attempt).of = attempt
      BY <1>1 DEF Types, StackTypes, EventOf, Event
  <2>3. CASE events' = events \o <<EventOf("connectionFailed", attempt),
        EventOf("connectProcedureComplete", attempt)>>
      BY <1>1, <2>1, <2>2, <2>3, AppendTwoQueue
  <2>4. CASE events' = Append(events, EventOf("connectProcedureComplete", attempt))
    <3>1. ~Queued("connectProcedureComplete")
        BY <2>1 DEF ConnectEvents
    <3> QED BY <1>1, <2>1, <2>2, <2>4, <3>1, AppendQueue DEF LinkEvents
  <2> QED BY <2>3, <2>4, <1>22 DEF Fails
<1>23. CASE LosesLink
  <2>1. /\ link = attempts /\ attempts # None /\ UNCHANGED attempts
        /\ ~Queued("disconnectionComplete")
      BY <1>1, <1>23 DEF LosesLink, Stays, LinkInv
  <2>2. /\ EventOf("pairingComplete", link) \in Event /\ EventOf("pairingComplete",
           link).type = "pairingComplete"
        /\ EventOf("pairingComplete", link).of = link
        /\ EventOf("disconnectionComplete", link) \in Event
        /\ EventOf("disconnectionComplete", link).type = "disconnectionComplete"
        /\ EventOf("disconnectionComplete", link).of = link
      BY <1>1 DEF Types, StackTypes, EventOf, Event
  <2>3. CASE events' = Append(events, EventOf("disconnectionComplete", link))
      BY <1>1, <2>1, <2>2, <2>3, AppendQueue
  <2>4. CASE events' = events \o <<EventOf("pairingComplete", link),
        EventOf("disconnectionComplete", link)>>
      BY <1>1, <2>1, <2>2, <2>4, AppendTwoQueue
  <2> QED BY <2>3, <2>4, <1>23 DEF LosesLink
<1>24. CASE FinishesUpdate
  <2>1. link = attempts /\ attempts # None /\ ~Queued("disconnectionComplete")
      BY <1>1, <1>24 DEF FinishesUpdate, LinkFinishes, LinkInv, OfLink, DiscoveryInv
  <2>2. EventOf("updateComplete", link) \in Event /\ EventOf("updateComplete",
        link).type = "updateComplete"
        /\ EventOf("updateComplete", link).of = link
      BY <1>1 DEF Types, StackTypes, EventOf, Event, Number
  <2>3. events' = Append(events, EventOf("updateComplete", link)) /\ UNCHANGED attempts
      BY <1>24 DEF FinishesUpdate, LinkFinishes, Stays
  <2> QED BY <1>1, <2>1, <2>2, <2>3, AppendQueue
<1>25. CASE FinishesPairing
  <2>1. link = attempts /\ attempts # None /\ ~Queued("disconnectionComplete")
      BY <1>1, <1>25 DEF FinishesPairing, LinkFinishes, LinkInv, OfLink, DiscoveryInv
  <2>2. EventOf("pairingComplete", link) \in Event /\ EventOf("pairingComplete",
        link).type = "pairingComplete"
        /\ EventOf("pairingComplete", link).of = link
      BY <1>1 DEF Types, StackTypes, EventOf, Event, Number
  <2>3. events' = Append(events, EventOf("pairingComplete", link)) /\ UNCHANGED attempts
      BY <1>25 DEF FinishesPairing, LinkFinishes, Stays
  <2> QED BY <1>1, <2>1, <2>2, <2>3, AppendQueue
<1>41. CASE FailsToTerminate
  <2>1. link = attempts /\ attempts # None /\ ~Queued("disconnectionComplete")
      BY <1>1, <1>41 DEF FailsToTerminate, LinkFinishes, LinkInv, OfLink, DiscoveryInv
  <2>2. EventOf("disconnectionFailed", link) \in Event /\ EventOf("disconnectionFailed",
        link).type = "disconnectionFailed"
        /\ EventOf("disconnectionFailed", link).of = link
      BY <1>1 DEF Types, StackTypes, EventOf, Event, Number
  <2>3. events' = Append(events, EventOf("disconnectionFailed", link)) /\ UNCHANGED attempts
      BY <1>41 DEF FailsToTerminate, LinkFinishes, Stays
  <2> QED BY <1>1, <2>1, <2>2, <2>3, AppendQueue
<1>26. CASE FinishesDiscovery
  <2>1. ~Queued("discoveryProcedureComplete")
      BY <1>1, <1>26 DEF FinishesDiscovery, LinkInv, OfLink, DiscoveryInv
  <2>2. EventOf("discoveryProcedureComplete",
        None) \in Event /\ EventOf("discoveryProcedureComplete",
        None).type = "discoveryProcedureComplete"
        /\ EventOf("discoveryProcedureComplete", None).of = None
      BY <1>1 DEF Types, StackTypes, EventOf, Event, Number
  <2>3. events' = Append(events, EventOf("discoveryProcedureComplete", None)) /\ UNCHANGED attempts
      BY <1>26 DEF FinishesDiscovery, Stays
  <2> QED BY <1>1, <2>1, <2>2, <2>3, AppendQueue DEF ConnectEvents, LinkEvents
<1>27. CASE Reports
  <2>1. link = attempts /\ attempts # None /\ ~Queued("disconnectionComplete") /\ UNCHANGED attempts
      BY <1>1, <1>27 DEF Reports, Stays, LinkInv
  <2>2. /\ EventOf("linkChange", link) \in Event /\ EventOf("linkChange", link).type = "linkChange"
        /\ EventOf("linkChange", link).of = link
        /\ EventOf("l2capRequest", link) \in Event /\ EventOf("l2capRequest",
           link).type = "l2capRequest"
        /\ EventOf("l2capRequest", link).of = link
      BY <1>1 DEF Types, StackTypes, EventOf, Event
  <2>3. CASE events' = Append(events, EventOf("linkChange", link))
      BY <1>1, <2>1, <2>2, <2>3, AppendQueue
  <2>4. CASE events' = Append(events, EventOf("l2capRequest", link))
      BY <1>1, <2>1, <2>2, <2>4, AppendQueue
  <2> QED BY <2>3, <2>4, <1>27 DEF Reports
<1>28. CASE UNCHANGED vars
    BY <1>1, <1>28 DEF vars, stack, history, QueueInv, Numbered, Paired, Ordered, Once
<1> QED BY <1>40, <1>41, <1>2, <1>3, <1>4, <1>5, <1>6, <1>7, <1>8, <1>9, <1>10, <1>11, <1>12, <1>13, <1>14,
           <1>15, <1>16, <1>17, <1>18, <1>19, <1>20, <1>21, <1>22, <1>23, <1>24, <1>25, <1>26,
                <1>27, <1>28 DEF Next, HandleEvent

(* The initial states. *)
LEMMA InitInv ==
    ASSUME Init
    PROVE  Inv
<1>1. events \in Seq(Event) /\ \A type : ~Queued(type)
    BY DEF Init, Queued
<1>2. CentralTypes /\ StackTypes
    BY DEF Init, CentralTypes, StackTypes, Number, None, FailureResult
<1>3. HistoryTypes
    BY MaxAttemptsAssumption DEF Init, HistoryTypes
<1>4. QueueInv
    BY DEF Init, QueueInv, Numbered, Paired, Ordered, Once
<1>5. TimerInv /\ AttemptInv
    BY DEF Init, TimerInv, AttemptInv
<1>6. ConnectInv /\ DiscoveryInv
    BY <1>1 DEF Init, ConnectInv, DiscoveryInv
<1>7. LinkInv
    BY <1>1 DEF Init, LinkInv
<1>8. ToldInv
    BY DEF Init, ToldInv, ResultIs, EndedByItself, Attempt, FailureResult
<1> QED BY <1>1, <1>2, <1>3, <1>4, <1>5, <1>6, <1>7, <1>8 DEF Inv, Types

-----------------------------------------------------------------------------
(* The theorems. *)

(* The variables keep their types, whatever the stack takes.               *)
THEOREM TypeCorrect == Spec => []TypeOK
<1>1. Init => Types /\ TimerInv
    BY InitInv DEF Inv
<1>2. (Types /\ TimerInv) /\ [Next]_vars => (Types /\ TimerInv)'
    BY TypesStep, TimerStep
<1>3. Types /\ TimerInv => TypeOK
    BY DEF Types, CentralTypes, StackTypes, HistoryTypes, TypeOK
<1> QED BY <1>1, <1>2, <1>3, PTL DEF Spec

(* The invariant holds in every reachable state.                           *)
THEOREM Invariant ==
    ASSUME FreesWhenHandled
    PROVE  Spec => []Inv
<1>1. Init => Inv
    BY InitInv
<1>2. Inv /\ [Next]_vars => Inv'
    BY TypesStep, TimerStep, QueueStep, AttemptStep, ConnectStep, ToldStep, LinkStep,
       DiscoveryStep DEF Inv
<1> QED BY <1>1, <1>2, PTL DEF Spec

(* What a connect is told is what became of it.                            *)
THEOREM ConnectsToldAsItWas ==
    ASSUME FreesWhenHandled
    PROVE  Spec => []ToldAsItWas
<1>1. Inv => ToldAsItWas
  <2>1. SUFFICES ASSUME Inv, NEW a \in 1 .. attempts
                 PROVE  CASE told[a] = "none" -> onConnectDone = a
                          [] told[a] = "success" -> fate[a] = "connected"
                          [] told[a] = "connectionFailed" ->
                                 fate[a] = "ended" /\ EndedByItself(a)
                          [] told[a] = "cancelled" ->
                                 fate[a] = "ended" /\ <<a, "cancelled">> \in asked
                          [] OTHER -> fate[a] = "ended" /\ TimedOut(a)
      BY DEF ToldAsItWas
  <2>2. a \in Attempt /\ a <= attempts
      BY <2>1, MaxAttemptsAssumption DEF Inv, Types, HistoryTypes, Attempt
  <2>3. told[a] \in {"none", "success", "connectionFailed", "timeout", "cancelled"}
      BY <2>1, <2>2 DEF Inv, Types, HistoryTypes, FailureResult
  <2>4. CASE told[a] = "none"
      BY <2>1, <2>2, <2>4 DEF Inv, ToldInv
  <2>5. CASE told[a] = "success"
      BY <2>1, <2>2, <2>5 DEF Inv, ToldInv
  <2>6. CASE told[a] = "connectionFailed"
      BY <2>1, <2>2, <2>6 DEF Inv, ToldInv, ResultIs, FailureResult
  <2>7. CASE told[a] \in {"timeout", "cancelled"}
      BY <2>1, <2>2, <2>7 DEF Inv, ToldInv, ResultIs, FailureResult
  <2> QED BY <2>3, <2>4, <2>5, <2>6, <2>7
<1> QED BY <1>1, Invariant, PTL

(* With no event on its way, the central knows the stack's link, connect   *)
(* and discovery, and its assertions hold.                                 *)
THEOREM ContextIsTheStacks ==
    ASSUME FreesWhenHandled
    PROVE  Spec => []ContextMatchesStack
<1>1. Inv => ContextMatchesStack
  <2>1. SUFFICES ASSUME Inv
                 PROVE  ContextMatchesStack
      OBVIOUS
  <2>2. events = <<>> => \A type : ~Queued(type)
      BY DEF Queued
  <2>3. ASSUME events = <<>>
        PROVE  connectionHandle = link
    <3>1. link # None => connectionHandle = link
        BY <2>1, <2>2, <2>3 DEF Inv, LinkInv
    <3>2. connectionHandle # None => link = connectionHandle
        BY <2>1, <2>2, <2>3 DEF Inv, LinkInv
    <3> QED BY <3>1, <3>2
  <2>4. events = <<>> => (onConnectDone # None <=> attempt # None)
      BY <2>1, <2>2 DEF Inv, AttemptInv
  <2>5. events = <<>> => (discovering <=> "discovery" \in procedures)
      BY <2>1, <2>2 DEF Inv, DiscoveryInv
  <2> QED BY <2>1, <2>3, <2>4, <2>5 DEF Inv, LinkInv, ContextMatchesStack
<1> QED BY <1>1, Invariant, PTL
=============================================================================

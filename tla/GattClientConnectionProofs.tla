---------------------- MODULE GattClientConnectionProofs ----------------------
(***************************************************************************)
(* A callback is called with how its own procedure went and a response is  *)
(* read as what was asked for, for any number of procedures and responses, *)
(* any room for a value and parts of any size.  Of the stack it is assumed *)
(* that it takes no procedure before the completion of the one before it   *)
(* is handled.                                                             *)
(***************************************************************************)
EXTENDS GattClientConnection, SequenceTheorems, TLAPS

ClientTypes ==
    /\ connected \in BOOLEAN
    /\ operation \in Operation \cup {"none"}
    /\ onOperationDone \in Number
    /\ onReadDone \in Number
    /\ reading \in BOOLEAN
    /\ value \in Seq(Nat) /\ Len(value) <= Room
    /\ readLongOverflowed \in BOOLEAN
    /\ maxAttMtu \in Number
    /\ toConfirm \in {0, 1}

StackTypes ==
    /\ linked \in BOOLEAN
    /\ current \in Number
    /\ responses \in 0 .. MaxResponses
    /\ indicating \in BOOLEAN

HistoryTypes ==
    /\ kind \in Seq(Operation) /\ Len(kind) <= MaxProcedures
    /\ ended \in [Procedure -> {"running", "success", "error"}]
    /\ sent \in [Procedure -> Nat]
    /\ outcome \in [Procedure -> Outcome \cup {NoOutcome}]
    /\ misread \in BOOLEAN

Types == ClientTypes /\ StackTypes /\ HistoryTypes /\ events \in Seq(Event)

(* The procedure accepted last, or None. *)
Last == Len(kind)

Queued(type) == \E i \in 1 .. Len(events) : events[i].type = type

Responses == {"readResponse", "readBlobResponse"}
OfProcedures == {"mtu", "items", "procedureComplete"} \cup Responses

(* The events of procedures are of the last one and end with its           *)
(* completion; the end of the link is the last event of all.               *)
QueueInv ==
    /\ \A i \in 1 .. Len(events) : events[i].type \in OfProcedures => events[i].of = Last /\ Last # None
    /\ \A i, j \in 1 .. Len(events) :
          i < j => /\ events[i].type = "procedureComplete" => events[j].type \notin OfProcedures
                   /\ events[i].type # "disconnected"

(* While events of a procedure are on their way the stack executes it, or  *)
(* its completion follows, or there is no link any more.                   *)
StackInv ==
    /\ linked => connected
    /\ Queued("disconnected") => ~linked
    /\ current # None => /\ linked /\ current = Last
                         /\ ~Queued("procedureComplete") /\ ended[Last] = "running"
    /\ \A type \in OfProcedures :
          Queued(type) => current # None \/ Queued("procedureComplete") \/ ~linked
    /\ \A p \in Procedure :
          p > Last => ended[p] = "running" /\ sent[p] = 0 /\ outcome[p] = NoOutcome

(* The client's operation is the last procedure until its callback is      *)
(* called, which items are never late for.                                 *)
ClientInv ==
    /\ reading <=> operation = "readLong"
    /\ readLongOverflowed => reading
    /\ onReadDone = IF operation \in Reads THEN Last ELSE None
    /\ onOperationDone = IF operation \in Reads \cup {"none"} THEN None ELSE Last
    /\ operation # "none" => Last # None /\ operation = kind[Last] /\ outcome[Last] = NoOutcome
    /\ Queued("items") => operation \in Discoveries
    /\ current # None /\ operation = "none" => kind[Last] = "read" /\ responses > 0

(* What the stack answered, as far as the events tell. *)
AnswerInv ==
    /\ maxAttMtu <= Last
    /\ Last # None =>
        /\ ended[Last] = "success" /\ kind[Last] \in Reads \cup {"exchangeMtu"} => responses > 0
        /\ ended[Last] = "error" /\ kind[Last] = "read" => responses = 0
        /\ responses = 0 => sent[Last] = 0
        /\ kind[Last] = "exchangeMtu" /\ responses > 0 => Queued("mtu") \/ maxAttMtu = Last
        /\ operation = "read" /\ responses > 0 => Queued("readResponse")
        /\ \A i \in 1 .. Len(events) :
              /\ events[i].type = "procedureComplete" => events[i].result = ended[Last]
              /\ events[i].type = "readResponse" =>
                    responses > 0 /\ (kind[Last] = "read" => Len(events[i].bytes) = sent[Last])

(* f[i] bytes of the value were sent before the i-th event. *)
Carries(f) ==
    /\ readLongOverflowed => Len(value) = Room /\ f[1] > Room
    /\ ~readLongOverflowed => Len(value) = f[1]
    /\ \A i \in 1 .. Len(events) :
          /\ events[i].type \in Responses =>
                /\ f[i + 1] = f[i] + Len(events[i].bytes)
                /\ \A k \in 1 .. Len(events[i].bytes) : events[i].bytes[k] = f[i] + k
          /\ events[i].type \notin Responses => f[i + 1] = f[i]
          /\ events[i].type = "procedureComplete" => f[i] = sent[Last]
    /\ f[Len(events) + 1] = sent[Last]

ReadLongInv ==
    operation = "readLong" => \E f \in [1 .. Len(events) + 1 -> Nat] : Carries(f)

ValueInv == \A i \in 1 .. Len(value) : value[i] = i

OutcomeInv ==
    \A p \in 1 .. Last :
        /\ outcome[p].result = "success" =>
              /\ kind[p] \in Reads => outcome[p].of = p /\ outcome[p].length = sent[p]
              /\ kind[p] = "exchangeMtu" => maxAttMtu >= p
              /\ ended[p] = "success" \/ (kind[p] = "read" /\ ended[p] = "running")
        /\ outcome[p].result = "error" => ended[p] = "error"
        /\ outcome[p].result = "insufficientResources" =>
              /\ kind[p] = "readLong" /\ ended[p] = "success"
              /\ sent[p] > Room /\ outcome[p].length = Room

Inv ==
    /\ Types /\ QueueInv /\ StackInv /\ ClientInv /\ AnswerInv
    /\ ReadLongInv /\ ValueInv /\ OutcomeInv /\ ReadAsAsked

-----------------------------------------------------------------------------
(* The queue of events. *)

(* The dispatcher hands over the first event. *)
LEMMA HandleIs ==
    ASSUME events \in Seq(Event), NEW type, Handle(type)
    PROVE  /\ events' \in Seq(Event) /\ Head(events) \in Event
           /\ Len(events) \in Nat /\ 1 \in 1 .. Len(events) /\ Len(events') = Len(events) - 1
           /\ Head(events) = events[1] /\ events[1].type = type
           /\ \A i \in 1 .. Len(events') : i + 1 \in 1 .. Len(events) /\ events'[i] = events[i + 1]
           /\ \A one : Queued(one) <=> one = type \/ Queued(one)'
<1>1. events # <<>> /\ events' = Tail(events) /\ Head(events).type = type
    BY DEF Handle
<1>2. /\ Len(events) \in Nat /\ Len(events) > 0 /\ Head(events) = events[1]
      /\ events' \in Seq(Event) /\ Len(events') = Len(events) - 1
      /\ \A i \in 1 .. Len(events) - 1 : events'[i] = events[i + 1]
    BY <1>1, HeadTailProperties, LenProperties
<1>3. 1 \in 1 .. Len(events) /\ \A i \in 1 .. Len(events') : i + 1 \in 1 .. Len(events)
    BY <1>2
<1>4. Head(events) \in Event
    BY <1>2, <1>3, ElementOfSeq
<1>5. ASSUME NEW one, NEW i \in 1 .. Len(events), events[i].type = one
      PROVE  one = type \/ Queued(one)'
  <2>1. CASE i = 1
      BY <1>1, <1>2, <1>5, <2>1
  <2>2. CASE i # 1
    <3>1. i - 1 \in 1 .. Len(events') /\ i - 1 + 1 = i
        BY <1>2, <2>2
    <3> QED BY <1>2, <1>5, <3>1 DEF Queued
  <2> QED BY <2>1, <2>2
<1>6. \A one : one = type \/ Queued(one)' => Queued(one)
    BY <1>1, <1>2, <1>3 DEF Queued
<1>7. \A one : Queued(one) => one = type \/ Queued(one)'
    BY <1>5 DEF Queued
<1> QED BY <1>1, <1>2, <1>3, <1>4, <1>6, <1>7

(* The stack reports an event. *)
LEMMA AppendIs ==
    ASSUME events \in Seq(Event), NEW one \in Event, events' = Append(events, one)
    PROVE  /\ events' \in Seq(Event)
           /\ Len(events) \in Nat /\ Len(events') = Len(events) + 1
           /\ \A i \in 1 .. Len(events) : i \in 1 .. Len(events') /\ events'[i] = events[i]
           /\ events'[Len(events')] = one /\ Len(events') \in 1 .. Len(events')
           /\ \A i \in 1 .. Len(events') : i \in 1 .. Len(events) \/ i = Len(events')
           /\ \A type : Queued(type)' <=> Queued(type) \/ type = one.type
<1>1. /\ events' \in Seq(Event) /\ Len(events) \in Nat /\ Len(events') = Len(events) + 1
      /\ \A i \in 1 .. Len(events) : events'[i] = events[i]
      /\ events'[Len(events')] = one
    BY AppendProperties, LenProperties
<1>2. /\ \A i \in 1 .. Len(events) : i \in 1 .. Len(events')
      /\ Len(events') \in 1 .. Len(events')
      /\ \A i \in 1 .. Len(events') : i \in 1 .. Len(events) \/ i = Len(events')
    BY <1>1
<1>3. \A type : Queued(type)' <=> Queued(type) \/ type = one.type
    BY <1>1, <1>2 DEF Queued
<1> QED BY <1>1, <1>2, <1>3

(* An event that is handled leaves the queue in order: a procedure's is of *)
(* the last one, after a completion none of a procedure is left, and after *)
(* the end of the link none at all.                                        *)
LEMMA HandleQueue ==
    ASSUME events \in Seq(Event), QueueInv, NEW type, Handle(type), UNCHANGED kind
    PROVE  /\ QueueInv'
           /\ type \in OfProcedures => Head(events).of = Last /\ Last # None
           /\ type = "procedureComplete" => \A one \in OfProcedures : ~Queued(one)'
           /\ type = "disconnected" => \A one : ~Queued(one)'
<1>1. /\ Len(events) \in Nat /\ 1 \in 1 .. Len(events) /\ Len(events') = Len(events) - 1
      /\ Head(events) = events[1] /\ events[1].type = type
      /\ \A i \in 1 .. Len(events') : i + 1 \in 1 .. Len(events) /\ events'[i] = events[i + 1]
    BY HandleIs
<1>2. \A i \in 1 .. Len(events') : 1 < i + 1 /\ \A j \in 1 .. Len(events') : i < j => i + 1 < j + 1
    BY <1>1
<1>3. type \in OfProcedures => Head(events).of = Last /\ Last # None
    BY <1>1 DEF QueueInv
<1>4. ASSUME NEW i \in 1 .. Len(events')
      PROVE  /\ type = "procedureComplete" => events'[i].type \notin OfProcedures
             /\ type # "disconnected"
    BY <1>1, <1>2 DEF QueueInv
<1>5. UNCHANGED Last
    BY DEF Last
<1>6. \A i \in 1 .. Len(events') : events'[i].type \in OfProcedures => events'[i].of = Last /\ Last # None
    BY <1>1 DEF QueueInv
<1>7. \A i, j \in 1 .. Len(events') :
          i < j => /\ events'[i].type = "procedureComplete" => events'[j].type \notin OfProcedures
                   /\ events'[i].type # "disconnected"
    BY <1>1, <1>2 DEF QueueInv
<1>8. QueueInv'
    BY <1>5, <1>6, <1>7 DEF QueueInv
<1> QED BY <1>3, <1>4, <1>8 DEF Queued

(* What keeps the queue in order when an event is reported. *)
LEMMA AppendQueue ==
    ASSUME events \in Seq(Event), QueueInv, UNCHANGED kind,
           NEW one \in Event, events' = Append(events, one), ~Queued("disconnected"),
           one.type \in OfProcedures => one.of = Last /\ Last # None /\ ~Queued("procedureComplete")
    PROVE  QueueInv'
<1>1. /\ Len(events) \in Nat /\ Len(events') = Len(events) + 1
      /\ \A i \in 1 .. Len(events) : i \in 1 .. Len(events') /\ events'[i] = events[i]
      /\ events'[Len(events')] = one
      /\ \A i \in 1 .. Len(events') : i \in 1 .. Len(events) \/ i = Len(events')
    BY AppendIs
<1>2. UNCHANGED Last
    BY DEF Last
<1>3. \A i \in 1 .. Len(events') : events'[i].type \in OfProcedures => events'[i].of = Last /\ Last # None
    BY <1>1 DEF QueueInv
<1>4. ASSUME NEW i \in 1 .. Len(events'), NEW j \in 1 .. Len(events'), i < j
      PROVE  /\ events'[i].type = "procedureComplete" => events'[j].type \notin OfProcedures
             /\ events'[i].type # "disconnected"
  <2>1. i \in 1 .. Len(events) /\ events'[i] = events[i]
      BY <1>1, <1>4
  <2>2. CASE j \in 1 .. Len(events)
      BY <1>1, <1>4, <2>1, <2>2 DEF QueueInv
  <2>3. CASE j = Len(events')
      BY <1>1, <2>1, <2>3 DEF Queued
  <2> QED BY <1>1, <2>2, <2>3
<1> QED BY <1>2, <1>3, <1>4 DEF QueueInv

-----------------------------------------------------------------------------
(* What the steps are made of. *)

(* A callback is called with its outcome, and no other one is. *)
LEMMA CallBackIs ==
    ASSUME HistoryTypes, NEW procedure \in Number, NEW result \in Result, NEW of \in Number,
           NEW length \in Nat, CallBack(procedure, result, of, length)
    PROVE  /\ outcome' \in [Procedure -> Outcome \cup {NoOutcome}]
           /\ procedure # None => /\ outcome'[procedure].result = result
                                  /\ outcome'[procedure].of = of
                                  /\ outcome'[procedure].length = length
           /\ \A p \in Procedure : p # procedure => outcome'[p] = outcome[p]
<1> DEFINE called == [result |-> result, of |-> of, length |-> length]
<1>1. called \in Outcome /\ called.result = result /\ called.of = of /\ called.length = length
    BY DEF Outcome
<1> HIDE DEF called
<1>2. outcome' = IF procedure = None THEN outcome ELSE [outcome EXCEPT ![procedure] = called]
    BY DEF CallBack, called
<1>3. procedure # None => procedure \in Procedure
    BY DEF Number
<1> QED BY <1>1, <1>2, <1>3 DEF HistoryTypes

(* The vector takes the bytes it has room for, behind the ones it has. *)
LEMMA AccumulateIs ==
    ASSUME ClientTypes, NEW bytes \in Seq(Nat), Accumulate(bytes)
    PROVE  /\ value' \in Seq(Nat) /\ Len(value') <= Room /\ UNCHANGED reading
           /\ readLongOverflowed' \in BOOLEAN
           /\ ~reading => UNCHANGED <<value, readLongOverflowed>>
           /\ reading =>
                 /\ Kept(bytes) \in 0 .. Len(bytes)
                 /\ Len(value') = Len(value) + Kept(bytes)
                 /\ \A i \in 1 .. Len(value) : value'[i] = value[i]
                 /\ \A i \in 1 .. Len(value') :
                       \/ i \in 1 .. Len(value)
                       \/ i - Len(value) \in 1 .. Kept(bytes) /\ value'[i] = bytes[i - Len(value)]
                 /\ readLongOverflowed' <=> readLongOverflowed \/ TooMany(bytes)
<1>1. /\ value \in Seq(Nat) /\ Len(value) \in Nat /\ Len(value) <= Room /\ Room \in Nat
      /\ Len(bytes) \in Nat
    BY RoomAssumption, LenProperties DEF ClientTypes
<1>2. Kept(bytes) \in 0 .. Len(bytes) /\ Len(value) + Kept(bytes) <= Room
    BY <1>1 DEF Kept
<1>3. readLongOverflowed' <=> readLongOverflowed \/ (reading /\ TooMany(bytes))
    BY DEF Accumulate
<1>4. readLongOverflowed' \in BOOLEAN
    BY DEF Accumulate, ClientTypes
<1>5. CASE ~reading
    BY <1>1, <1>4, <1>5 DEF Accumulate, ClientTypes
<1>6. CASE reading
  <2>1. value' = value \o SubSeq(bytes, 1, Kept(bytes)) /\ UNCHANGED reading
      BY <1>6 DEF Accumulate
  <2>2. /\ SubSeq(bytes, 1, Kept(bytes)) \in Seq(Nat)
        /\ Len(SubSeq(bytes, 1, Kept(bytes))) = Kept(bytes)
        /\ \A i \in 1 .. Kept(bytes) : SubSeq(bytes, 1, Kept(bytes))[i] = bytes[i]
    <3> HIDE DEF Kept
    <3>1. \A i \in 1 .. Kept(bytes) : i \in 1 .. Len(bytes)
        BY <1>1, <1>2
    <3> QED BY <1>1, <1>2, <3>1
  <2> HIDE DEF Kept
  <2>3. /\ value' \in Seq(Nat) /\ Len(value') = Len(value) + Kept(bytes)
        /\ \A i \in 1 .. Len(value') :
              value'[i] = IF i <= Len(value) THEN value[i] ELSE SubSeq(bytes, 1,
              Kept(bytes))[i - Len(value)]
      BY <1>1, <1>2, <2>1, <2>2, ConcatProperties
  <2>4. /\ \A i \in 1 .. Len(value) : i \in 1 .. Len(value') /\ i <= Len(value)
        /\ \A i \in 1 .. Len(value') :
              \/ i \in 1 .. Len(value)
              \/ i - Len(value) \in 1 .. Kept(bytes) /\ ~(i <= Len(value))
      BY <1>1, <1>2, <2>3
  <2> QED BY <1>2, <1>3, <1>4, <1>6, <2>1, <2>2, <2>3, <2>4
<1> QED BY <1>5, <1>6

(* A procedure is accepted when nothing is left of the one before it. *)
LEMMA IssueIs ==
    ASSUME Types, StackInv, ClientInv, FreesWhenHandled,
           NEW k \in Operation, operation = "none", Issue(k)
    PROVE  /\ kind' \in Seq(Operation) /\ Last' = Last + 1 /\ Last \in Nat /\ Last' \in Procedure /\ Last' # None
           /\ kind'[Last'] = k /\ \A p \in 1 .. Last : kind'[p] = kind[p]
           /\ \A p \in 1 .. Last' : p \in 1 .. Last \/ p = Last'
           /\ current' = Last' /\ responses' = 0
           /\ UNCHANGED <<connected, maxAttMtu, toConfirm, linked, events, indicating,
                          ended, sent, outcome, misread>>
           /\ connected /\ linked /\ onReadDone = None /\ onOperationDone = None
           /\ ~reading /\ ~readLongOverflowed
           /\ \A type : Queued(type)' <=> Queued(type)
           /\ \A type \in OfProcedures : ~Queued(type)
           /\ ended[Last'] = "running" /\ sent[Last'] = 0 /\ outcome[Last'] = NoOutcome
<1>1. /\ kind' = Append(kind, k) /\ current' = Len(kind) + 1 /\ Len(kind) < MaxProcedures
      /\ responses' = 0 /\ connected /\ linked /\ current = None
      /\ UNCHANGED <<connected, maxAttMtu, toConfirm, linked, events, indicating,
                     ended, sent, outcome, misread>>
    BY DEF Issue, StackAccepts
<1>2. kind \in Seq(Operation) /\ MaxProcedures \in Nat
    BY MaxProceduresAssumption DEF Types, HistoryTypes
<1>3. /\ kind' \in Seq(Operation) /\ Len(kind) \in Nat /\ Len(kind') = Len(kind) + 1
      /\ kind'[Len(kind')] = k /\ \A p \in 1 .. Len(kind) : kind'[p] = kind[p]
    BY <1>1, <1>2, AppendProperties, LenProperties
<1>4. /\ Len(kind') \in Procedure /\ Len(kind') # None /\ Len(kind') > Len(kind)
      /\ \A p \in 1 .. Len(kind') : p \in 1 .. Len(kind) \/ p = Len(kind')
    BY <1>1, <1>2, <1>3 DEF Procedure, None
<1>5. ~Queued("procedureComplete")
    BY DEF Issue, StackAccepts, EventsOfType, Queued
<1>6. \A type \in OfProcedures : ~Queued(type)
    BY <1>1, <1>5 DEF StackInv
<1>7. onReadDone = None /\ onOperationDone = None /\ ~reading /\ ~readLongOverflowed
    BY DEF ClientInv, Reads
<1>8. ended[Last'] = "running" /\ sent[Last'] = 0 /\ outcome[Last'] = NoOutcome
    BY <1>4 DEF StackInv, Last
<1>9. \A type : Queued(type)' <=> Queued(type)
    BY <1>1 DEF Queued
<1> QED BY <1>1, <1>3, <1>4, <1>6, <1>7, <1>8, <1>9 DEF Last

(* One response: the MTU, some items, or a part of a value. *)
LEMMA RespondsIs ==
    ASSUME Types, StackInv, Responds
    PROVE  /\ linked /\ current # None /\ current = Last /\ Last \in Procedure
           /\ responses' = responses + 1 /\ responses \in Nat /\ responses' \in 0 .. MaxResponses
           /\ kind[Last] \in {"exchangeMtu", "read"} => responses = 0
           /\ ~Queued("procedureComplete") /\ ~Queued("disconnected")
           /\ UNCHANGED <<client, linked, current, indicating, kind, ended, outcome, misread>>
           /\ \E one \in Event :
                 /\ events' = Append(events, one) /\ one.of = Last
                 /\ one.type \in OfProcedures \ {"procedureComplete"}
                 /\ kind[Last] = "exchangeMtu" <=> one.type = "mtu"
                 /\ kind[Last] \in Discoveries <=> one.type = "items"
                 /\ one.type \in Responses =>
                       /\ one.type = "readResponse" <=> responses = 0
                       /\ sent' = [sent EXCEPT ![Last] = @ + Len(one.bytes)]
                       /\ \A k \in 1 .. Len(one.bytes) : one.bytes[k] = sent[Last] + k
                 /\ one.type \notin Responses => UNCHANGED sent
<1>1. /\ linked /\ current # None /\ current = Last /\ ~Queued("procedureComplete") /\ ~Queued("disconnected")
      /\ responses' = responses + 1 /\ kind[Last] \notin Writes
      /\ responses < IF kind[Last] \in {"exchangeMtu", "read"} THEN 1 ELSE MaxResponses
      /\ UNCHANGED <<client, linked, current, indicating, kind, ended, outcome, misread>>
    BY DEF Responds, StackInv
<1>2. Last \in Procedure
    BY <1>1 DEF Types, StackTypes, Number
<1>3. kind[Last] \in Operation
  <2>1. Last \in 1 .. Len(kind) /\ kind \in Seq(Operation)
      BY <1>2 DEF Last, Procedure, Types, HistoryTypes
  <2> QED BY <2>1, ElementOfSeq
<1>4. /\ responses \in Nat /\ responses' \in 0 .. MaxResponses
      /\ kind[Last] \in {"exchangeMtu", "read"} => responses = 0
    BY <1>1, MaxResponsesAssumption DEF Types, StackTypes
<1>5. sent[Last] \in Nat
    BY <1>2 DEF Types, HistoryTypes
<1>6. CASE kind[Last] = "exchangeMtu"
  <2> DEFINE one == EventOf("mtu", <<>>, "success")
  <2>1. events' = Append(events, one) /\ UNCHANGED sent
      BY <1>1, <1>6 DEF Responds, Queue, Discoveries, Reads
  <2>2. one \in Event /\ one.type = "mtu" /\ one.of = Last
      BY <1>1, <1>2 DEF EventOf, Event, Number
  <2> HIDE DEF one
  <2> QED BY <1>1, <1>2, <1>4, <1>6, <2>1, <2>2 DEF OfProcedures, Responses, Discoveries
<1>7. CASE kind[Last] \in Discoveries
  <2> DEFINE one == EventOf("items", <<>>, "success")
  <2>1. events' = Append(events, one) /\ UNCHANGED sent
      BY <1>1, <1>7 DEF Responds, Queue, Discoveries, Reads
  <2>2. one \in Event /\ one.type = "items" /\ one.of = Last
      BY <1>1, <1>2 DEF EventOf, Event, Number
  <2> HIDE DEF one
  <2> QED BY <1>1, <1>2, <1>4, <1>7, <2>1, <2>2 DEF OfProcedures, Responses, Discoveries
<1>8. CASE kind[Last] \in Reads
  <2>1. PICK n \in 0 .. PartSize :
          /\ Queue(IF responses = 0 THEN "readResponse" ELSE "readBlobResponse",
                   [i \in 1 .. n |-> sent[current] + i], "success")
          /\ sent' = [sent EXCEPT ![current] = @ + n]
      BY <1>1, <1>8 DEF Responds, Discoveries, Reads
  <2> DEFINE bytes == [i \in 1 .. n |-> sent[current] + i]
  <2> DEFINE one == EventOf(IF responses = 0 THEN "readResponse" ELSE "readBlobResponse", bytes,
      "success")
  <2>2. n \in Nat
      BY PartSizeAssumption
  <2>3. bytes \in Seq(Nat) /\ Len(bytes) = n /\ \A k \in 1 .. n : bytes[k] = sent[Last] + k
    <3>1. \A i \in 1 .. n : sent[current] + i \in Nat
        BY <1>1, <1>5, <2>2
    <3> QED BY <1>1, <2>2, <3>1
  <2> HIDE DEF bytes
  <2>4. one \in Event /\ one.of = Last /\ one.bytes = bytes
        /\ one.type = IF responses = 0 THEN "readResponse" ELSE "readBlobResponse"
      BY <1>1, <1>2, <2>3 DEF EventOf, Event, Number
  <2>5. events' = Append(events, one) /\ sent' = [sent EXCEPT ![Last] = @ + Len(one.bytes)]
      BY <1>1, <2>1, <2>3, <2>4 DEF Queue, bytes
  <2>6. \A k \in 1 .. Len(one.bytes) : one.bytes[k] = sent[Last] + k
      BY <2>3, <2>4
  <2> HIDE DEF one
  <2>7. /\ one.type \in Responses /\ one.type \in OfProcedures \ {"procedureComplete"}
        /\ one.type = "readResponse" <=> responses = 0
        /\ kind[Last] # "exchangeMtu" /\ kind[Last] \notin Discoveries
        /\ one.type # "mtu" /\ one.type # "items"
      BY <1>8, <2>4 DEF OfProcedures, Responses, Reads, Discoveries
  <2> QED BY <1>1, <1>2, <1>4, <2>4, <2>5, <2>6, <2>7
<1> QED BY <1>1, <1>3, <1>6, <1>7, <1>8 DEF Operation

(* The end of a procedure. *)
LEMMA EndsIs ==
    ASSUME Types, StackInv, NEW result \in {"success", "error"}, Ends(result)
    PROVE  /\ linked /\ current # None /\ current = Last /\ Last \in Procedure
           /\ current' = None /\ ended' = [ended EXCEPT ![Last] = result]
           /\ result = "success" /\ kind[Last] \in Reads \cup {"exchangeMtu"} => responses > 0
           /\ result = "error" /\ kind[Last] = "read" => responses = 0
           /\ ~Queued("procedureComplete") /\ ~Queued("disconnected")
           /\ UNCHANGED <<client, linked, responses, indicating, kind, sent, outcome, misread>>
           /\ \E one \in Event : /\ events' = Append(events, one) /\ one.of = Last
                                 /\ one.type = "procedureComplete" /\ one.result = result
<1>1. /\ linked /\ current # None /\ current = Last /\ ~Queued("procedureComplete") /\ ~Queued("disconnected")
      /\ current' = None /\ ended' = [ended EXCEPT ![Last] = result]
      /\ result = "success" /\ kind[Last] \in Reads \cup {"exchangeMtu"} => responses > 0
      /\ result = "error" /\ kind[Last] = "read" => responses = 0
      /\ UNCHANGED <<client, linked, responses, indicating, kind, sent, outcome, misread>>
      /\ events' = Append(events, EventOf("procedureComplete", <<>>, result))
    BY DEF Ends, StackInv, Queue
<1>2. Last \in Procedure
    BY <1>1 DEF Types, StackTypes, Number
<1> DEFINE one == EventOf("procedureComplete", <<>>, result)
<1>3. one \in Event /\ one.of = Last /\ one.type = "procedureComplete" /\ one.result = result
    BY <1>1, <1>2 DEF EventOf, Event, Number
<1> HIDE DEF one
<1>4. events' = Append(events, one)
    BY <1>1 DEF one
<1> QED BY <1>1, <1>2, <1>3, <1>4

(* An indication and the end of the link come from no procedure. *)
LEMMA NoticeIs ==
    ASSUME Types, StackInv, Indicates \/ Disconnects
    PROVE  /\ linked /\ ~Queued("disconnected") /\ UNCHANGED <<client, responses, history>>
           /\ Indicates => UNCHANGED <<linked, current>>
           /\ Disconnects => linked' = FALSE /\ current' = None
           /\ indicating' \in BOOLEAN
           /\ \E one \in Event : /\ events' = Append(events, one)
                                 /\ one.type = "indication" \/ (Disconnects /\ one.type = "disconnected")
<1> DEFINE notice(type) == [type |-> type, of |-> None, bytes |-> <<>>, result |-> "success"]
<1>1. \A type \in {"indication",
      "disconnected"} : notice(type) \in Event /\ notice(type).type = type
    BY DEF Event, Number
<1>2. linked /\ ~Queued("disconnected") /\ UNCHANGED <<client, responses, history>>
    BY DEF Indicates, Disconnects, StackInv
<1> HIDE DEF notice
<1>3. CASE Indicates
  <2>1. events' = Append(events, notice("indication")) /\ UNCHANGED <<linked,
        current>> /\ indicating' = TRUE
      BY <1>3 DEF Indicates, notice
  <2>2. ~Disconnects
      BY <1>2, <2>1 DEF Disconnects
  <2> QED BY <1>1, <1>2, <2>1, <2>2
<1>4. CASE Disconnects
  <2>1. events' = Append(events,
        notice("disconnected")) /\ linked' = FALSE /\ current' = None /\ indicating' = FALSE
      BY <1>4 DEF Disconnects, notice
  <2>2. ~Indicates
      BY <1>2, <2>1 DEF Indicates
  <2> QED BY <1>1, <1>2, <1>4, <2>1, <2>2
<1> QED BY <1>3, <1>4

-----------------------------------------------------------------------------
(* The inductive invariant. *)

(* Every step keeps the types. *)
LEMMA TypesStep ==
    ASSUME Types, [Next]_vars
    PROVE  Types'
<1>1. ASSUME NEW operationKind \in Operation \ Reads, Start(operationKind)
      PROVE  Types'
  <2>1. /\ operation = "none" /\ Issue(operationKind) /\ operation' = operationKind
        /\ onOperationDone' = current' /\ UNCHANGED <<onReadDone, readLong>>
      BY <1>1 DEF Start
  <2>2. operationKind \in Operation
      BY DEF Operation, Reads
  <2>3. /\ kind' = Append(kind, operationKind) /\ Len(kind) < MaxProcedures
        /\ current' = Len(kind) + 1 /\ responses' = 0
        /\ UNCHANGED <<connected, maxAttMtu, toConfirm, linked, events, indicating,
                       ended, sent, outcome, misread>>
      BY <2>1 DEF Issue
  <2>4. kind' \in Seq(Operation) /\ Len(kind') = Len(kind) + 1 /\ Len(kind) \in Nat
      BY <2>2, <2>3, AppendProperties, LenProperties
         DEF Types, ClientTypes, StackTypes, HistoryTypes
  <2>5. current' \in Number /\ Len(kind') <= MaxProcedures /\ 0 \in 0 .. MaxResponses
      BY <2>3, <2>4, MaxProceduresAssumption, MaxResponsesAssumption DEF Number, Procedure
  <2>6. ClientTypes'
      BY <2>1, <2>2, <2>3, <2>5 DEF Types, ClientTypes, StackTypes, HistoryTypes, readLong
  <2>7. StackTypes' /\ HistoryTypes' /\ events' \in Seq(Event)
      BY <2>3, <2>4, <2>5 DEF Types, ClientTypes, StackTypes, HistoryTypes
  <2> QED BY <2>6, <2>7 DEF Types
<1>2. CASE Read
  <2>1. /\ operation = "none" /\ Issue("read") /\ operation' = "read"
        /\ onReadDone' = current' /\ UNCHANGED <<onOperationDone, readLong>>
      BY <1>2 DEF Read
  <2>2. "read" \in Operation
      BY DEF Operation, Reads
  <2>3. /\ kind' = Append(kind, "read") /\ Len(kind) < MaxProcedures
        /\ current' = Len(kind) + 1 /\ responses' = 0
        /\ UNCHANGED <<connected, maxAttMtu, toConfirm, linked, events, indicating,
                       ended, sent, outcome, misread>>
      BY <2>1 DEF Issue
  <2>4. kind' \in Seq(Operation) /\ Len(kind') = Len(kind) + 1 /\ Len(kind) \in Nat
      BY <2>2, <2>3, AppendProperties, LenProperties
         DEF Types, ClientTypes, StackTypes, HistoryTypes
  <2>5. current' \in Number /\ Len(kind') <= MaxProcedures /\ 0 \in 0 .. MaxResponses
      BY <2>3, <2>4, MaxProceduresAssumption, MaxResponsesAssumption DEF Number, Procedure
  <2>6. ClientTypes'
      BY <2>1, <2>2, <2>3, <2>5 DEF Types, ClientTypes, StackTypes, HistoryTypes, readLong
  <2>7. StackTypes' /\ HistoryTypes' /\ events' \in Seq(Event)
      BY <2>3, <2>4, <2>5 DEF Types, ClientTypes, StackTypes, HistoryTypes
  <2> QED BY <2>6, <2>7 DEF Types
<1>3. CASE ReadLong
  <2>1. /\ operation = "none" /\ Issue("readLong") /\ operation' = "readLong"
        /\ onReadDone' = current' /\ UNCHANGED onOperationDone
        /\ value' = <<>> /\ reading' = TRUE /\ readLongOverflowed' = FALSE
      BY <1>3 DEF ReadLong
  <2>2. "readLong" \in Operation
      BY DEF Operation, Reads
  <2>3. /\ kind' = Append(kind, "readLong") /\ Len(kind) < MaxProcedures
        /\ current' = Len(kind) + 1 /\ responses' = 0
        /\ UNCHANGED <<connected, maxAttMtu, toConfirm, linked, events, indicating,
                       ended, sent, outcome, misread>>
      BY <2>1 DEF Issue
  <2>4. kind' \in Seq(Operation) /\ Len(kind') = Len(kind) + 1 /\ Len(kind) \in Nat
      BY <2>2, <2>3, AppendProperties, LenProperties
         DEF Types, ClientTypes, StackTypes, HistoryTypes
  <2>5. current' \in Number /\ Len(kind') <= MaxProcedures /\ 0 \in 0 .. MaxResponses
      BY <2>3, <2>4, MaxProceduresAssumption, MaxResponsesAssumption DEF Number, Procedure
  <2>0. <<>> \in Seq(Nat) /\ Len(<<>>) = 0 /\ 0 <= Room
      BY RoomAssumption, EmptySeq
  <2>6. ClientTypes'
      BY <2>0, <2>1, <2>2, <2>3, <2>5 DEF Types, ClientTypes, StackTypes, HistoryTypes, readLong
  <2>7. StackTypes' /\ HistoryTypes' /\ events' \in Seq(Event)
      BY <2>3, <2>4, <2>5 DEF Types, ClientTypes, StackTypes, HistoryTypes
  <2> QED BY <2>6, <2>7 DEF Types
<1>4. CASE ConfirmIndication
  <2>1. toConfirm' = 0 /\ indicating' \in BOOLEAN
      BY <1>4 DEF ConfirmIndication, Types, ClientTypes, StackTypes, HistoryTypes
  <2> QED BY <2>1, <1>4
             DEF ConfirmIndication, callbacks, readLong, history, Types, ClientTypes, StackTypes,
                 HistoryTypes
<1>5. CASE MtuExchanged
  <2>1. Handle("mtu")
      BY <1>5 DEF MtuExchanged
  <2>2. /\ events' \in Seq(Event)
        /\ Head(events).of \in Number /\ Head(events).bytes \in Seq(Nat)
        /\ Head(events).result \in {"success", "error"}
      BY <2>1, HandleIs DEF Types, Event
  <2>3. StackTypes'
      BY <2>1 DEF Handle, Types, ClientTypes, StackTypes, HistoryTypes
  <2>4. ClientTypes' /\ HistoryTypes'
      BY <2>2, <1>5
         DEF MtuExchanged, callbacks, readLong, history, Types, ClientTypes, StackTypes,
             HistoryTypes
  <2> QED BY <2>2, <2>3, <2>4 DEF Types
<1>6. CASE Discovered
  <2>1. Handle("items")
      BY <1>6 DEF Discovered
  <2>2. /\ events' \in Seq(Event)
        /\ Head(events).of \in Number /\ Head(events).bytes \in Seq(Nat)
        /\ Head(events).result \in {"success", "error"}
      BY <2>1, HandleIs DEF Types, Event
  <2>3. StackTypes'
      BY <2>1 DEF Handle, Types, ClientTypes, StackTypes, HistoryTypes
  <2>4. misread' \in BOOLEAN
      BY <1>6 DEF Discovered, Types, ClientTypes, StackTypes, HistoryTypes
  <2>5. ClientTypes' /\ HistoryTypes'
      BY <2>4, <1>6 DEF Discovered, client, Types, ClientTypes, StackTypes, HistoryTypes
  <2> QED BY <2>2, <2>3, <2>5 DEF Types
<1>7. CASE ReadResponse
  <2>1. Handle("readResponse")
      BY <1>7 DEF ReadResponse
  <2>2. /\ events' \in Seq(Event)
        /\ Head(events).of \in Number /\ Head(events).bytes \in Seq(Nat)
        /\ Head(events).result \in {"success", "error"}
      BY <2>1, HandleIs DEF Types, Event
  <2>3. StackTypes'
      BY <2>1 DEF Handle, Types, ClientTypes, StackTypes, HistoryTypes
  <2>4. /\ value' \in Seq(Nat) /\ Len(value') <= Room
        /\ reading' \in BOOLEAN /\ readLongOverflowed' \in BOOLEAN
    <3>1. Accumulate(Head(events).bytes) \/ UNCHANGED readLong
        BY <1>7 DEF ReadResponse
    <3> QED BY <2>2, <3>1, AccumulateIs DEF readLong, Types, ClientTypes
  <2>5. outcome' \in [Procedure -> Outcome \cup {NoOutcome}]
    <3>1. Len(Head(events).bytes) \in Nat /\ "success" \in Result
        BY <2>2, LenProperties DEF Result
    <3>2. CallBack(onReadDone, "success", Head(events).of,
          Len(Head(events).bytes)) \/ UNCHANGED outcome
        BY <1>7 DEF ReadResponse
    <3> QED BY <2>2, <3>1, <3>2, CallBackIs DEF Types, ClientTypes, StackTypes, HistoryTypes
  <2>6. ClientTypes'
      BY <2>4, <1>7 DEF ReadResponse, Number, Types, ClientTypes, StackTypes, HistoryTypes
  <2>7. HistoryTypes'
      BY <2>5, <1>7 DEF ReadResponse, Types, ClientTypes, StackTypes, HistoryTypes
  <2> QED BY <2>2, <2>3, <2>6, <2>7 DEF Types
<1>8. CASE ReadBlobResponse
  <2>1. Handle("readBlobResponse")
      BY <1>8 DEF ReadBlobResponse
  <2>2. /\ events' \in Seq(Event)
        /\ Head(events).of \in Number /\ Head(events).bytes \in Seq(Nat)
        /\ Head(events).result \in {"success", "error"}
      BY <2>1, HandleIs DEF Types, Event
  <2>3. StackTypes'
      BY <2>1 DEF Handle, Types, ClientTypes, StackTypes, HistoryTypes
  <2>4. /\ value' \in Seq(Nat) /\ Len(value') <= Room
        /\ reading' \in BOOLEAN /\ readLongOverflowed' \in BOOLEAN
    <3>1. Accumulate(Head(events).bytes) \/ UNCHANGED readLong
        BY <1>8 DEF ReadBlobResponse
    <3> QED BY <2>2, <3>1, AccumulateIs DEF readLong, Types, ClientTypes
  <2>5. ClientTypes' /\ HistoryTypes'
      BY <2>4, <1>8
         DEF ReadBlobResponse, callbacks, history, Types, ClientTypes, StackTypes, HistoryTypes
  <2> QED BY <2>2, <2>3, <2>5 DEF Types
<1>9. CASE ProcedureComplete
  <2>1. Handle("procedureComplete")
      BY <1>9 DEF ProcedureComplete
  <2>2. /\ events' \in Seq(Event)
        /\ Head(events).of \in Number /\ Head(events).bytes \in Seq(Nat)
        /\ Head(events).result \in {"success", "error"}
      BY <2>1, HandleIs DEF Types, Event
  <2>3. StackTypes'
      BY <2>1 DEF Handle, Types, ClientTypes, StackTypes, HistoryTypes
  <2>4. outcome' \in [Procedure -> Outcome \cup {NoOutcome}]
    <3>1. CASE operation = "readLong"
      <4>1. PICK result \in Result, of \in Number, length \in Nat : CallBack(onReadDone, result,
            of, length)
        <5>1. /\ (IF readLongOverflowed /\ Head(events).result = "success"
                  THEN "insufficientResources" ELSE Head(events).result) \in Result
              /\ (IF reading THEN onReadDone ELSE None) \in Number
              /\ (IF reading THEN Len(value) ELSE 0) \in Nat
            BY <2>2, LenProperties DEF Result, Number, Types, ClientTypes, StackTypes, HistoryTypes
        <5> QED BY <3>1, <5>1, <1>9 DEF ProcedureComplete
      <4> QED BY <4>1, CallBackIs DEF Types, ClientTypes, StackTypes, HistoryTypes
    <3>2. CASE operation # "readLong"
      <4>1. PICK procedure \in Number : CallBack(procedure, Head(events).result, None, 0)
        <5>1. (IF operation = "read" THEN onReadDone ELSE onOperationDone) \in Number
            BY DEF Types, ClientTypes, StackTypes, HistoryTypes
        <5> QED BY <3>2, <5>1, <1>9 DEF ProcedureComplete
      <4>2. Head(events).result \in Result /\ None \in Number /\ 0 \in Nat
          BY <2>2 DEF Result, Number
      <4> QED BY <4>1, <4>2, CallBackIs DEF Types
    <3> QED BY <3>1, <3>2
  <2>5. reading' \in BOOLEAN /\ readLongOverflowed' \in BOOLEAN /\ onReadDone' \in Number /\ onOperationDone' \in Number
      BY <1>9 DEF ProcedureComplete, Number, Types, ClientTypes, StackTypes, HistoryTypes
  <2>6. ClientTypes'
      BY <2>5, <1>9 DEF ProcedureComplete, Types, ClientTypes, StackTypes, HistoryTypes
  <2>7. HistoryTypes'
      BY <2>4, <1>9 DEF ProcedureComplete, Types, ClientTypes, StackTypes, HistoryTypes
  <2> QED BY <2>2, <2>3, <2>6, <2>7 DEF Types
<1>10. CASE IndicationReceived
  <2>1. Handle("indication")
      BY <1>10 DEF IndicationReceived
  <2>2. /\ events' \in Seq(Event)
        /\ Head(events).of \in Number /\ Head(events).bytes \in Seq(Nat)
        /\ Head(events).result \in {"success", "error"}
      BY <2>1, HandleIs DEF Types, Event
  <2>3. StackTypes'
      BY <2>1 DEF Handle, Types, ClientTypes, StackTypes, HistoryTypes
  <2>4. ClientTypes' /\ HistoryTypes'
      BY <2>2, <1>10
         DEF IndicationReceived, Observers, callbacks, readLong, history, Types, ClientTypes,
             StackTypes, HistoryTypes
  <2> QED BY <2>2, <2>3, <2>4 DEF Types
<1>11. CASE Released
  <2>1. Handle("disconnected")
      BY <1>11 DEF Released
  <2>2. /\ events' \in Seq(Event)
        /\ Head(events).of \in Number /\ Head(events).bytes \in Seq(Nat)
        /\ Head(events).result \in {"success", "error"}
      BY <2>1, HandleIs DEF Types, Event
  <2>3. StackTypes'
      BY <2>1 DEF Handle, Types, ClientTypes, StackTypes, HistoryTypes
  <2>4. outcome' \in [Procedure -> Outcome \cup {NoOutcome}]
    <3>1. PICK procedure \in Number : CallBack(procedure, "disconnected", None, 0)
        BY <1>11 DEF Released, Types, ClientTypes, StackTypes, HistoryTypes
    <3>2. "disconnected" \in Result /\ None \in Number /\ 0 \in Nat
        BY DEF Result, Number
    <3> QED BY <3>1, <3>2, CallBackIs DEF Types
  <2>5. ClientTypes'
      BY <1>11 DEF Released, Number, Types, ClientTypes, StackTypes, HistoryTypes
  <2>6. HistoryTypes'
      BY <2>4, <1>11 DEF Released, Types, ClientTypes, StackTypes, HistoryTypes
  <2> QED BY <2>2, <2>3, <2>5, <2>6 DEF Types
<1>12. CASE Responds
  <2>1. /\ responses' \in 0 .. MaxResponses
        /\ UNCHANGED <<client, linked, current, indicating, kind, ended, outcome, misread>>
    <3>1. responses \in Nat /\ responses' = responses + 1 /\ responses < MaxResponses
        BY <1>12, MaxResponsesAssumption DEF Responds, Types, ClientTypes, StackTypes, HistoryTypes
    <3> QED BY <3>1, <1>12, MaxResponsesAssumption DEF Responds
  <2>2. current \in Procedure
      BY <1>12 DEF Responds, Number, Types, ClientTypes, StackTypes, HistoryTypes
  <2>3. PICK n \in Nat, one \in Event :
          events' = Append(events,
          one) /\ (sent' = [sent EXCEPT ![current] = @ + n] \/ UNCHANGED sent)
    <3>1. CASE \E type \in {"mtu", "items"} : Queue(type, <<>>, "success") /\ UNCHANGED sent
      <4>1. PICK type \in {"mtu", "items"} : Queue(type, <<>>, "success") /\ UNCHANGED sent
          BY <3>1
      <4>2. EventOf(type, <<>>, "success") \in Event
          BY DEF EventOf, Event, Types, ClientTypes, StackTypes, HistoryTypes
      <4> QED BY <4>1, <4>2 DEF Queue
    <3>2. ASSUME NEW n \in 0 .. PartSize,
                 Queue(IF responses = 0 THEN "readResponse" ELSE "readBlobResponse",
                       [i \in 1 .. n |-> sent[current] + i], "success"),
                 sent' = [sent EXCEPT ![current] = @ + n]
          PROVE  \E m \in Nat, one \in Event :
                    events' = Append(events, one) /\ sent' = [sent EXCEPT ![current] = @ + m]
      <4>1. n \in Nat /\ sent[current] \in Nat
          BY <2>2, PartSizeAssumption DEF Types, ClientTypes, StackTypes, HistoryTypes
      <4>2. [i \in 1 .. n |-> sent[current] + i] \in Seq(Nat)
        <5>1. \A i \in 1 .. n : sent[current] + i \in Nat
            BY <4>1
        <5> QED BY <4>1, <5>1
      <4>3. EventOf(IF responses = 0 THEN "readResponse" ELSE "readBlobResponse",
                    [i \in 1 .. n |-> sent[current] + i], "success") \in Event
          BY <4>2 DEF EventOf, Event, Types, ClientTypes, StackTypes, HistoryTypes
      <4> QED BY <3>2, <4>1, <4>3 DEF Queue
    <3> QED BY <1>12, <3>1, <3>2 DEF Responds
  <2>4. events' \in Seq(Event) /\ sent' \in [Procedure -> Nat]
      BY <2>2, <2>3, AppendProperties DEF Types, ClientTypes, StackTypes, HistoryTypes
  <2> QED BY <2>1, <2>4 DEF client, Types, ClientTypes, StackTypes, HistoryTypes
<1>13. ASSUME NEW result \in {"success", "error"}, Ends(result)
      PROVE  Types'
  <2>1. EventOf("procedureComplete", <<>>, result) \in Event
      BY DEF EventOf, Event, Types, ClientTypes, StackTypes, HistoryTypes
  <2>2. events' \in Seq(Event) /\ ended' \in [Procedure -> {"running", "success", "error"}]
      BY <2>1, <1>13, AppendProperties DEF Ends, Queue, Types, ClientTypes, StackTypes, HistoryTypes
  <2> QED BY <2>2, <1>13 DEF Ends, client, Number, Types, ClientTypes, StackTypes, HistoryTypes
<1>14. CASE Indicates
  <2>1. [type |-> "indication", of |-> None, bytes |-> <<>>, result |-> "success"] \in Event
      BY DEF Event, Number
  <2>2. events' \in Seq(Event)
      BY <2>1, <1>14, AppendProperties DEF Indicates, Types
  <2> QED BY <2>2, <1>14
             DEF Indicates, client, history, Number, Types, ClientTypes, StackTypes, HistoryTypes
<1>15. CASE Disconnects
  <2>1. [type |-> "disconnected", of |-> None, bytes |-> <<>>, result |-> "success"] \in Event
      BY DEF Event, Number
  <2>2. events' \in Seq(Event)
      BY <2>1, <1>15, AppendProperties DEF Disconnects, Types
  <2> QED BY <2>2, <1>15
             DEF Disconnects, client, history, Number, Types, ClientTypes, StackTypes, HistoryTypes
<1>16. CASE UNCHANGED vars
    BY <1>16 DEF vars, client, stack, history, Types, ClientTypes, StackTypes, HistoryTypes
<1> QED BY <1>1, <1>2, <1>3, <1>4, <1>5, <1>6, <1>7, <1>8, <1>9, <1>10, <1>11, <1>12, <1>13, <1>14,
           <1>15, <1>16 DEF Next, Dispatch, StackEnds

(* Every step keeps the queue of events in order. *)
LEMMA QueueStep ==
    ASSUME Inv, FreesWhenHandled, [Next]_vars
    PROVE  QueueInv'
<1>1. /\ Types /\ QueueInv /\ StackInv /\ ClientInv /\ AnswerInv
      /\ ReadLongInv /\ ValueInv /\ OutcomeInv /\ ReadAsAsked
    BY DEF Inv
<1>2. ASSUME NEW operationKind \in Operation \ Reads, Start(operationKind)
      PROVE  QueueInv'
  <2>0. /\ operation = "none" /\ Issue(operationKind) /\ operation' = operationKind
        /\ onOperationDone' = current' /\ UNCHANGED <<onReadDone, readLong>>
      BY <1>2 DEF Start
  <2>1. operationKind \in Operation
      BY DEF Operation, Reads
  <2>2. /\ kind' \in Seq(Operation) /\ Last' = Last + 1 /\ Last \in Nat /\ Last' \in Procedure /\ Last' # None
        /\ kind'[Last'] = operationKind /\ \A p \in 1 .. Last : kind'[p] = kind[p]
        /\ \A p \in 1 .. Last' : p \in 1 .. Last \/ p = Last'
        /\ current' = Last' /\ responses' = 0
        /\ UNCHANGED <<connected, maxAttMtu, toConfirm, linked, events, indicating,
                       ended, sent, outcome, misread>>
        /\ connected /\ linked /\ onReadDone = None /\ onOperationDone = None
        /\ ~reading /\ ~readLongOverflowed
        /\ \A type : Queued(type)' <=> Queued(type)
        /\ \A type \in OfProcedures : ~Queued(type)
        /\ ended[Last'] = "running" /\ sent[Last'] = 0 /\ outcome[Last'] = NoOutcome
      BY <1>1, <2>0, <2>1, IssueIs
  <2> QED BY <1>1, <2>2 DEF QueueInv, Queued
<1>3. CASE Read
  <2>0. /\ operation = "none" /\ Issue("read") /\ operation' = "read"
        /\ onReadDone' = current' /\ UNCHANGED <<onOperationDone, readLong>>
      BY <1>3 DEF Read
  <2>1. "read" \in Operation
      BY DEF Operation, Reads
  <2>2. /\ kind' \in Seq(Operation) /\ Last' = Last + 1 /\ Last \in Nat /\ Last' \in Procedure /\ Last' # None
        /\ kind'[Last'] = "read" /\ \A p \in 1 .. Last : kind'[p] = kind[p]
        /\ \A p \in 1 .. Last' : p \in 1 .. Last \/ p = Last'
        /\ current' = Last' /\ responses' = 0
        /\ UNCHANGED <<connected, maxAttMtu, toConfirm, linked, events, indicating,
                       ended, sent, outcome, misread>>
        /\ connected /\ linked /\ onReadDone = None /\ onOperationDone = None
        /\ ~reading /\ ~readLongOverflowed
        /\ \A type : Queued(type)' <=> Queued(type)
        /\ \A type \in OfProcedures : ~Queued(type)
        /\ ended[Last'] = "running" /\ sent[Last'] = 0 /\ outcome[Last'] = NoOutcome
      BY <1>1, <2>0, <2>1, IssueIs
  <2> QED BY <1>1, <2>2 DEF QueueInv, Queued
<1>4. CASE ReadLong
  <2>0. /\ operation = "none" /\ Issue("readLong") /\ operation' = "readLong"
        /\ onReadDone' = current' /\ UNCHANGED onOperationDone
        /\ value' = <<>> /\ reading' = TRUE /\ readLongOverflowed' = FALSE
      BY <1>4 DEF ReadLong
  <2>1. "readLong" \in Operation
      BY DEF Operation, Reads
  <2>2. /\ kind' \in Seq(Operation) /\ Last' = Last + 1 /\ Last \in Nat /\ Last' \in Procedure /\ Last' # None
        /\ kind'[Last'] = "readLong" /\ \A p \in 1 .. Last : kind'[p] = kind[p]
        /\ \A p \in 1 .. Last' : p \in 1 .. Last \/ p = Last'
        /\ current' = Last' /\ responses' = 0
        /\ UNCHANGED <<connected, maxAttMtu, toConfirm, linked, events, indicating,
                       ended, sent, outcome, misread>>
        /\ connected /\ linked /\ onReadDone = None /\ onOperationDone = None
        /\ ~reading /\ ~readLongOverflowed
        /\ \A type : Queued(type)' <=> Queued(type)
        /\ \A type \in OfProcedures : ~Queued(type)
        /\ ended[Last'] = "running" /\ sent[Last'] = 0 /\ outcome[Last'] = NoOutcome
      BY <1>1, <2>0, <2>1, IssueIs
  <2> QED BY <1>1, <2>2 DEF QueueInv, Queued
<1>5. CASE ConfirmIndication
  <2>1. UNCHANGED <<connected, operation, callbacks, readLong, maxAttMtu,
                    linked, events, current, responses, history>>
      BY <1>5 DEF ConfirmIndication
  <2>2. \A type : Queued(type)' <=> Queued(type)
      BY <2>1 DEF Queued
  <2>4. UNCHANGED Last
      BY <2>1 DEF Last, history
  <2> QED BY <1>1, <2>1, <2>4 DEF QueueInv
<1>6. CASE MtuExchanged
  <2>1. Handle("mtu") /\ events \in Seq(Event) /\ UNCHANGED kind
      BY <1>1, <1>6 DEF MtuExchanged, history, Types
  <2>2. /\ Head(events) \in Event /\ Len(events) \in Nat /\ 1 \in 1 .. Len(events)
        /\ Len(events') = Len(events) - 1 /\ Head(events) = events[1] /\ events[1].type = "mtu"
        /\ \A i \in 1 .. Len(events') : i + 1 \in 1 .. Len(events) /\ events'[i] = events[i + 1]
        /\ \A one : Queued(one) <=> one = "mtu" \/ Queued(one)'
      BY <2>1, HandleIs
  <2>3. /\ QueueInv'
        /\ "mtu" \in OfProcedures => Head(events).of = Last /\ Last # None
        /\ "mtu" = "procedureComplete" => \A one \in OfProcedures : ~Queued(one)'
        /\ "mtu" = "disconnected" => \A one : ~Queued(one)'
      BY <1>1, <2>1, HandleQueue
  <2>4. UNCHANGED Last /\ UNCHANGED <<linked, current, responses>>
      BY <2>1 DEF Handle, Last
  <2> QED BY <2>3
<1>7. CASE Discovered
  <2>1. Handle("items") /\ events \in Seq(Event) /\ UNCHANGED kind
      BY <1>1, <1>7 DEF Discovered, history, Types
  <2>2. /\ Head(events) \in Event /\ Len(events) \in Nat /\ 1 \in 1 .. Len(events)
        /\ Len(events') = Len(events) - 1 /\ Head(events) = events[1] /\ events[1].type = "items"
        /\ \A i \in 1 .. Len(events') : i + 1 \in 1 .. Len(events) /\ events'[i] = events[i + 1]
        /\ \A one : Queued(one) <=> one = "items" \/ Queued(one)'
      BY <2>1, HandleIs
  <2>3. /\ QueueInv'
        /\ "items" \in OfProcedures => Head(events).of = Last /\ Last # None
        /\ "items" = "procedureComplete" => \A one \in OfProcedures : ~Queued(one)'
        /\ "items" = "disconnected" => \A one : ~Queued(one)'
      BY <1>1, <2>1, HandleQueue
  <2>4. UNCHANGED Last /\ UNCHANGED <<linked, current, responses>>
      BY <2>1 DEF Handle, Last
  <2> QED BY <2>3
<1>8. CASE ReadResponse
  <2>1. Handle("readResponse") /\ events \in Seq(Event) /\ UNCHANGED kind
      BY <1>1, <1>8 DEF ReadResponse, history, Types
  <2>2. /\ Head(events) \in Event /\ Len(events) \in Nat /\ 1 \in 1 .. Len(events)
        /\ Len(events') = Len(events) - 1 /\ Head(events) = events[1] /\ events[1].type = "readResponse"
        /\ \A i \in 1 .. Len(events') : i + 1 \in 1 .. Len(events) /\ events'[i] = events[i + 1]
        /\ \A one : Queued(one) <=> one = "readResponse" \/ Queued(one)'
      BY <2>1, HandleIs
  <2>3. /\ QueueInv'
        /\ "readResponse" \in OfProcedures => Head(events).of = Last /\ Last # None
        /\ "readResponse" = "procedureComplete" => \A one \in OfProcedures : ~Queued(one)'
        /\ "readResponse" = "disconnected" => \A one : ~Queued(one)'
      BY <1>1, <2>1, HandleQueue
  <2>4. UNCHANGED Last /\ UNCHANGED <<linked, current, responses>>
      BY <2>1 DEF Handle, Last
  <2> QED BY <2>3
<1>9. CASE ReadBlobResponse
  <2>1. Handle("readBlobResponse") /\ events \in Seq(Event) /\ UNCHANGED kind
      BY <1>1, <1>9 DEF ReadBlobResponse, history, Types
  <2>2. /\ Head(events) \in Event /\ Len(events) \in Nat /\ 1 \in 1 .. Len(events)
        /\ Len(events') = Len(events) - 1 /\ Head(events) = events[1] /\ events[1].type = "readBlobResponse"
        /\ \A i \in 1 .. Len(events') : i + 1 \in 1 .. Len(events) /\ events'[i] = events[i + 1]
        /\ \A one : Queued(one) <=> one = "readBlobResponse" \/ Queued(one)'
      BY <2>1, HandleIs
  <2>3. /\ QueueInv'
        /\ "readBlobResponse" \in OfProcedures => Head(events).of = Last /\ Last # None
        /\ "readBlobResponse" = "procedureComplete" => \A one \in OfProcedures : ~Queued(one)'
        /\ "readBlobResponse" = "disconnected" => \A one : ~Queued(one)'
      BY <1>1, <2>1, HandleQueue
  <2>4. UNCHANGED Last /\ UNCHANGED <<linked, current, responses>>
      BY <2>1 DEF Handle, Last
  <2> QED BY <2>3
<1>10. CASE ProcedureComplete
  <2>1. Handle("procedureComplete") /\ events \in Seq(Event) /\ UNCHANGED kind
      BY <1>1, <1>10 DEF ProcedureComplete, history, Types
  <2>2. /\ Head(events) \in Event /\ Len(events) \in Nat /\ 1 \in 1 .. Len(events)
        /\ Len(events') = Len(events) - 1 /\ Head(events) = events[1] /\ events[1].type = "procedureComplete"
        /\ \A i \in 1 .. Len(events') : i + 1 \in 1 .. Len(events) /\ events'[i] = events[i + 1]
        /\ \A one : Queued(one) <=> one = "procedureComplete" \/ Queued(one)'
      BY <2>1, HandleIs
  <2>3. /\ QueueInv'
        /\ "procedureComplete" \in OfProcedures => Head(events).of = Last /\ Last # None
        /\ "procedureComplete" = "procedureComplete" => \A one \in OfProcedures : ~Queued(one)'
        /\ "procedureComplete" = "disconnected" => \A one : ~Queued(one)'
      BY <1>1, <2>1, HandleQueue
  <2>4. UNCHANGED Last /\ UNCHANGED <<linked, current, responses>>
      BY <2>1 DEF Handle, Last
  <2> QED BY <2>3
<1>11. CASE IndicationReceived
  <2>1. Handle("indication") /\ events \in Seq(Event) /\ UNCHANGED kind
      BY <1>1, <1>11 DEF IndicationReceived, history, Types
  <2>2. /\ Head(events) \in Event /\ Len(events) \in Nat /\ 1 \in 1 .. Len(events)
        /\ Len(events') = Len(events) - 1 /\ Head(events) = events[1] /\ events[1].type = "indication"
        /\ \A i \in 1 .. Len(events') : i + 1 \in 1 .. Len(events) /\ events'[i] = events[i + 1]
        /\ \A one : Queued(one) <=> one = "indication" \/ Queued(one)'
      BY <2>1, HandleIs
  <2>3. /\ QueueInv'
        /\ "indication" \in OfProcedures => Head(events).of = Last /\ Last # None
        /\ "indication" = "procedureComplete" => \A one \in OfProcedures : ~Queued(one)'
        /\ "indication" = "disconnected" => \A one : ~Queued(one)'
      BY <1>1, <2>1, HandleQueue
  <2>4. UNCHANGED Last /\ UNCHANGED <<linked, current, responses>>
      BY <2>1 DEF Handle, Last
  <2> QED BY <2>3
<1>12. CASE Released
  <2>1. Handle("disconnected") /\ events \in Seq(Event) /\ UNCHANGED kind
      BY <1>1, <1>12 DEF Released, history, Types
  <2>2. /\ Head(events) \in Event /\ Len(events) \in Nat /\ 1 \in 1 .. Len(events)
        /\ Len(events') = Len(events) - 1 /\ Head(events) = events[1] /\ events[1].type = "disconnected"
        /\ \A i \in 1 .. Len(events') : i + 1 \in 1 .. Len(events) /\ events'[i] = events[i + 1]
        /\ \A one : Queued(one) <=> one = "disconnected" \/ Queued(one)'
      BY <2>1, HandleIs
  <2>3. /\ QueueInv'
        /\ "disconnected" \in OfProcedures => Head(events).of = Last /\ Last # None
        /\ "disconnected" = "procedureComplete" => \A one \in OfProcedures : ~Queued(one)'
        /\ "disconnected" = "disconnected" => \A one : ~Queued(one)'
      BY <1>1, <2>1, HandleQueue
  <2>4. UNCHANGED Last /\ UNCHANGED <<linked, current, responses>>
      BY <2>1 DEF Handle, Last
  <2> QED BY <2>3
<1>13. CASE Responds
  <2>0. Responds
      BY <1>13
  <2>1. /\ linked /\ current # None /\ current = Last /\ Last \in Procedure
        /\ responses' = responses + 1 /\ responses \in Nat /\ responses' \in 0 .. MaxResponses
        /\ kind[Last] \in {"exchangeMtu", "read"} => responses = 0
        /\ ~Queued("procedureComplete") /\ ~Queued("disconnected")
        /\ UNCHANGED <<client, linked, current, indicating, kind, ended, outcome, misread>>
      BY <1>1, <2>0, RespondsIs
  <2>2. PICK one \in Event :
          /\ events' = Append(events, one) /\ one.of = Last
          /\ one.type \in OfProcedures \ {"procedureComplete"}
          /\ kind[Last] = "exchangeMtu" <=> one.type = "mtu"
          /\ kind[Last] \in Discoveries <=> one.type = "items"
          /\ one.type \in Responses =>
                /\ one.type = "readResponse" <=> responses = 0
                /\ sent' = [sent EXCEPT ![Last] = @ + Len(one.bytes)]
                /\ \A k \in 1 .. Len(one.bytes) : one.bytes[k] = sent[Last] + k
          /\ one.type \notin Responses => UNCHANGED sent
      BY <1>1, <2>0, RespondsIs
  <2>3. one.type \in OfProcedures => one.of = Last /\ Last # None /\ ~Queued("procedureComplete")
      BY <2>1, <2>2
  <2> QED BY <1>1, <2>1, <2>2, <2>3, AppendQueue DEF Types
<1>14. ASSUME NEW result \in {"success", "error"}, Ends(result)
      PROVE  QueueInv'
  <2>1. /\ linked /\ current # None /\ current = Last /\ Last \in Procedure
        /\ current' = None /\ ended' = [ended EXCEPT ![Last] = result]
        /\ result = "success" /\ kind[Last] \in Reads \cup {"exchangeMtu"} => responses > 0
        /\ result = "error" /\ kind[Last] = "read" => responses = 0
        /\ ~Queued("procedureComplete") /\ ~Queued("disconnected")
        /\ UNCHANGED <<client, linked, responses, indicating, kind, sent, outcome, misread>>
      BY <1>1, <1>14, EndsIs
  <2>2. PICK one \in Event : /\ events' = Append(events, one) /\ one.of = Last
                            /\ one.type = "procedureComplete" /\ one.result = result
      BY <1>1, <1>14, EndsIs
  <2>3. one.type \in OfProcedures => one.of = Last /\ Last # None /\ ~Queued("procedureComplete")
      BY <2>1, <2>2
  <2> QED BY <1>1, <2>1, <2>2, <2>3, AppendQueue DEF Types
<1>15. CASE Indicates
  <2>1. /\ linked /\ ~Queued("disconnected") /\ UNCHANGED <<client, responses, kind, ended, sent,
           outcome, misread>>
        /\ UNCHANGED <<linked, current>>
      BY <1>1, <1>15, NoticeIs DEF history
  <2>2. PICK one \in Event : events' = Append(events, one) /\ one.type \in {"indication"}
      BY <1>1, <1>15, NoticeIs DEF Indicates
  <2>3. one.type \in OfProcedures => one.of = Last /\ Last # None /\ ~Queued("procedureComplete")
      BY <2>1, <2>2 DEF OfProcedures, Responses
  <2> QED BY <1>1, <2>1, <2>2, <2>3, AppendQueue DEF Types
<1>16. CASE Disconnects
  <2>1. /\ linked /\ ~Queued("disconnected") /\ UNCHANGED <<client, responses, kind, ended, sent,
           outcome, misread>>
        /\ linked' = FALSE /\ current' = None
      BY <1>1, <1>16, NoticeIs DEF history
  <2>2. PICK one \in Event : events' = Append(events, one) /\ one.type \in {"indication",
        "disconnected"}
      BY <1>1, <1>16, NoticeIs DEF Disconnects
  <2>3. one.type \in OfProcedures => one.of = Last /\ Last # None /\ ~Queued("procedureComplete")
      BY <2>1, <2>2 DEF OfProcedures, Responses
  <2> QED BY <1>1, <2>1, <2>2, <2>3, AppendQueue DEF Types
<1>17. CASE UNCHANGED vars
  <2>1. UNCHANGED Last
      BY <1>17 DEF vars, history, Last
  <2> QED BY <1>1, <2>1, <1>17 DEF vars, stack, QueueInv
<1> QED BY <1>2, <1>3, <1>4, <1>5, <1>6, <1>7, <1>8, <1>9, <1>10, <1>11, <1>12, <1>13, <1>14,
           <1>15, <1>16, <1>17 DEF Next, Dispatch, StackEnds

(* Every step keeps account of what the stack executes. *)
LEMMA StackStep ==
    ASSUME Inv, FreesWhenHandled, [Next]_vars
    PROVE  StackInv'
<1>1. /\ Types /\ QueueInv /\ StackInv /\ ClientInv /\ AnswerInv
      /\ ReadLongInv /\ ValueInv /\ OutcomeInv /\ ReadAsAsked
    BY DEF Inv
<1>2. ASSUME NEW operationKind \in Operation \ Reads, Start(operationKind)
      PROVE  StackInv'
  <2>0. /\ operation = "none" /\ Issue(operationKind) /\ operation' = operationKind
        /\ onOperationDone' = current' /\ UNCHANGED <<onReadDone, readLong>>
      BY <1>2 DEF Start
  <2>1. operationKind \in Operation
      BY DEF Operation, Reads
  <2>2. /\ kind' \in Seq(Operation) /\ Last' = Last + 1 /\ Last \in Nat /\ Last' \in Procedure /\ Last' # None
        /\ kind'[Last'] = operationKind /\ \A p \in 1 .. Last : kind'[p] = kind[p]
        /\ \A p \in 1 .. Last' : p \in 1 .. Last \/ p = Last'
        /\ current' = Last' /\ responses' = 0
        /\ UNCHANGED <<connected, maxAttMtu, toConfirm, linked, events, indicating,
                       ended, sent, outcome, misread>>
        /\ connected /\ linked /\ onReadDone = None /\ onOperationDone = None
        /\ ~reading /\ ~readLongOverflowed
        /\ \A type : Queued(type)' <=> Queued(type)
        /\ \A type \in OfProcedures : ~Queued(type)
        /\ ended[Last'] = "running" /\ sent[Last'] = 0 /\ outcome[Last'] = NoOutcome
      BY <1>1, <2>0, <2>1, IssueIs
  <2>3. \A p \in Procedure : p > Last' => p > Last
      BY <2>2 DEF Procedure
  <2> QED BY <1>1, <2>2, <2>3 DEF StackInv, OfProcedures
<1>3. CASE Read
  <2>0. /\ operation = "none" /\ Issue("read") /\ operation' = "read"
        /\ onReadDone' = current' /\ UNCHANGED <<onOperationDone, readLong>>
      BY <1>3 DEF Read
  <2>1. "read" \in Operation
      BY DEF Operation, Reads
  <2>2. /\ kind' \in Seq(Operation) /\ Last' = Last + 1 /\ Last \in Nat /\ Last' \in Procedure /\ Last' # None
        /\ kind'[Last'] = "read" /\ \A p \in 1 .. Last : kind'[p] = kind[p]
        /\ \A p \in 1 .. Last' : p \in 1 .. Last \/ p = Last'
        /\ current' = Last' /\ responses' = 0
        /\ UNCHANGED <<connected, maxAttMtu, toConfirm, linked, events, indicating,
                       ended, sent, outcome, misread>>
        /\ connected /\ linked /\ onReadDone = None /\ onOperationDone = None
        /\ ~reading /\ ~readLongOverflowed
        /\ \A type : Queued(type)' <=> Queued(type)
        /\ \A type \in OfProcedures : ~Queued(type)
        /\ ended[Last'] = "running" /\ sent[Last'] = 0 /\ outcome[Last'] = NoOutcome
      BY <1>1, <2>0, <2>1, IssueIs
  <2>3. \A p \in Procedure : p > Last' => p > Last
      BY <2>2 DEF Procedure
  <2> QED BY <1>1, <2>2, <2>3 DEF StackInv, OfProcedures
<1>4. CASE ReadLong
  <2>0. /\ operation = "none" /\ Issue("readLong") /\ operation' = "readLong"
        /\ onReadDone' = current' /\ UNCHANGED onOperationDone
        /\ value' = <<>> /\ reading' = TRUE /\ readLongOverflowed' = FALSE
      BY <1>4 DEF ReadLong
  <2>1. "readLong" \in Operation
      BY DEF Operation, Reads
  <2>2. /\ kind' \in Seq(Operation) /\ Last' = Last + 1 /\ Last \in Nat /\ Last' \in Procedure /\ Last' # None
        /\ kind'[Last'] = "readLong" /\ \A p \in 1 .. Last : kind'[p] = kind[p]
        /\ \A p \in 1 .. Last' : p \in 1 .. Last \/ p = Last'
        /\ current' = Last' /\ responses' = 0
        /\ UNCHANGED <<connected, maxAttMtu, toConfirm, linked, events, indicating,
                       ended, sent, outcome, misread>>
        /\ connected /\ linked /\ onReadDone = None /\ onOperationDone = None
        /\ ~reading /\ ~readLongOverflowed
        /\ \A type : Queued(type)' <=> Queued(type)
        /\ \A type \in OfProcedures : ~Queued(type)
        /\ ended[Last'] = "running" /\ sent[Last'] = 0 /\ outcome[Last'] = NoOutcome
      BY <1>1, <2>0, <2>1, IssueIs
  <2>3. \A p \in Procedure : p > Last' => p > Last
      BY <2>2 DEF Procedure
  <2> QED BY <1>1, <2>2, <2>3 DEF StackInv, OfProcedures
<1>5. CASE ConfirmIndication
  <2>1. UNCHANGED <<connected, operation, callbacks, readLong, maxAttMtu,
                    linked, events, current, responses, history>>
      BY <1>5 DEF ConfirmIndication
  <2>2. \A type : Queued(type)' <=> Queued(type)
      BY <2>1 DEF Queued
  <2>4. UNCHANGED Last
      BY <2>1 DEF Last, history
  <2> QED BY <1>1, <2>1, <2>2, <2>4 DEF client, callbacks, readLong, history, StackInv
<1>6. CASE MtuExchanged
  <2>1. Handle("mtu") /\ events \in Seq(Event) /\ UNCHANGED kind
      BY <1>1, <1>6 DEF MtuExchanged, history, Types
  <2>2. /\ Head(events) \in Event /\ Len(events) \in Nat /\ 1 \in 1 .. Len(events)
        /\ Len(events') = Len(events) - 1 /\ Head(events) = events[1] /\ events[1].type = "mtu"
        /\ \A i \in 1 .. Len(events') : i + 1 \in 1 .. Len(events) /\ events'[i] = events[i + 1]
        /\ \A one : Queued(one) <=> one = "mtu" \/ Queued(one)'
      BY <2>1, HandleIs
  <2>3. /\ QueueInv'
        /\ "mtu" \in OfProcedures => Head(events).of = Last /\ Last # None
        /\ "mtu" = "procedureComplete" => \A one \in OfProcedures : ~Queued(one)'
        /\ "mtu" = "disconnected" => \A one : ~Queued(one)'
      BY <1>1, <2>1, HandleQueue
  <2>4. UNCHANGED Last /\ UNCHANGED <<linked, current, responses>>
      BY <2>1 DEF Handle, Last
  <2> QED BY <1>1, <2>2, <2>3, <2>4, <1>6
             DEF MtuExchanged, client, callbacks, readLong, history, StackInv, OfProcedures,
                 Responses
<1>7. CASE Discovered
  <2>1. Handle("items") /\ events \in Seq(Event) /\ UNCHANGED kind
      BY <1>1, <1>7 DEF Discovered, history, Types
  <2>2. /\ Head(events) \in Event /\ Len(events) \in Nat /\ 1 \in 1 .. Len(events)
        /\ Len(events') = Len(events) - 1 /\ Head(events) = events[1] /\ events[1].type = "items"
        /\ \A i \in 1 .. Len(events') : i + 1 \in 1 .. Len(events) /\ events'[i] = events[i + 1]
        /\ \A one : Queued(one) <=> one = "items" \/ Queued(one)'
      BY <2>1, HandleIs
  <2>3. /\ QueueInv'
        /\ "items" \in OfProcedures => Head(events).of = Last /\ Last # None
        /\ "items" = "procedureComplete" => \A one \in OfProcedures : ~Queued(one)'
        /\ "items" = "disconnected" => \A one : ~Queued(one)'
      BY <1>1, <2>1, HandleQueue
  <2>4. UNCHANGED Last /\ UNCHANGED <<linked, current, responses>>
      BY <2>1 DEF Handle, Last
  <2> QED BY <1>1, <2>2, <2>3, <2>4, <1>7
             DEF Discovered, client, callbacks, readLong, history, StackInv, OfProcedures, Responses
<1>8. CASE ReadResponse
  <2>1. Handle("readResponse") /\ events \in Seq(Event) /\ UNCHANGED kind
      BY <1>1, <1>8 DEF ReadResponse, history, Types
  <2>2. /\ Head(events) \in Event /\ Len(events) \in Nat /\ 1 \in 1 .. Len(events)
        /\ Len(events') = Len(events) - 1 /\ Head(events) = events[1] /\ events[1].type = "readResponse"
        /\ \A i \in 1 .. Len(events') : i + 1 \in 1 .. Len(events) /\ events'[i] = events[i + 1]
        /\ \A one : Queued(one) <=> one = "readResponse" \/ Queued(one)'
      BY <2>1, HandleIs
  <2>3. /\ QueueInv'
        /\ "readResponse" \in OfProcedures => Head(events).of = Last /\ Last # None
        /\ "readResponse" = "procedureComplete" => \A one \in OfProcedures : ~Queued(one)'
        /\ "readResponse" = "disconnected" => \A one : ~Queued(one)'
      BY <1>1, <2>1, HandleQueue
  <2>4. UNCHANGED Last /\ UNCHANGED <<linked, current, responses>>
      BY <2>1 DEF Handle, Last
  <2>5. UNCHANGED <<ended, sent>> /\ connected' = connected
      BY <1>8 DEF ReadResponse
  <2>6. \A p \in Procedure : p > Last => outcome'[p] = outcome[p]
    <3>1. onReadDone \in {Last, None} /\ onOperationDone \in {Last, None}
        BY <1>1 DEF ClientInv
    <3>2. PICK procedure, called : procedure \in {Last,
          None} /\ outcome' = IF procedure = None THEN outcome ELSE [outcome EXCEPT ![procedure] = called]
      <4>1. CASE operation = "read"
          BY <3>1, <4>1, <1>8 DEF ReadResponse, CallBack
      <4>2. CASE operation # "read"
        <5>1. outcome' = outcome
            BY <4>2, <1>8 DEF ReadResponse
        <5> QED BY <5>1
      <4> QED BY <4>1, <4>2
    <3>3. \A p \in Procedure : p > Last => p # Last /\ p # None
        BY <1>1, LenProperties DEF Procedure, None, Last, Types, HistoryTypes
    <3> QED BY <1>1, <3>2, <3>3 DEF Types, HistoryTypes
  <2> QED BY <1>1, <2>2, <2>3, <2>4, <2>5, <2>6 DEF StackInv, OfProcedures, Responses
<1>9. CASE ReadBlobResponse
  <2>1. Handle("readBlobResponse") /\ events \in Seq(Event) /\ UNCHANGED kind
      BY <1>1, <1>9 DEF ReadBlobResponse, history, Types
  <2>2. /\ Head(events) \in Event /\ Len(events) \in Nat /\ 1 \in 1 .. Len(events)
        /\ Len(events') = Len(events) - 1 /\ Head(events) = events[1] /\ events[1].type = "readBlobResponse"
        /\ \A i \in 1 .. Len(events') : i + 1 \in 1 .. Len(events) /\ events'[i] = events[i + 1]
        /\ \A one : Queued(one) <=> one = "readBlobResponse" \/ Queued(one)'
      BY <2>1, HandleIs
  <2>3. /\ QueueInv'
        /\ "readBlobResponse" \in OfProcedures => Head(events).of = Last /\ Last # None
        /\ "readBlobResponse" = "procedureComplete" => \A one \in OfProcedures : ~Queued(one)'
        /\ "readBlobResponse" = "disconnected" => \A one : ~Queued(one)'
      BY <1>1, <2>1, HandleQueue
  <2>4. UNCHANGED Last /\ UNCHANGED <<linked, current, responses>>
      BY <2>1 DEF Handle, Last
  <2> QED BY <1>1, <2>2, <2>3, <2>4, <1>9
             DEF ReadBlobResponse, client, callbacks, readLong, history, StackInv, OfProcedures,
                 Responses
<1>10. CASE ProcedureComplete
  <2>1. Handle("procedureComplete") /\ events \in Seq(Event) /\ UNCHANGED kind
      BY <1>1, <1>10 DEF ProcedureComplete, history, Types
  <2>2. /\ Head(events) \in Event /\ Len(events) \in Nat /\ 1 \in 1 .. Len(events)
        /\ Len(events') = Len(events) - 1 /\ Head(events) = events[1] /\ events[1].type = "procedureComplete"
        /\ \A i \in 1 .. Len(events') : i + 1 \in 1 .. Len(events) /\ events'[i] = events[i + 1]
        /\ \A one : Queued(one) <=> one = "procedureComplete" \/ Queued(one)'
      BY <2>1, HandleIs
  <2>3. /\ QueueInv'
        /\ "procedureComplete" \in OfProcedures => Head(events).of = Last /\ Last # None
        /\ "procedureComplete" = "procedureComplete" => \A one \in OfProcedures : ~Queued(one)'
        /\ "procedureComplete" = "disconnected" => \A one : ~Queued(one)'
      BY <1>1, <2>1, HandleQueue
  <2>4. UNCHANGED Last /\ UNCHANGED <<linked, current, responses>>
      BY <2>1 DEF Handle, Last
  <2>5. UNCHANGED <<ended, sent>> /\ connected' = connected
      BY <1>10 DEF ProcedureComplete
  <2>6. \A p \in Procedure : p > Last => outcome'[p] = outcome[p]
    <3>1. onReadDone \in {Last, None} /\ onOperationDone \in {Last, None}
        BY <1>1 DEF ClientInv
    <3>2. PICK procedure, called : procedure \in {Last,
          None} /\ outcome' = IF procedure = None THEN outcome ELSE [outcome EXCEPT ![procedure] = called]
      <4>1. CASE operation = "readLong"
          BY <3>1, <4>1, <1>10 DEF ProcedureComplete, CallBack
      <4>2. CASE operation # "readLong"
          BY <3>1, <4>2, <1>10 DEF ProcedureComplete, CallBack
      <4> QED BY <4>1, <4>2
    <3>3. \A p \in Procedure : p > Last => p # Last /\ p # None
        BY <1>1, LenProperties DEF Procedure, None, Last, Types, HistoryTypes
    <3> QED BY <1>1, <3>2, <3>3 DEF Types, HistoryTypes
  <2> QED BY <1>1, <2>2, <2>3, <2>4, <2>5, <2>6 DEF StackInv, OfProcedures, Responses
<1>11. CASE IndicationReceived
  <2>1. Handle("indication") /\ events \in Seq(Event) /\ UNCHANGED kind
      BY <1>1, <1>11 DEF IndicationReceived, history, Types
  <2>2. /\ Head(events) \in Event /\ Len(events) \in Nat /\ 1 \in 1 .. Len(events)
        /\ Len(events') = Len(events) - 1 /\ Head(events) = events[1] /\ events[1].type = "indication"
        /\ \A i \in 1 .. Len(events') : i + 1 \in 1 .. Len(events) /\ events'[i] = events[i + 1]
        /\ \A one : Queued(one) <=> one = "indication" \/ Queued(one)'
      BY <2>1, HandleIs
  <2>3. /\ QueueInv'
        /\ "indication" \in OfProcedures => Head(events).of = Last /\ Last # None
        /\ "indication" = "procedureComplete" => \A one \in OfProcedures : ~Queued(one)'
        /\ "indication" = "disconnected" => \A one : ~Queued(one)'
      BY <1>1, <2>1, HandleQueue
  <2>4. UNCHANGED Last /\ UNCHANGED <<linked, current, responses>>
      BY <2>1 DEF Handle, Last
  <2> QED BY <1>1, <2>2, <2>3, <2>4, <1>11
             DEF IndicationReceived, client, callbacks, readLong, history, StackInv, OfProcedures,
                 Responses
<1>12. CASE Released
  <2>1. Handle("disconnected") /\ events \in Seq(Event) /\ UNCHANGED kind
      BY <1>1, <1>12 DEF Released, history, Types
  <2>2. /\ Head(events) \in Event /\ Len(events) \in Nat /\ 1 \in 1 .. Len(events)
        /\ Len(events') = Len(events) - 1 /\ Head(events) = events[1] /\ events[1].type = "disconnected"
        /\ \A i \in 1 .. Len(events') : i + 1 \in 1 .. Len(events) /\ events'[i] = events[i + 1]
        /\ \A one : Queued(one) <=> one = "disconnected" \/ Queued(one)'
      BY <2>1, HandleIs
  <2>3. /\ QueueInv'
        /\ "disconnected" \in OfProcedures => Head(events).of = Last /\ Last # None
        /\ "disconnected" = "procedureComplete" => \A one \in OfProcedures : ~Queued(one)'
        /\ "disconnected" = "disconnected" => \A one : ~Queued(one)'
      BY <1>1, <2>1, HandleQueue
  <2>4. UNCHANGED Last /\ UNCHANGED <<linked, current, responses>>
      BY <2>1 DEF Handle, Last
  <2>5. UNCHANGED <<ended, sent>> /\ connected' = FALSE
      BY <1>12 DEF Released
  <2>6. \A p \in Procedure : p > Last => outcome'[p] = outcome[p]
    <3>1. onReadDone \in {Last, None} /\ onOperationDone \in {Last, None}
        BY <1>1 DEF ClientInv
    <3>2. PICK procedure, called : procedure \in {Last,
          None} /\ outcome' = IF procedure = None THEN outcome ELSE [outcome EXCEPT ![procedure] = called]
      <4>1. CASE operation \in Reads
          BY <3>1, <4>1, <1>12 DEF Released, CallBack
      <4>2. CASE operation \notin Reads
          BY <3>1, <4>2, <1>12 DEF Released, CallBack
      <4> QED BY <4>1, <4>2
    <3>3. \A p \in Procedure : p > Last => p # Last /\ p # None
        BY <1>1, LenProperties DEF Procedure, None, Last, Types, HistoryTypes
    <3> QED BY <1>1, <3>2, <3>3 DEF Types, HistoryTypes
  <2> QED BY <1>1, <2>2, <2>3, <2>4, <2>5, <2>6 DEF StackInv, OfProcedures, Responses
<1>13. CASE Responds
  <2>0. Responds
      BY <1>13
  <2>1. /\ linked /\ current # None /\ current = Last /\ Last \in Procedure
        /\ responses' = responses + 1 /\ responses \in Nat /\ responses' \in 0 .. MaxResponses
        /\ kind[Last] \in {"exchangeMtu", "read"} => responses = 0
        /\ ~Queued("procedureComplete") /\ ~Queued("disconnected")
        /\ UNCHANGED <<client, linked, current, indicating, kind, ended, outcome, misread>>
      BY <1>1, <2>0, RespondsIs
  <2>2. PICK one \in Event :
          /\ events' = Append(events, one) /\ one.of = Last
          /\ one.type \in OfProcedures \ {"procedureComplete"}
          /\ kind[Last] = "exchangeMtu" <=> one.type = "mtu"
          /\ kind[Last] \in Discoveries <=> one.type = "items"
          /\ one.type \in Responses =>
                /\ one.type = "readResponse" <=> responses = 0
                /\ sent' = [sent EXCEPT ![Last] = @ + Len(one.bytes)]
                /\ \A k \in 1 .. Len(one.bytes) : one.bytes[k] = sent[Last] + k
          /\ one.type \notin Responses => UNCHANGED sent
      BY <1>1, <2>0, RespondsIs
  <2>3. /\ Len(events) \in Nat /\ Len(events') = Len(events) + 1
        /\ \A i \in 1 .. Len(events) : i \in 1 .. Len(events') /\ events'[i] = events[i]
        /\ events'[Len(events')] = one /\ Len(events') \in 1 .. Len(events')
        /\ \A i \in 1 .. Len(events') : i \in 1 .. Len(events) \/ i = Len(events')
        /\ \A type : Queued(type)' <=> Queued(type) \/ type = one.type
      BY <1>1, <2>2, AppendIs DEF Types
  <2>4. UNCHANGED Last
      BY <2>1 DEF Last
  <2>5. \A p \in Procedure : p > Last => sent'[p] = sent[p]
    <3>1. \A p \in Procedure : p > Last => p # Last
        BY <2>1 DEF Procedure
    <3> QED BY <1>1, <2>2, <3>1 DEF Types, HistoryTypes
  <2> QED BY <1>1, <2>1, <2>2, <2>3, <2>4, <2>5 DEF client, StackInv, OfProcedures, Responses
<1>14. ASSUME NEW result \in {"success", "error"}, Ends(result)
      PROVE  StackInv'
  <2>1. /\ linked /\ current # None /\ current = Last /\ Last \in Procedure
        /\ current' = None /\ ended' = [ended EXCEPT ![Last] = result]
        /\ result = "success" /\ kind[Last] \in Reads \cup {"exchangeMtu"} => responses > 0
        /\ result = "error" /\ kind[Last] = "read" => responses = 0
        /\ ~Queued("procedureComplete") /\ ~Queued("disconnected")
        /\ UNCHANGED <<client, linked, responses, indicating, kind, sent, outcome, misread>>
      BY <1>1, <1>14, EndsIs
  <2>2. PICK one \in Event : /\ events' = Append(events, one) /\ one.of = Last
                            /\ one.type = "procedureComplete" /\ one.result = result
      BY <1>1, <1>14, EndsIs
  <2>3. /\ Len(events) \in Nat /\ Len(events') = Len(events) + 1
        /\ \A i \in 1 .. Len(events) : i \in 1 .. Len(events') /\ events'[i] = events[i]
        /\ events'[Len(events')] = one /\ Len(events') \in 1 .. Len(events')
        /\ \A i \in 1 .. Len(events') : i \in 1 .. Len(events) \/ i = Len(events')
        /\ \A type : Queued(type)' <=> Queued(type) \/ type = one.type
      BY <1>1, <2>2, AppendIs DEF Types
  <2>4. UNCHANGED Last
      BY <2>1 DEF Last
  <2>5. \A p \in Procedure : p > Last => ended'[p] = ended[p]
    <3>1. \A p \in Procedure : p > Last => p # Last
        BY <2>1 DEF Procedure
    <3> QED BY <1>1, <2>1, <3>1 DEF Types, HistoryTypes
  <2> QED BY <1>1, <2>1, <2>2, <2>3, <2>4, <2>5 DEF client, StackInv, OfProcedures, Responses
<1>15. CASE Indicates
  <2>1. /\ linked /\ ~Queued("disconnected") /\ UNCHANGED <<client, responses, kind, ended, sent,
           outcome, misread>>
        /\ UNCHANGED <<linked, current>>
      BY <1>1, <1>15, NoticeIs DEF history
  <2>2. PICK one \in Event : events' = Append(events, one) /\ one.type \in {"indication"}
      BY <1>1, <1>15, NoticeIs DEF Indicates
  <2>3. /\ Len(events) \in Nat /\ Len(events') = Len(events) + 1
        /\ \A i \in 1 .. Len(events) : i \in 1 .. Len(events') /\ events'[i] = events[i]
        /\ events'[Len(events')] = one /\ Len(events') \in 1 .. Len(events')
        /\ \A i \in 1 .. Len(events') : i \in 1 .. Len(events) \/ i = Len(events')
        /\ \A type : Queued(type)' <=> Queued(type) \/ type = one.type
      BY <1>1, <2>2, AppendIs DEF Types
  <2>4. UNCHANGED Last
      BY <2>1 DEF Last
  <2> QED BY <1>1, <2>1, <2>2, <2>3, <2>4 DEF client, StackInv, OfProcedures, Responses
<1>16. CASE Disconnects
  <2>1. /\ linked /\ ~Queued("disconnected") /\ UNCHANGED <<client, responses, kind, ended, sent,
           outcome, misread>>
        /\ linked' = FALSE /\ current' = None
      BY <1>1, <1>16, NoticeIs DEF history
  <2>2. PICK one \in Event : events' = Append(events, one) /\ one.type \in {"indication",
        "disconnected"}
      BY <1>1, <1>16, NoticeIs DEF Disconnects
  <2>3. /\ Len(events) \in Nat /\ Len(events') = Len(events) + 1
        /\ \A i \in 1 .. Len(events) : i \in 1 .. Len(events') /\ events'[i] = events[i]
        /\ events'[Len(events')] = one /\ Len(events') \in 1 .. Len(events')
        /\ \A i \in 1 .. Len(events') : i \in 1 .. Len(events) \/ i = Len(events')
        /\ \A type : Queued(type)' <=> Queued(type) \/ type = one.type
      BY <1>1, <2>2, AppendIs DEF Types
  <2>4. UNCHANGED Last
      BY <2>1 DEF Last
  <2> QED BY <1>1, <2>1, <2>2, <2>3, <2>4 DEF client, StackInv, OfProcedures, Responses
<1>17. CASE UNCHANGED vars
  <2>1. UNCHANGED Last /\ \A type : Queued(type)' <=> Queued(type)
      BY <1>17 DEF vars, stack, history, Last, Queued
  <2> QED BY <1>1, <2>1, <1>17 DEF vars, client, stack, history, StackInv
<1> QED BY <1>2, <1>3, <1>4, <1>5, <1>6, <1>7, <1>8, <1>9, <1>10, <1>11, <1>12, <1>13, <1>14,
           <1>15, <1>16, <1>17 DEF Next, Dispatch, StackEnds

(* Every step keeps the operation that of the last procedure. *)
LEMMA ClientStep ==
    ASSUME Inv, FreesWhenHandled, [Next]_vars
    PROVE  ClientInv'
<1>1. /\ Types /\ QueueInv /\ StackInv /\ ClientInv /\ AnswerInv
      /\ ReadLongInv /\ ValueInv /\ OutcomeInv /\ ReadAsAsked
    BY DEF Inv
<1>2. ASSUME NEW operationKind \in Operation \ Reads, Start(operationKind)
      PROVE  ClientInv'
  <2>0. /\ operation = "none" /\ Issue(operationKind) /\ operation' = operationKind
        /\ onOperationDone' = current' /\ UNCHANGED <<onReadDone, readLong>>
      BY <1>2 DEF Start
  <2>1. operationKind \in Operation
      BY DEF Operation, Reads
  <2>2. /\ kind' \in Seq(Operation) /\ Last' = Last + 1 /\ Last \in Nat /\ Last' \in Procedure /\ Last' # None
        /\ kind'[Last'] = operationKind /\ \A p \in 1 .. Last : kind'[p] = kind[p]
        /\ \A p \in 1 .. Last' : p \in 1 .. Last \/ p = Last'
        /\ current' = Last' /\ responses' = 0
        /\ UNCHANGED <<connected, maxAttMtu, toConfirm, linked, events, indicating,
                       ended, sent, outcome, misread>>
        /\ connected /\ linked /\ onReadDone = None /\ onOperationDone = None
        /\ ~reading /\ ~readLongOverflowed
        /\ \A type : Queued(type)' <=> Queued(type)
        /\ \A type \in OfProcedures : ~Queued(type)
        /\ ended[Last'] = "running" /\ sent[Last'] = 0 /\ outcome[Last'] = NoOutcome
      BY <1>1, <2>0, <2>1, IssueIs
  <2> QED BY <1>1, <2>0, <2>2
             DEF readLong, ClientInv, Operation, Reads, Writes, Discoveries, OfProcedures, Responses
<1>3. CASE Read
  <2>0. /\ operation = "none" /\ Issue("read") /\ operation' = "read"
        /\ onReadDone' = current' /\ UNCHANGED <<onOperationDone, readLong>>
      BY <1>3 DEF Read
  <2>1. "read" \in Operation
      BY DEF Operation, Reads
  <2>2. /\ kind' \in Seq(Operation) /\ Last' = Last + 1 /\ Last \in Nat /\ Last' \in Procedure /\ Last' # None
        /\ kind'[Last'] = "read" /\ \A p \in 1 .. Last : kind'[p] = kind[p]
        /\ \A p \in 1 .. Last' : p \in 1 .. Last \/ p = Last'
        /\ current' = Last' /\ responses' = 0
        /\ UNCHANGED <<connected, maxAttMtu, toConfirm, linked, events, indicating,
                       ended, sent, outcome, misread>>
        /\ connected /\ linked /\ onReadDone = None /\ onOperationDone = None
        /\ ~reading /\ ~readLongOverflowed
        /\ \A type : Queued(type)' <=> Queued(type)
        /\ \A type \in OfProcedures : ~Queued(type)
        /\ ended[Last'] = "running" /\ sent[Last'] = 0 /\ outcome[Last'] = NoOutcome
      BY <1>1, <2>0, <2>1, IssueIs
  <2> QED BY <1>1, <2>0, <2>2
             DEF readLong, ClientInv, Operation, Reads, Writes, Discoveries, OfProcedures, Responses
<1>4. CASE ReadLong
  <2>0. /\ operation = "none" /\ Issue("readLong") /\ operation' = "readLong"
        /\ onReadDone' = current' /\ UNCHANGED onOperationDone
        /\ value' = <<>> /\ reading' = TRUE /\ readLongOverflowed' = FALSE
      BY <1>4 DEF ReadLong
  <2>1. "readLong" \in Operation
      BY DEF Operation, Reads
  <2>2. /\ kind' \in Seq(Operation) /\ Last' = Last + 1 /\ Last \in Nat /\ Last' \in Procedure /\ Last' # None
        /\ kind'[Last'] = "readLong" /\ \A p \in 1 .. Last : kind'[p] = kind[p]
        /\ \A p \in 1 .. Last' : p \in 1 .. Last \/ p = Last'
        /\ current' = Last' /\ responses' = 0
        /\ UNCHANGED <<connected, maxAttMtu, toConfirm, linked, events, indicating,
                       ended, sent, outcome, misread>>
        /\ connected /\ linked /\ onReadDone = None /\ onOperationDone = None
        /\ ~reading /\ ~readLongOverflowed
        /\ \A type : Queued(type)' <=> Queued(type)
        /\ \A type \in OfProcedures : ~Queued(type)
        /\ ended[Last'] = "running" /\ sent[Last'] = 0 /\ outcome[Last'] = NoOutcome
      BY <1>1, <2>0, <2>1, IssueIs
  <2> QED BY <1>1, <2>0, <2>2
             DEF readLong, ClientInv, Operation, Reads, Writes, Discoveries, OfProcedures, Responses
<1>5. CASE ConfirmIndication
  <2>1. UNCHANGED <<connected, operation, callbacks, readLong, maxAttMtu,
                    linked, events, current, responses, history>>
      BY <1>5 DEF ConfirmIndication
  <2>2. \A type : Queued(type)' <=> Queued(type)
      BY <2>1 DEF Queued
  <2>4. UNCHANGED Last
      BY <2>1 DEF Last, history
  <2> QED BY <1>1, <2>1, <2>2, <2>4 DEF client, callbacks, readLong, history, ClientInv
<1>6. CASE MtuExchanged
  <2>1. Handle("mtu") /\ events \in Seq(Event) /\ UNCHANGED kind
      BY <1>1, <1>6 DEF MtuExchanged, history, Types
  <2>2. /\ Head(events) \in Event /\ Len(events) \in Nat /\ 1 \in 1 .. Len(events)
        /\ Len(events') = Len(events) - 1 /\ Head(events) = events[1] /\ events[1].type = "mtu"
        /\ \A i \in 1 .. Len(events') : i + 1 \in 1 .. Len(events) /\ events'[i] = events[i + 1]
        /\ \A one : Queued(one) <=> one = "mtu" \/ Queued(one)'
      BY <2>1, HandleIs
  <2>3. /\ QueueInv'
        /\ "mtu" \in OfProcedures => Head(events).of = Last /\ Last # None
        /\ "mtu" = "procedureComplete" => \A one \in OfProcedures : ~Queued(one)'
        /\ "mtu" = "disconnected" => \A one : ~Queued(one)'
      BY <1>1, <2>1, HandleQueue
  <2>4. UNCHANGED Last /\ UNCHANGED <<linked, current, responses>>
      BY <2>1 DEF Handle, Last
  <2> QED BY <1>1, <2>2, <2>3, <2>4, <1>6
             DEF MtuExchanged, client, callbacks, readLong, history, ClientInv
<1>7. CASE Discovered
  <2>1. Handle("items") /\ events \in Seq(Event) /\ UNCHANGED kind
      BY <1>1, <1>7 DEF Discovered, history, Types
  <2>2. /\ Head(events) \in Event /\ Len(events) \in Nat /\ 1 \in 1 .. Len(events)
        /\ Len(events') = Len(events) - 1 /\ Head(events) = events[1] /\ events[1].type = "items"
        /\ \A i \in 1 .. Len(events') : i + 1 \in 1 .. Len(events) /\ events'[i] = events[i + 1]
        /\ \A one : Queued(one) <=> one = "items" \/ Queued(one)'
      BY <2>1, HandleIs
  <2>3. /\ QueueInv'
        /\ "items" \in OfProcedures => Head(events).of = Last /\ Last # None
        /\ "items" = "procedureComplete" => \A one \in OfProcedures : ~Queued(one)'
        /\ "items" = "disconnected" => \A one : ~Queued(one)'
      BY <1>1, <2>1, HandleQueue
  <2>4. UNCHANGED Last /\ UNCHANGED <<linked, current, responses>>
      BY <2>1 DEF Handle, Last
  <2> QED BY <1>1, <2>2, <2>3, <2>4, <1>7
             DEF Discovered, client, callbacks, readLong, history, ClientInv
<1>8. CASE ReadResponse
  <2>1. Handle("readResponse") /\ events \in Seq(Event) /\ UNCHANGED kind
      BY <1>1, <1>8 DEF ReadResponse, history, Types
  <2>2. /\ Head(events) \in Event /\ Len(events) \in Nat /\ 1 \in 1 .. Len(events)
        /\ Len(events') = Len(events) - 1 /\ Head(events) = events[1] /\ events[1].type = "readResponse"
        /\ \A i \in 1 .. Len(events') : i + 1 \in 1 .. Len(events) /\ events'[i] = events[i + 1]
        /\ \A one : Queued(one) <=> one = "readResponse" \/ Queued(one)'
      BY <2>1, HandleIs
  <2>3. /\ QueueInv'
        /\ "readResponse" \in OfProcedures => Head(events).of = Last /\ Last # None
        /\ "readResponse" = "procedureComplete" => \A one \in OfProcedures : ~Queued(one)'
        /\ "readResponse" = "disconnected" => \A one : ~Queued(one)'
      BY <1>1, <2>1, HandleQueue
  <2>4. UNCHANGED Last /\ UNCHANGED <<linked, current, responses>>
      BY <2>1 DEF Handle, Last
  <2>5. UNCHANGED reading /\ (readLongOverflowed' => readLongOverflowed \/ reading)
      BY <1>8 DEF ReadResponse, Accumulate, readLong
  <2>6. CASE operation = "read"
    <3>1. operation' = "none" /\ onReadDone' = None /\ UNCHANGED onOperationDone
        BY <2>6, <1>8 DEF ReadResponse
    <3>2. kind[Last] = "read" /\ responses > 0 /\ ~Queued("items")'
        BY <1>1, <2>2, <2>3, <2>6 DEF ClientInv, AnswerInv, OfProcedures, Responses, Discoveries
    <3> QED BY <1>1, <2>1, <2>2, <2>4, <2>5, <2>6, <3>1, <3>2 DEF ClientInv, Reads
  <2>7. CASE operation # "read"
    <3>1. UNCHANGED <<operation, onReadDone, onOperationDone, outcome>>
        BY <2>7, <1>8 DEF ReadResponse
    <3> QED BY <1>1, <2>1, <2>2, <2>4, <2>5, <3>1 DEF ClientInv
  <2> QED BY <2>6, <2>7
<1>9. CASE ReadBlobResponse
  <2>1. Handle("readBlobResponse") /\ events \in Seq(Event) /\ UNCHANGED kind
      BY <1>1, <1>9 DEF ReadBlobResponse, history, Types
  <2>2. /\ Head(events) \in Event /\ Len(events) \in Nat /\ 1 \in 1 .. Len(events)
        /\ Len(events') = Len(events) - 1 /\ Head(events) = events[1] /\ events[1].type = "readBlobResponse"
        /\ \A i \in 1 .. Len(events') : i + 1 \in 1 .. Len(events) /\ events'[i] = events[i + 1]
        /\ \A one : Queued(one) <=> one = "readBlobResponse" \/ Queued(one)'
      BY <2>1, HandleIs
  <2>3. /\ QueueInv'
        /\ "readBlobResponse" \in OfProcedures => Head(events).of = Last /\ Last # None
        /\ "readBlobResponse" = "procedureComplete" => \A one \in OfProcedures : ~Queued(one)'
        /\ "readBlobResponse" = "disconnected" => \A one : ~Queued(one)'
      BY <1>1, <2>1, HandleQueue
  <2>4. UNCHANGED Last /\ UNCHANGED <<linked, current, responses>>
      BY <2>1 DEF Handle, Last
  <2>5. UNCHANGED reading /\ (readLongOverflowed' => readLongOverflowed \/ reading)
      BY <1>9 DEF ReadBlobResponse, Accumulate, readLong
  <2> QED BY <1>1, <2>2, <2>3, <2>4, <2>5, <1>9 DEF ReadBlobResponse, callbacks, history, ClientInv
<1>10. CASE ProcedureComplete
  <2>1. Handle("procedureComplete") /\ events \in Seq(Event) /\ UNCHANGED kind
      BY <1>1, <1>10 DEF ProcedureComplete, history, Types
  <2>2. /\ Head(events) \in Event /\ Len(events) \in Nat /\ 1 \in 1 .. Len(events)
        /\ Len(events') = Len(events) - 1 /\ Head(events) = events[1] /\ events[1].type = "procedureComplete"
        /\ \A i \in 1 .. Len(events') : i + 1 \in 1 .. Len(events) /\ events'[i] = events[i + 1]
        /\ \A one : Queued(one) <=> one = "procedureComplete" \/ Queued(one)'
      BY <2>1, HandleIs
  <2>3. /\ QueueInv'
        /\ "procedureComplete" \in OfProcedures => Head(events).of = Last /\ Last # None
        /\ "procedureComplete" = "procedureComplete" => \A one \in OfProcedures : ~Queued(one)'
        /\ "procedureComplete" = "disconnected" => \A one : ~Queued(one)'
      BY <1>1, <2>1, HandleQueue
  <2>4. UNCHANGED Last /\ UNCHANGED <<linked, current, responses>>
      BY <2>1 DEF Handle, Last
  <2>5. operation' = "none" /\ ~Queued("items")' /\ current = None
      BY <1>1, <2>2, <2>3, <1>10 DEF ProcedureComplete, OfProcedures, StackInv
  <2>6. onReadDone' = None /\ onOperationDone' = None
    <3>1. CASE operation \in Reads
        BY <1>1, <3>1, <1>10 DEF ProcedureComplete, ClientInv
    <3>2. CASE operation \notin Reads
        BY <1>1, <3>2, <1>10 DEF ProcedureComplete, ClientInv
    <3> QED BY <3>1, <3>2
  <2>7. ~reading' /\ ~readLongOverflowed'
      BY <1>1, <1>10 DEF ProcedureComplete, ClientInv, Types, ClientTypes
  <2> QED BY <2>4, <2>5, <2>6, <2>7 DEF ClientInv, Reads
<1>11. CASE IndicationReceived
  <2>1. Handle("indication") /\ events \in Seq(Event) /\ UNCHANGED kind
      BY <1>1, <1>11 DEF IndicationReceived, history, Types
  <2>2. /\ Head(events) \in Event /\ Len(events) \in Nat /\ 1 \in 1 .. Len(events)
        /\ Len(events') = Len(events) - 1 /\ Head(events) = events[1] /\ events[1].type = "indication"
        /\ \A i \in 1 .. Len(events') : i + 1 \in 1 .. Len(events) /\ events'[i] = events[i + 1]
        /\ \A one : Queued(one) <=> one = "indication" \/ Queued(one)'
      BY <2>1, HandleIs
  <2>3. /\ QueueInv'
        /\ "indication" \in OfProcedures => Head(events).of = Last /\ Last # None
        /\ "indication" = "procedureComplete" => \A one \in OfProcedures : ~Queued(one)'
        /\ "indication" = "disconnected" => \A one : ~Queued(one)'
      BY <1>1, <2>1, HandleQueue
  <2>4. UNCHANGED Last /\ UNCHANGED <<linked, current, responses>>
      BY <2>1 DEF Handle, Last
  <2> QED BY <1>1, <2>2, <2>3, <2>4, <1>11
             DEF IndicationReceived, client, callbacks, readLong, history, ClientInv
<1>12. CASE Released
  <2>1. Handle("disconnected") /\ events \in Seq(Event) /\ UNCHANGED kind
      BY <1>1, <1>12 DEF Released, history, Types
  <2>2. /\ Head(events) \in Event /\ Len(events) \in Nat /\ 1 \in 1 .. Len(events)
        /\ Len(events') = Len(events) - 1 /\ Head(events) = events[1] /\ events[1].type = "disconnected"
        /\ \A i \in 1 .. Len(events') : i + 1 \in 1 .. Len(events) /\ events'[i] = events[i + 1]
        /\ \A one : Queued(one) <=> one = "disconnected" \/ Queued(one)'
      BY <2>1, HandleIs
  <2>3. /\ QueueInv'
        /\ "disconnected" \in OfProcedures => Head(events).of = Last /\ Last # None
        /\ "disconnected" = "procedureComplete" => \A one \in OfProcedures : ~Queued(one)'
        /\ "disconnected" = "disconnected" => \A one : ~Queued(one)'
      BY <1>1, <2>1, HandleQueue
  <2>4. UNCHANGED Last /\ UNCHANGED <<linked, current, responses>>
      BY <2>1 DEF Handle, Last
  <2>5. /\ operation' = "none" /\ reading' = FALSE /\ readLongOverflowed' = FALSE
        /\ ~Queued("items")' /\ current = None
      BY <1>1, <2>2, <2>3, <1>12 DEF Released, StackInv
  <2>6. onReadDone' = None /\ onOperationDone' = None
      BY <1>1, <1>12 DEF Released, ClientInv
  <2> QED BY <2>4, <2>5, <2>6 DEF ClientInv, Reads
<1>13. CASE Responds
  <2>0. Responds
      BY <1>13
  <2>1. /\ linked /\ current # None /\ current = Last /\ Last \in Procedure
        /\ responses' = responses + 1 /\ responses \in Nat /\ responses' \in 0 .. MaxResponses
        /\ kind[Last] \in {"exchangeMtu", "read"} => responses = 0
        /\ ~Queued("procedureComplete") /\ ~Queued("disconnected")
        /\ UNCHANGED <<client, linked, current, indicating, kind, ended, outcome, misread>>
      BY <1>1, <2>0, RespondsIs
  <2>2. PICK one \in Event :
          /\ events' = Append(events, one) /\ one.of = Last
          /\ one.type \in OfProcedures \ {"procedureComplete"}
          /\ kind[Last] = "exchangeMtu" <=> one.type = "mtu"
          /\ kind[Last] \in Discoveries <=> one.type = "items"
          /\ one.type \in Responses =>
                /\ one.type = "readResponse" <=> responses = 0
                /\ sent' = [sent EXCEPT ![Last] = @ + Len(one.bytes)]
                /\ \A k \in 1 .. Len(one.bytes) : one.bytes[k] = sent[Last] + k
          /\ one.type \notin Responses => UNCHANGED sent
      BY <1>1, <2>0, RespondsIs
  <2>3. /\ Len(events) \in Nat /\ Len(events') = Len(events) + 1
        /\ \A i \in 1 .. Len(events) : i \in 1 .. Len(events') /\ events'[i] = events[i]
        /\ events'[Len(events')] = one /\ Len(events') \in 1 .. Len(events')
        /\ \A i \in 1 .. Len(events') : i \in 1 .. Len(events) \/ i = Len(events')
        /\ \A type : Queued(type)' <=> Queued(type) \/ type = one.type
      BY <1>1, <2>2, AppendIs DEF Types
  <2>4. UNCHANGED Last
      BY <2>1 DEF Last
  <2>5. one.type = "items" => operation \in Discoveries
    <3>1. "read" \notin Discoveries
        BY DEF Discoveries
    <3> QED BY <1>1, <2>1, <2>2, <3>1 DEF ClientInv
  <2> QED BY <1>1, <2>1, <2>3, <2>4, <2>5 DEF client, ClientInv
<1>14. ASSUME NEW result \in {"success", "error"}, Ends(result)
      PROVE  ClientInv'
  <2>1. /\ linked /\ current # None /\ current = Last /\ Last \in Procedure
        /\ current' = None /\ ended' = [ended EXCEPT ![Last] = result]
        /\ result = "success" /\ kind[Last] \in Reads \cup {"exchangeMtu"} => responses > 0
        /\ result = "error" /\ kind[Last] = "read" => responses = 0
        /\ ~Queued("procedureComplete") /\ ~Queued("disconnected")
        /\ UNCHANGED <<client, linked, responses, indicating, kind, sent, outcome, misread>>
      BY <1>1, <1>14, EndsIs
  <2>2. PICK one \in Event : /\ events' = Append(events, one) /\ one.of = Last
                            /\ one.type = "procedureComplete" /\ one.result = result
      BY <1>1, <1>14, EndsIs
  <2>3. /\ Len(events) \in Nat /\ Len(events') = Len(events) + 1
        /\ \A i \in 1 .. Len(events) : i \in 1 .. Len(events') /\ events'[i] = events[i]
        /\ events'[Len(events')] = one /\ Len(events') \in 1 .. Len(events')
        /\ \A i \in 1 .. Len(events') : i \in 1 .. Len(events) \/ i = Len(events')
        /\ \A type : Queued(type)' <=> Queued(type) \/ type = one.type
      BY <1>1, <2>2, AppendIs DEF Types
  <2>4. UNCHANGED Last
      BY <2>1 DEF Last
  <2> QED BY <1>1, <2>1, <2>2, <2>3, <2>4 DEF client, ClientInv
<1>15. CASE Indicates
  <2>1. /\ linked /\ ~Queued("disconnected") /\ UNCHANGED <<client, responses, kind, ended, sent,
           outcome, misread>>
        /\ UNCHANGED <<linked, current>>
      BY <1>1, <1>15, NoticeIs DEF history
  <2>2. PICK one \in Event : events' = Append(events, one) /\ one.type \in {"indication"}
      BY <1>1, <1>15, NoticeIs DEF Indicates
  <2>3. /\ Len(events) \in Nat /\ Len(events') = Len(events) + 1
        /\ \A i \in 1 .. Len(events) : i \in 1 .. Len(events') /\ events'[i] = events[i]
        /\ events'[Len(events')] = one /\ Len(events') \in 1 .. Len(events')
        /\ \A i \in 1 .. Len(events') : i \in 1 .. Len(events) \/ i = Len(events')
        /\ \A type : Queued(type)' <=> Queued(type) \/ type = one.type
      BY <1>1, <2>2, AppendIs DEF Types
  <2>4. UNCHANGED Last
      BY <2>1 DEF Last
  <2> QED BY <1>1, <2>1, <2>2, <2>3, <2>4 DEF client, ClientInv
<1>16. CASE Disconnects
  <2>1. /\ linked /\ ~Queued("disconnected") /\ UNCHANGED <<client, responses, kind, ended, sent,
           outcome, misread>>
        /\ linked' = FALSE /\ current' = None
      BY <1>1, <1>16, NoticeIs DEF history
  <2>2. PICK one \in Event : events' = Append(events, one) /\ one.type \in {"indication",
        "disconnected"}
      BY <1>1, <1>16, NoticeIs DEF Disconnects
  <2>3. /\ Len(events) \in Nat /\ Len(events') = Len(events) + 1
        /\ \A i \in 1 .. Len(events) : i \in 1 .. Len(events') /\ events'[i] = events[i]
        /\ events'[Len(events')] = one /\ Len(events') \in 1 .. Len(events')
        /\ \A i \in 1 .. Len(events') : i \in 1 .. Len(events) \/ i = Len(events')
        /\ \A type : Queued(type)' <=> Queued(type) \/ type = one.type
      BY <1>1, <2>2, AppendIs DEF Types
  <2>4. UNCHANGED Last
      BY <2>1 DEF Last
  <2> QED BY <1>1, <2>1, <2>2, <2>3, <2>4 DEF client, ClientInv
<1>17. CASE UNCHANGED vars
  <2>1. UNCHANGED Last /\ \A type : Queued(type)' <=> Queued(type)
      BY <1>17 DEF vars, stack, history, Last, Queued
  <2> QED BY <1>1, <2>1, <1>17 DEF vars, client, stack, history, ClientInv
<1> QED BY <1>2, <1>3, <1>4, <1>5, <1>6, <1>7, <1>8, <1>9, <1>10, <1>11, <1>12, <1>13, <1>14,
           <1>15, <1>16, <1>17 DEF Next, Dispatch, StackEnds

(* Every step keeps the events true to what the stack answered. *)
LEMMA AnswerStep ==
    ASSUME Inv, FreesWhenHandled, [Next]_vars
    PROVE  AnswerInv'
<1>1. /\ Types /\ QueueInv /\ StackInv /\ ClientInv /\ AnswerInv
      /\ ReadLongInv /\ ValueInv /\ OutcomeInv /\ ReadAsAsked
    BY DEF Inv
<1>2. ASSUME NEW operationKind \in Operation \ Reads, Start(operationKind)
      PROVE  AnswerInv'
  <2>0. /\ operation = "none" /\ Issue(operationKind) /\ operation' = operationKind
        /\ onOperationDone' = current' /\ UNCHANGED <<onReadDone, readLong>>
      BY <1>2 DEF Start
  <2>1. operationKind \in Operation
      BY DEF Operation, Reads
  <2>2. /\ kind' \in Seq(Operation) /\ Last' = Last + 1 /\ Last \in Nat /\ Last' \in Procedure /\ Last' # None
        /\ kind'[Last'] = operationKind /\ \A p \in 1 .. Last : kind'[p] = kind[p]
        /\ \A p \in 1 .. Last' : p \in 1 .. Last \/ p = Last'
        /\ current' = Last' /\ responses' = 0
        /\ UNCHANGED <<connected, maxAttMtu, toConfirm, linked, events, indicating,
                       ended, sent, outcome, misread>>
        /\ connected /\ linked /\ onReadDone = None /\ onOperationDone = None
        /\ ~reading /\ ~readLongOverflowed
        /\ \A type : Queued(type)' <=> Queued(type)
        /\ \A type \in OfProcedures : ~Queued(type)
        /\ ended[Last'] = "running" /\ sent[Last'] = 0 /\ outcome[Last'] = NoOutcome
      BY <1>1, <2>0, <2>1, IssueIs
  <2>3. \A i \in 1 .. Len(events) : events[i].type \notin OfProcedures
      BY <2>2 DEF Queued
  <2>4. maxAttMtu <= Last' /\ ~(responses' > 0)
      BY <1>1, <2>2 DEF AnswerInv, Types, ClientTypes, Number, Procedure, None
  <2> QED BY <1>1, <2>2, <2>3, <2>4 DEF AnswerInv, OfProcedures, Responses
<1>3. CASE Read
  <2>0. /\ operation = "none" /\ Issue("read") /\ operation' = "read"
        /\ onReadDone' = current' /\ UNCHANGED <<onOperationDone, readLong>>
      BY <1>3 DEF Read
  <2>1. "read" \in Operation
      BY DEF Operation, Reads
  <2>2. /\ kind' \in Seq(Operation) /\ Last' = Last + 1 /\ Last \in Nat /\ Last' \in Procedure /\ Last' # None
        /\ kind'[Last'] = "read" /\ \A p \in 1 .. Last : kind'[p] = kind[p]
        /\ \A p \in 1 .. Last' : p \in 1 .. Last \/ p = Last'
        /\ current' = Last' /\ responses' = 0
        /\ UNCHANGED <<connected, maxAttMtu, toConfirm, linked, events, indicating,
                       ended, sent, outcome, misread>>
        /\ connected /\ linked /\ onReadDone = None /\ onOperationDone = None
        /\ ~reading /\ ~readLongOverflowed
        /\ \A type : Queued(type)' <=> Queued(type)
        /\ \A type \in OfProcedures : ~Queued(type)
        /\ ended[Last'] = "running" /\ sent[Last'] = 0 /\ outcome[Last'] = NoOutcome
      BY <1>1, <2>0, <2>1, IssueIs
  <2>3. \A i \in 1 .. Len(events) : events[i].type \notin OfProcedures
      BY <2>2 DEF Queued
  <2>4. maxAttMtu <= Last' /\ ~(responses' > 0)
      BY <1>1, <2>2 DEF AnswerInv, Types, ClientTypes, Number, Procedure, None
  <2> QED BY <1>1, <2>2, <2>3, <2>4 DEF AnswerInv, OfProcedures, Responses
<1>4. CASE ReadLong
  <2>0. /\ operation = "none" /\ Issue("readLong") /\ operation' = "readLong"
        /\ onReadDone' = current' /\ UNCHANGED onOperationDone
        /\ value' = <<>> /\ reading' = TRUE /\ readLongOverflowed' = FALSE
      BY <1>4 DEF ReadLong
  <2>1. "readLong" \in Operation
      BY DEF Operation, Reads
  <2>2. /\ kind' \in Seq(Operation) /\ Last' = Last + 1 /\ Last \in Nat /\ Last' \in Procedure /\ Last' # None
        /\ kind'[Last'] = "readLong" /\ \A p \in 1 .. Last : kind'[p] = kind[p]
        /\ \A p \in 1 .. Last' : p \in 1 .. Last \/ p = Last'
        /\ current' = Last' /\ responses' = 0
        /\ UNCHANGED <<connected, maxAttMtu, toConfirm, linked, events, indicating,
                       ended, sent, outcome, misread>>
        /\ connected /\ linked /\ onReadDone = None /\ onOperationDone = None
        /\ ~reading /\ ~readLongOverflowed
        /\ \A type : Queued(type)' <=> Queued(type)
        /\ \A type \in OfProcedures : ~Queued(type)
        /\ ended[Last'] = "running" /\ sent[Last'] = 0 /\ outcome[Last'] = NoOutcome
      BY <1>1, <2>0, <2>1, IssueIs
  <2>3. \A i \in 1 .. Len(events) : events[i].type \notin OfProcedures
      BY <2>2 DEF Queued
  <2>4. maxAttMtu <= Last' /\ ~(responses' > 0)
      BY <1>1, <2>2 DEF AnswerInv, Types, ClientTypes, Number, Procedure, None
  <2> QED BY <1>1, <2>2, <2>3, <2>4 DEF AnswerInv, OfProcedures, Responses
<1>5. CASE ConfirmIndication
  <2>1. UNCHANGED <<connected, operation, callbacks, readLong, maxAttMtu,
                    linked, events, current, responses, history>>
      BY <1>5 DEF ConfirmIndication
  <2>2. \A type : Queued(type)' <=> Queued(type)
      BY <2>1 DEF Queued
  <2>4. UNCHANGED Last
      BY <2>1 DEF Last, history
  <2> QED BY <1>1, <2>1, <2>2, <2>4 DEF client, callbacks, readLong, history, AnswerInv
<1>6. CASE MtuExchanged
  <2>1. Handle("mtu") /\ events \in Seq(Event) /\ UNCHANGED kind
      BY <1>1, <1>6 DEF MtuExchanged, history, Types
  <2>2. /\ Head(events) \in Event /\ Len(events) \in Nat /\ 1 \in 1 .. Len(events)
        /\ Len(events') = Len(events) - 1 /\ Head(events) = events[1] /\ events[1].type = "mtu"
        /\ \A i \in 1 .. Len(events') : i + 1 \in 1 .. Len(events) /\ events'[i] = events[i + 1]
        /\ \A one : Queued(one) <=> one = "mtu" \/ Queued(one)'
      BY <2>1, HandleIs
  <2>3. /\ QueueInv'
        /\ "mtu" \in OfProcedures => Head(events).of = Last /\ Last # None
        /\ "mtu" = "procedureComplete" => \A one \in OfProcedures : ~Queued(one)'
        /\ "mtu" = "disconnected" => \A one : ~Queued(one)'
      BY <1>1, <2>1, HandleQueue
  <2>4. UNCHANGED Last /\ UNCHANGED <<linked, current, responses>>
      BY <2>1 DEF Handle, Last
  <2>5. \A i \in 1 .. Len(events') :
            /\ events'[i].type = "procedureComplete" => events[i + 1].type = "procedureComplete"
            /\ events'[i].type = "readResponse" => events[i + 1].type = "readResponse"
      BY <2>2
  <2>6. maxAttMtu' = Last /\ Last <= Last
      BY <2>3, <1>6, LenProperties, <1>1 DEF MtuExchanged, OfProcedures, Last, Types, HistoryTypes
  <2>7. UNCHANGED <<operation, ended, sent>>
      BY <1>6 DEF MtuExchanged, history
  <2> QED BY <1>1, <2>1, <2>2, <2>4, <2>5, <2>6, <2>7 DEF AnswerInv
<1>7. CASE Discovered
  <2>1. Handle("items") /\ events \in Seq(Event) /\ UNCHANGED kind
      BY <1>1, <1>7 DEF Discovered, history, Types
  <2>2. /\ Head(events) \in Event /\ Len(events) \in Nat /\ 1 \in 1 .. Len(events)
        /\ Len(events') = Len(events) - 1 /\ Head(events) = events[1] /\ events[1].type = "items"
        /\ \A i \in 1 .. Len(events') : i + 1 \in 1 .. Len(events) /\ events'[i] = events[i + 1]
        /\ \A one : Queued(one) <=> one = "items" \/ Queued(one)'
      BY <2>1, HandleIs
  <2>3. /\ QueueInv'
        /\ "items" \in OfProcedures => Head(events).of = Last /\ Last # None
        /\ "items" = "procedureComplete" => \A one \in OfProcedures : ~Queued(one)'
        /\ "items" = "disconnected" => \A one : ~Queued(one)'
      BY <1>1, <2>1, HandleQueue
  <2>4. UNCHANGED Last /\ UNCHANGED <<linked, current, responses>>
      BY <2>1 DEF Handle, Last
  <2>5. \A i \in 1 .. Len(events') :
            /\ events'[i].type = "procedureComplete" => events[i + 1].type = "procedureComplete"
            /\ events'[i].type = "readResponse" => events[i + 1].type = "readResponse"
      BY <2>2
  <2>6. UNCHANGED <<operation, ended, sent, maxAttMtu>>
      BY <1>7 DEF Discovered, client, history
  <2> QED BY <1>1, <2>1, <2>2, <2>4, <2>5, <2>6 DEF AnswerInv
<1>8. CASE ReadResponse
  <2>1. Handle("readResponse") /\ events \in Seq(Event) /\ UNCHANGED kind
      BY <1>1, <1>8 DEF ReadResponse, history, Types
  <2>2. /\ Head(events) \in Event /\ Len(events) \in Nat /\ 1 \in 1 .. Len(events)
        /\ Len(events') = Len(events) - 1 /\ Head(events) = events[1] /\ events[1].type = "readResponse"
        /\ \A i \in 1 .. Len(events') : i + 1 \in 1 .. Len(events) /\ events'[i] = events[i + 1]
        /\ \A one : Queued(one) <=> one = "readResponse" \/ Queued(one)'
      BY <2>1, HandleIs
  <2>3. /\ QueueInv'
        /\ "readResponse" \in OfProcedures => Head(events).of = Last /\ Last # None
        /\ "readResponse" = "procedureComplete" => \A one \in OfProcedures : ~Queued(one)'
        /\ "readResponse" = "disconnected" => \A one : ~Queued(one)'
      BY <1>1, <2>1, HandleQueue
  <2>4. UNCHANGED Last /\ UNCHANGED <<linked, current, responses>>
      BY <2>1 DEF Handle, Last
  <2>5. \A i \in 1 .. Len(events') :
            /\ events'[i].type = "procedureComplete" => events[i + 1].type = "procedureComplete"
            /\ events'[i].type = "readResponse" => events[i + 1].type = "readResponse"
      BY <2>2
  <2>6. operation' # "read"
    <3>1. CASE operation = "read"
        BY <3>1, <1>8 DEF ReadResponse
    <3>2. CASE operation # "read"
        BY <3>2, <1>8 DEF ReadResponse
    <3> QED BY <3>1, <3>2
  <2>7. UNCHANGED <<ended, sent, maxAttMtu>>
      BY <1>8 DEF ReadResponse
  <2> QED BY <1>1, <2>1, <2>2, <2>4, <2>5, <2>6, <2>7 DEF AnswerInv
<1>9. CASE ReadBlobResponse
  <2>1. Handle("readBlobResponse") /\ events \in Seq(Event) /\ UNCHANGED kind
      BY <1>1, <1>9 DEF ReadBlobResponse, history, Types
  <2>2. /\ Head(events) \in Event /\ Len(events) \in Nat /\ 1 \in 1 .. Len(events)
        /\ Len(events') = Len(events) - 1 /\ Head(events) = events[1] /\ events[1].type = "readBlobResponse"
        /\ \A i \in 1 .. Len(events') : i + 1 \in 1 .. Len(events) /\ events'[i] = events[i + 1]
        /\ \A one : Queued(one) <=> one = "readBlobResponse" \/ Queued(one)'
      BY <2>1, HandleIs
  <2>3. /\ QueueInv'
        /\ "readBlobResponse" \in OfProcedures => Head(events).of = Last /\ Last # None
        /\ "readBlobResponse" = "procedureComplete" => \A one \in OfProcedures : ~Queued(one)'
        /\ "readBlobResponse" = "disconnected" => \A one : ~Queued(one)'
      BY <1>1, <2>1, HandleQueue
  <2>4. UNCHANGED Last /\ UNCHANGED <<linked, current, responses>>
      BY <2>1 DEF Handle, Last
  <2>5. \A i \in 1 .. Len(events') :
            /\ events'[i].type = "procedureComplete" => events[i + 1].type = "procedureComplete"
            /\ events'[i].type = "readResponse" => events[i + 1].type = "readResponse"
      BY <2>2
  <2>6. UNCHANGED <<operation, ended, sent, maxAttMtu>>
      BY <1>9 DEF ReadBlobResponse, client, history
  <2> QED BY <1>1, <2>1, <2>2, <2>4, <2>5, <2>6 DEF AnswerInv
<1>10. CASE ProcedureComplete
  <2>1. Handle("procedureComplete") /\ events \in Seq(Event) /\ UNCHANGED kind
      BY <1>1, <1>10 DEF ProcedureComplete, history, Types
  <2>2. /\ Head(events) \in Event /\ Len(events) \in Nat /\ 1 \in 1 .. Len(events)
        /\ Len(events') = Len(events) - 1 /\ Head(events) = events[1] /\ events[1].type = "procedureComplete"
        /\ \A i \in 1 .. Len(events') : i + 1 \in 1 .. Len(events) /\ events'[i] = events[i + 1]
        /\ \A one : Queued(one) <=> one = "procedureComplete" \/ Queued(one)'
      BY <2>1, HandleIs
  <2>3. /\ QueueInv'
        /\ "procedureComplete" \in OfProcedures => Head(events).of = Last /\ Last # None
        /\ "procedureComplete" = "procedureComplete" => \A one \in OfProcedures : ~Queued(one)'
        /\ "procedureComplete" = "disconnected" => \A one : ~Queued(one)'
      BY <1>1, <2>1, HandleQueue
  <2>4. UNCHANGED Last /\ UNCHANGED <<linked, current, responses>>
      BY <2>1 DEF Handle, Last
  <2>5. \A i \in 1 .. Len(events') :
            /\ events'[i].type = "procedureComplete" => events[i + 1].type = "procedureComplete"
            /\ events'[i].type = "readResponse" => events[i + 1].type = "readResponse"
      BY <2>2
  <2>6. operation' # "read"
      BY <1>10 DEF ProcedureComplete
  <2>7. UNCHANGED <<ended, sent, maxAttMtu>>
      BY <1>10 DEF ProcedureComplete
  <2> QED BY <1>1, <2>1, <2>2, <2>4, <2>5, <2>6, <2>7 DEF AnswerInv
<1>11. CASE IndicationReceived
  <2>1. Handle("indication") /\ events \in Seq(Event) /\ UNCHANGED kind
      BY <1>1, <1>11 DEF IndicationReceived, history, Types
  <2>2. /\ Head(events) \in Event /\ Len(events) \in Nat /\ 1 \in 1 .. Len(events)
        /\ Len(events') = Len(events) - 1 /\ Head(events) = events[1] /\ events[1].type = "indication"
        /\ \A i \in 1 .. Len(events') : i + 1 \in 1 .. Len(events) /\ events'[i] = events[i + 1]
        /\ \A one : Queued(one) <=> one = "indication" \/ Queued(one)'
      BY <2>1, HandleIs
  <2>3. /\ QueueInv'
        /\ "indication" \in OfProcedures => Head(events).of = Last /\ Last # None
        /\ "indication" = "procedureComplete" => \A one \in OfProcedures : ~Queued(one)'
        /\ "indication" = "disconnected" => \A one : ~Queued(one)'
      BY <1>1, <2>1, HandleQueue
  <2>4. UNCHANGED Last /\ UNCHANGED <<linked, current, responses>>
      BY <2>1 DEF Handle, Last
  <2>5. \A i \in 1 .. Len(events') :
            /\ events'[i].type = "procedureComplete" => events[i + 1].type = "procedureComplete"
            /\ events'[i].type = "readResponse" => events[i + 1].type = "readResponse"
      BY <2>2
  <2>6. UNCHANGED <<operation, ended, sent, maxAttMtu>>
      BY <1>11 DEF IndicationReceived, client, history
  <2> QED BY <1>1, <2>1, <2>2, <2>4, <2>5, <2>6 DEF AnswerInv
<1>12. CASE Released
  <2>1. Handle("disconnected") /\ events \in Seq(Event) /\ UNCHANGED kind
      BY <1>1, <1>12 DEF Released, history, Types
  <2>2. /\ Head(events) \in Event /\ Len(events) \in Nat /\ 1 \in 1 .. Len(events)
        /\ Len(events') = Len(events) - 1 /\ Head(events) = events[1] /\ events[1].type = "disconnected"
        /\ \A i \in 1 .. Len(events') : i + 1 \in 1 .. Len(events) /\ events'[i] = events[i + 1]
        /\ \A one : Queued(one) <=> one = "disconnected" \/ Queued(one)'
      BY <2>1, HandleIs
  <2>3. /\ QueueInv'
        /\ "disconnected" \in OfProcedures => Head(events).of = Last /\ Last # None
        /\ "disconnected" = "procedureComplete" => \A one \in OfProcedures : ~Queued(one)'
        /\ "disconnected" = "disconnected" => \A one : ~Queued(one)'
      BY <1>1, <2>1, HandleQueue
  <2>4. UNCHANGED Last /\ UNCHANGED <<linked, current, responses>>
      BY <2>1 DEF Handle, Last
  <2>5. \A i \in 1 .. Len(events') :
            /\ events'[i].type = "procedureComplete" => events[i + 1].type = "procedureComplete"
            /\ events'[i].type = "readResponse" => events[i + 1].type = "readResponse"
      BY <2>2
  <2>6. operation' # "read"
      BY <1>12 DEF Released
  <2>7. UNCHANGED <<ended, sent, maxAttMtu>>
      BY <1>12 DEF Released
  <2> QED BY <1>1, <2>1, <2>2, <2>4, <2>5, <2>6, <2>7 DEF AnswerInv
<1>13. CASE Responds
  <2>0. Responds
      BY <1>13
  <2>1. /\ linked /\ current # None /\ current = Last /\ Last \in Procedure
        /\ responses' = responses + 1 /\ responses \in Nat /\ responses' \in 0 .. MaxResponses
        /\ kind[Last] \in {"exchangeMtu", "read"} => responses = 0
        /\ ~Queued("procedureComplete") /\ ~Queued("disconnected")
        /\ UNCHANGED <<client, linked, current, indicating, kind, ended, outcome, misread>>
      BY <1>1, <2>0, RespondsIs
  <2>2. PICK one \in Event :
          /\ events' = Append(events, one) /\ one.of = Last
          /\ one.type \in OfProcedures \ {"procedureComplete"}
          /\ kind[Last] = "exchangeMtu" <=> one.type = "mtu"
          /\ kind[Last] \in Discoveries <=> one.type = "items"
          /\ one.type \in Responses =>
                /\ one.type = "readResponse" <=> responses = 0
                /\ sent' = [sent EXCEPT ![Last] = @ + Len(one.bytes)]
                /\ \A k \in 1 .. Len(one.bytes) : one.bytes[k] = sent[Last] + k
          /\ one.type \notin Responses => UNCHANGED sent
      BY <1>1, <2>0, RespondsIs
  <2>3. /\ Len(events) \in Nat /\ Len(events') = Len(events) + 1
        /\ \A i \in 1 .. Len(events) : i \in 1 .. Len(events') /\ events'[i] = events[i]
        /\ events'[Len(events')] = one /\ Len(events') \in 1 .. Len(events')
        /\ \A i \in 1 .. Len(events') : i \in 1 .. Len(events) \/ i = Len(events')
        /\ \A type : Queued(type)' <=> Queued(type) \/ type = one.type
      BY <1>1, <2>2, AppendIs DEF Types
  <2>4. UNCHANGED Last
      BY <2>1 DEF Last
  <2>5. responses' > 0 /\ responses' # 0
      BY <2>1
  <2>6. Last # None /\ sent[Last] \in Nat /\ ended[Last] = "running"
      BY <1>1, <2>1 DEF StackInv, Types, HistoryTypes
  <2>7. kind[Last] = "read" /\ one.type = "readResponse" => sent'[Last] = Len(one.bytes)
    <3>1. one \in Event /\ Len(one.bytes) \in Nat
        BY LenProperties DEF Event
    <3>2. one.type = "readResponse" => sent'[Last] = sent[Last] + Len(one.bytes)
        BY <1>1, <2>1, <2>2 DEF Types, HistoryTypes, Responses
    <3>3. kind[Last] = "read" => sent[Last] = 0
        BY <1>1, <2>1, <2>6 DEF AnswerInv
    <3> QED BY <3>1, <3>2, <3>3
  <2>8. kind[Last] = "read" => one.type = "readResponse" /\ \A i \in 1 .. Len(events) : events[i].type # "readResponse"
    <3>1. kind[Last] = "read" => one.type \in Responses /\ responses = 0
        BY <2>1, <2>2 DEF OfProcedures, Responses, Discoveries
    <3>2. responses = 0 => \A i \in 1 .. Len(events) : events[i].type # "readResponse"
        BY <1>1, <2>1, <2>6 DEF AnswerInv
    <3> QED BY <2>2, <3>1, <3>2
  <2>9. \A i \in 1 .. Len(events') :
          /\ events'[i].type # "procedureComplete"
          /\ events'[i].type = "readResponse" /\ kind[Last] = "read" => Len(events'[i].bytes) = sent'[Last]
    <3>1. \A i \in 1 .. Len(events) : events[i].type # "procedureComplete"
        BY <2>1 DEF Queued
    <3> QED BY <2>2, <2>3, <2>7, <2>8, <3>1
  <2>10. operation = "read" => kind[Last] = "read"
      BY <1>1 DEF ClientInv
  <2> QED BY <1>1, <2>1, <2>2, <2>3, <2>4, <2>5, <2>6, <2>8, <2>9, <2>10 DEF client, AnswerInv
<1>14. ASSUME NEW result \in {"success", "error"}, Ends(result)
      PROVE  AnswerInv'
  <2>1. /\ linked /\ current # None /\ current = Last /\ Last \in Procedure
        /\ current' = None /\ ended' = [ended EXCEPT ![Last] = result]
        /\ result = "success" /\ kind[Last] \in Reads \cup {"exchangeMtu"} => responses > 0
        /\ result = "error" /\ kind[Last] = "read" => responses = 0
        /\ ~Queued("procedureComplete") /\ ~Queued("disconnected")
        /\ UNCHANGED <<client, linked, responses, indicating, kind, sent, outcome, misread>>
      BY <1>1, <1>14, EndsIs
  <2>2. PICK one \in Event : /\ events' = Append(events, one) /\ one.of = Last
                            /\ one.type = "procedureComplete" /\ one.result = result
      BY <1>1, <1>14, EndsIs
  <2>3. /\ Len(events) \in Nat /\ Len(events') = Len(events) + 1
        /\ \A i \in 1 .. Len(events) : i \in 1 .. Len(events') /\ events'[i] = events[i]
        /\ events'[Len(events')] = one /\ Len(events') \in 1 .. Len(events')
        /\ \A i \in 1 .. Len(events') : i \in 1 .. Len(events) \/ i = Len(events')
        /\ \A type : Queued(type)' <=> Queued(type) \/ type = one.type
      BY <1>1, <2>2, AppendIs DEF Types
  <2>4. UNCHANGED Last
      BY <2>1 DEF Last
  <2>5. ended'[Last] = result /\ Last # None
      BY <1>1, <2>1 DEF Types, HistoryTypes
  <2>6. \A i \in 1 .. Len(events') : events'[i].type = "procedureComplete" => events'[i].result = result
    <3>1. \A i \in 1 .. Len(events) : events[i].type # "procedureComplete"
        BY <2>1 DEF Queued
    <3> QED BY <2>2, <2>3, <3>1
  <2>7. \A i \in 1 .. Len(events') : events'[i].type = "readResponse" => i \in 1 .. Len(events) /\ events'[i] = events[i]
      BY <2>2, <2>3
  <2> QED BY <1>1, <2>1, <2>2, <2>3, <2>4, <2>5, <2>6, <2>7 DEF client, AnswerInv
<1>15. CASE Indicates
  <2>1. /\ linked /\ ~Queued("disconnected") /\ UNCHANGED <<client, responses, kind, ended, sent,
           outcome, misread>>
        /\ UNCHANGED <<linked, current>>
      BY <1>1, <1>15, NoticeIs DEF history
  <2>2. PICK one \in Event : events' = Append(events, one) /\ one.type \in {"indication"}
      BY <1>1, <1>15, NoticeIs DEF Indicates
  <2>3. /\ Len(events) \in Nat /\ Len(events') = Len(events) + 1
        /\ \A i \in 1 .. Len(events) : i \in 1 .. Len(events') /\ events'[i] = events[i]
        /\ events'[Len(events')] = one /\ Len(events') \in 1 .. Len(events')
        /\ \A i \in 1 .. Len(events') : i \in 1 .. Len(events) \/ i = Len(events')
        /\ \A type : Queued(type)' <=> Queued(type) \/ type = one.type
      BY <1>1, <2>2, AppendIs DEF Types
  <2>4. UNCHANGED Last
      BY <2>1 DEF Last
  <2>5. \A i \in 1 .. Len(events') : events'[i].type \in {"procedureComplete", "readResponse"} =>
          i \in 1 .. Len(events) /\ events'[i] = events[i]
      BY <2>2, <2>3
  <2> QED BY <1>1, <2>1, <2>2, <2>3, <2>4, <2>5 DEF client, AnswerInv
<1>16. CASE Disconnects
  <2>1. /\ linked /\ ~Queued("disconnected") /\ UNCHANGED <<client, responses, kind, ended, sent,
           outcome, misread>>
        /\ linked' = FALSE /\ current' = None
      BY <1>1, <1>16, NoticeIs DEF history
  <2>2. PICK one \in Event : events' = Append(events, one) /\ one.type \in {"indication",
        "disconnected"}
      BY <1>1, <1>16, NoticeIs DEF Disconnects
  <2>3. /\ Len(events) \in Nat /\ Len(events') = Len(events) + 1
        /\ \A i \in 1 .. Len(events) : i \in 1 .. Len(events') /\ events'[i] = events[i]
        /\ events'[Len(events')] = one /\ Len(events') \in 1 .. Len(events')
        /\ \A i \in 1 .. Len(events') : i \in 1 .. Len(events) \/ i = Len(events')
        /\ \A type : Queued(type)' <=> Queued(type) \/ type = one.type
      BY <1>1, <2>2, AppendIs DEF Types
  <2>4. UNCHANGED Last
      BY <2>1 DEF Last
  <2>5. \A i \in 1 .. Len(events') : events'[i].type \in {"procedureComplete", "readResponse"} =>
          i \in 1 .. Len(events) /\ events'[i] = events[i]
      BY <2>2, <2>3
  <2> QED BY <1>1, <2>1, <2>2, <2>3, <2>4, <2>5 DEF client, AnswerInv
<1>17. CASE UNCHANGED vars
  <2>1. UNCHANGED Last /\ \A type : Queued(type)' <=> Queued(type)
      BY <1>17 DEF vars, stack, history, Last, Queued
  <2> QED BY <1>1, <2>1, <1>17 DEF vars, client, stack, history, AnswerInv
<1> QED BY <1>2, <1>3, <1>4, <1>5, <1>6, <1>7, <1>8, <1>9, <1>10, <1>11, <1>12, <1>13, <1>14,
           <1>15, <1>16, <1>17 DEF Next, Dispatch, StackEnds

(* The bytes of a value go on as they came when an event is handled ...    *)
LEMMA CarriesHandled ==
    ASSUME Types, NEW type, Handle(type), NEW f \in [1 .. Len(events) + 1 -> Nat], Carries(f),
           UNCHANGED <<kind, sent>>,
           readLongOverflowed' => Len(value') = Room /\ f[2] > Room,
           ~readLongOverflowed' => Len(value') = f[2]
    PROVE  \E g \in [1 .. Len(events') + 1 -> Nat] : Carries(g)'
<1>1. /\ Len(events) \in Nat /\ 1 \in 1 .. Len(events) /\ Len(events') = Len(events) - 1
      /\ \A i \in 1 .. Len(events') : i + 1 \in 1 .. Len(events) /\ events'[i] = events[i + 1]
    BY HandleIs DEF Types
<1>2. Len(events') + 1 = Len(events) /\ \A i \in 1 .. Len(events) : i + 1 \in 1 .. Len(events) + 1
    BY <1>1
<1>3. PICK g \in [1 .. Len(events') + 1 -> Nat] : \A i \in 1 .. Len(events) : g[i] = f[i + 1]
  <2> DEFINE g == [i \in 1 .. Len(events) |-> f[i + 1]]
  <2>1. g \in [1 .. Len(events') + 1 -> Nat] /\ \A i \in 1 .. Len(events) : g[i] = f[i + 1]
      BY <1>2
  <2> QED BY <2>1
<1>4. g[1] = f[2] /\ g[Len(events') + 1] = f[Len(events) + 1]
    BY <1>1, <1>2, <1>3
<1>5. \A i \in 1 .. Len(events') : /\ i \in 1 .. Len(events) /\ i + 1 \in 1 .. Len(events)
                                   /\ g[i] = f[i + 1] /\ g[i + 1] = f[i + 1 + 1]
  <2>1. \A i \in 1 .. Len(events') : i \in 1 .. Len(events)
      BY <1>1
  <2> QED BY <1>1, <1>3, <2>1
<1>6. UNCHANGED Last /\ sent'[Last'] = sent[Last]
    BY DEF Last
<1>7. Carries(g)'
  <2>1. \A i \in 1 .. Len(events') :
          /\ events'[i].type \in Responses =>
                /\ g[i + 1] = g[i] + Len(events'[i].bytes)
                /\ \A k \in 1 .. Len(events'[i].bytes) : events'[i].bytes[k] = g[i] + k
          /\ events'[i].type \notin Responses => g[i + 1] = g[i]
          /\ events'[i].type = "procedureComplete" => g[i] = sent[Last]
    <3>1. SUFFICES ASSUME NEW i \in 1 .. Len(events')
                   PROVE  /\ events'[i].type \in Responses =>
                               /\ g[i + 1] = g[i] + Len(events'[i].bytes)
                               /\ \A k \in 1 .. Len(events'[i].bytes) : events'[i].bytes[k] = g[i] + k
                          /\ events'[i].type \notin Responses => g[i + 1] = g[i]
                          /\ events'[i].type = "procedureComplete" => g[i] = sent[Last]
        OBVIOUS
    <3>2. i + 1 \in 1 .. Len(events) /\ events'[i] = events[i + 1] /\ g[i] = f[i + 1] /\ g[i + 1] = f[i + 1 + 1]
        BY <1>1, <1>5
    <3>3. /\ events[i + 1].type \in Responses =>
                /\ f[i + 1 + 1] = f[i + 1] + Len(events[i + 1].bytes)
                /\ \A k \in 1 .. Len(events[i + 1].bytes) : events[i + 1].bytes[k] = f[i + 1] + k
          /\ events[i + 1].type \notin Responses => f[i + 1 + 1] = f[i + 1]
          /\ events[i + 1].type = "procedureComplete" => f[i + 1] = sent[Last]
        BY <3>2 DEF Carries
    <3> QED BY <3>2, <3>3
  <2>2. g[Len(events') + 1] = sent'[Last']
      BY <1>4, <1>6 DEF Carries
  <2> QED BY <1>4, <1>6, <2>1, <2>2 DEF Carries
<1> QED BY <1>3, <1>7

(* ... and when one is reported.                                           *)
LEMMA CarriesReported ==
    ASSUME Types, NEW one \in Event, events' = Append(events, one),
           NEW f \in [1 .. Len(events) + 1 -> Nat], Carries(f),
           UNCHANGED <<kind, value, readLongOverflowed>>,
           one.type \in Responses =>
              /\ ~Queued("procedureComplete") /\ sent'[Last] = sent[Last] + Len(one.bytes)
              /\ \A k \in 1 .. Len(one.bytes) : one.bytes[k] = sent[Last] + k,
           one.type \notin Responses => sent'[Last] = sent[Last]
    PROVE  \E g \in [1 .. Len(events') + 1 -> Nat] : Carries(g)'
<1>1. /\ Len(events) \in Nat /\ Len(events') = Len(events) + 1
      /\ \A i \in 1 .. Len(events) : i \in 1 .. Len(events') /\ events'[i] = events[i]
      /\ events'[Len(events')] = one
      /\ \A i \in 1 .. Len(events') : i \in 1 .. Len(events) \/ i = Len(events')
    BY AppendIs DEF Types
<1>2. Len(one.bytes) \in Nat
    BY LenProperties DEF Event
<1>3. f[Len(events) + 1] = sent[Last] /\ f[Len(events) + 1] \in Nat
    BY <1>1 DEF Carries
<1>4. sent'[Last] \in Nat /\ UNCHANGED Last
    BY <1>2, <1>3 DEF Last
<1>5. PICK g \in [1 .. Len(events') + 1 -> Nat] :
        g[Len(events') + 1] = sent'[Last] /\ \A i \in 1 .. Len(events') : g[i] = f[i]
  <2> DEFINE g == [i \in 1 .. Len(events') + 1 |-> IF i = Len(events') + 1 THEN sent'[Last] ELSE f[i]]
  <2>1. \A i \in 1 .. Len(events') + 1 : i = Len(events') + 1 \/ i \in 1 .. Len(events) + 1
      BY <1>1
  <2>2. \A i \in 1 .. Len(events') : i \in 1 .. Len(events') + 1 /\ i # Len(events') + 1
      BY <1>1
  <2>3. Len(events') + 1 \in 1 .. Len(events') + 1
      BY <1>1
  <2>4. /\ g \in [1 .. Len(events') + 1 -> Nat]
        /\ g[Len(events') + 1] = sent'[Last] /\ \A i \in 1 .. Len(events') : g[i] = f[i]
      BY <1>4, <2>1, <2>2, <2>3
  <2> QED BY <2>4
<1>6. \A i \in 1 .. Len(events) : i + 1 \in 1 .. Len(events') /\ g[i] = f[i] /\ g[i + 1] = f[i + 1]
    BY <1>1, <1>5
<1>7. 1 \in 1 .. Len(events') /\ Len(events') \in 1 .. Len(events') /\ g[1] = f[1] /\ g[Len(events')] = sent[Last]
    BY <1>1, <1>3, <1>5
<1>8. ASSUME NEW i \in 1 .. Len(events')
      PROVE  /\ events'[i].type \in Responses =>
                  /\ g[i + 1] = g[i] + Len(events'[i].bytes)
                  /\ \A k \in 1 .. Len(events'[i].bytes) : events'[i].bytes[k] = g[i] + k
             /\ events'[i].type \notin Responses => g[i + 1] = g[i]
             /\ events'[i].type = "procedureComplete" => g[i] = sent'[Last]
  <2>1. CASE i \in 1 .. Len(events)
    <3>1. events'[i] = events[i] /\ g[i] = f[i] /\ g[i + 1] = f[i + 1]
        BY <1>1, <1>6, <2>1
    <3>2. events[i].type = "procedureComplete" => sent'[Last] = sent[Last]
        BY <2>1 DEF Queued
    <3> QED BY <2>1, <3>1, <3>2 DEF Carries
  <2>2. CASE i = Len(events')
    <3>1. "procedureComplete" \notin Responses
        BY DEF Responses
    <3> QED BY <1>1, <1>5, <1>7, <2>2, <3>1
  <2> QED BY <1>1, <2>1, <2>2
<1>9. Carries(g)'
    BY <1>4, <1>5, <1>7, <1>8 DEF Carries
<1> QED BY <1>5, <1>9

(* Every step keeps account of the bytes of a long value. *)
LEMMA ReadLongStep ==
    ASSUME Inv, FreesWhenHandled, [Next]_vars
    PROVE  ReadLongInv'
<1>1. /\ Types /\ QueueInv /\ StackInv /\ ClientInv /\ AnswerInv
      /\ ReadLongInv /\ ValueInv /\ OutcomeInv /\ ReadAsAsked
    BY DEF Inv
<1>2. ASSUME NEW operationKind \in Operation \ Reads, Start(operationKind)
      PROVE  ReadLongInv'
  <2>1. operation' = operationKind /\ operationKind # "readLong"
      BY <1>2 DEF Start, Reads
  <2> QED BY <2>1 DEF ReadLongInv
<1>3. CASE Read
  <2>1. operation' = "read" /\ "read" # "readLong"
      BY <1>3 DEF Read, Reads
  <2> QED BY <2>1 DEF ReadLongInv
<1>4. CASE ReadLong
  <2>0. /\ operation = "none" /\ Issue("readLong") /\ operation' = "readLong"
        /\ onReadDone' = current' /\ UNCHANGED onOperationDone
        /\ value' = <<>> /\ reading' = TRUE /\ readLongOverflowed' = FALSE
      BY <1>4 DEF ReadLong
  <2>1. "readLong" \in Operation
      BY DEF Operation, Reads
  <2>2. /\ kind' \in Seq(Operation) /\ Last' = Last + 1 /\ Last \in Nat /\ Last' \in Procedure /\ Last' # None
        /\ kind'[Last'] = "readLong" /\ \A p \in 1 .. Last : kind'[p] = kind[p]
        /\ \A p \in 1 .. Last' : p \in 1 .. Last \/ p = Last'
        /\ current' = Last' /\ responses' = 0
        /\ UNCHANGED <<connected, maxAttMtu, toConfirm, linked, events, indicating,
                       ended, sent, outcome, misread>>
        /\ connected /\ linked /\ onReadDone = None /\ onOperationDone = None
        /\ ~reading /\ ~readLongOverflowed
        /\ \A type : Queued(type)' <=> Queued(type)
        /\ \A type \in OfProcedures : ~Queued(type)
        /\ ended[Last'] = "running" /\ sent[Last'] = 0 /\ outcome[Last'] = NoOutcome
      BY <1>1, <2>0, <2>1, IssueIs
  <2>3. \A i \in 1 .. Len(events) : events[i].type \notin OfProcedures
      BY <2>2 DEF Queued
  <2>4. \A type : type \notin OfProcedures => type \notin Responses /\ type # "procedureComplete"
      BY DEF OfProcedures
  <2>5. Len(events) \in Nat /\ Len(<<>>) = 0
      BY <1>1, LenProperties DEF Types
  <2>6. PICK f \in [1 .. Len(events) + 1 -> Nat] :
          /\ f[1] = 0 /\ f[Len(events) + 1] = 0
          /\ \A i \in 1 .. Len(events) : f[i] = 0 /\ f[i + 1] = 0
    <3> DEFINE f == [i \in 1 .. Len(events) + 1 |-> 0]
    <3>1. /\ f \in [1 .. Len(events) + 1 -> Nat] /\ f[1] = 0 /\ f[Len(events) + 1] = 0
          /\ \A i \in 1 .. Len(events) : f[i] = 0 /\ f[i + 1] = 0
        BY <2>5
    <3> QED BY <3>1
  <2>7. Carries(f)'
      BY <2>0, <2>2, <2>3, <2>4, <2>5, <2>6 DEF Carries
  <2> QED BY <2>2, <2>6, <2>7 DEF ReadLongInv
<1>5. CASE ConfirmIndication
  <2>1. UNCHANGED <<operation, events, value, readLongOverflowed, kind, sent>>
      BY <1>5 DEF ConfirmIndication, readLong, history
  <2> QED BY <1>1, <2>1 DEF ReadLongInv, Carries, Last
<1>6. CASE MtuExchanged
  <2>1. SUFFICES ASSUME operation' = "readLong"
                 PROVE  \E f \in [1 .. Len(events') + 1 -> Nat] : Carries(f)'
      BY DEF ReadLongInv
  <2>2. operation = "readLong"
      BY <2>1, <1>6 DEF MtuExchanged
  <2>3. PICK f \in [1 .. Len(events) + 1 -> Nat] : Carries(f)
      BY <1>1, <2>2 DEF ReadLongInv
  <2>4. Handle("mtu") /\ UNCHANGED <<kind, sent>>
      BY <1>6 DEF MtuExchanged, history
  <2>5. /\ Head(events) \in Event /\ Len(events) \in Nat /\ 1 \in 1 .. Len(events)
        /\ Head(events) = events[1] /\ events[1].type = "mtu" /\ 1 + 1 = 2
      BY <1>1, <2>4, HandleIs DEF Types
  <2>6. f[2] = f[1]
      BY <2>3, <2>5 DEF Carries, Responses
  <2>7. UNCHANGED <<value, readLongOverflowed>>
      BY <1>6 DEF MtuExchanged, client, readLong
  <2> QED BY <1>1, <2>3, <2>4, <2>6, <2>7, CarriesHandled DEF Carries
<1>7. CASE Discovered
  <2>1. SUFFICES ASSUME operation' = "readLong"
                 PROVE  \E f \in [1 .. Len(events') + 1 -> Nat] : Carries(f)'
      BY DEF ReadLongInv
  <2>2. operation = "readLong"
      BY <2>1, <1>7 DEF Discovered, client
  <2>3. PICK f \in [1 .. Len(events) + 1 -> Nat] : Carries(f)
      BY <1>1, <2>2 DEF ReadLongInv
  <2>4. Handle("items") /\ UNCHANGED <<kind, sent>>
      BY <1>7 DEF Discovered, history
  <2>5. /\ Head(events) \in Event /\ Len(events) \in Nat /\ 1 \in 1 .. Len(events)
        /\ Head(events) = events[1] /\ events[1].type = "items" /\ 1 + 1 = 2
      BY <1>1, <2>4, HandleIs DEF Types
  <2>6. f[2] = f[1]
      BY <2>3, <2>5 DEF Carries, Responses
  <2>7. UNCHANGED <<value, readLongOverflowed>>
      BY <1>7 DEF Discovered, client, readLong
  <2> QED BY <1>1, <2>3, <2>4, <2>6, <2>7, CarriesHandled DEF Carries
<1>8. CASE ReadResponse
  <2>1. SUFFICES ASSUME operation' = "readLong"
                 PROVE  \E f \in [1 .. Len(events') + 1 -> Nat] : Carries(f)'
      BY DEF ReadLongInv
  <2>2. operation = "readLong"
    <3>1. operation # "read"
        BY <2>1, <1>8 DEF ReadResponse
    <3> QED BY <2>1, <3>1, <1>8 DEF ReadResponse
  <2>3. PICK f \in [1 .. Len(events) + 1 -> Nat] : Carries(f)
      BY <1>1, <2>2 DEF ReadLongInv
  <2>4. Handle("readResponse") /\ UNCHANGED <<kind, sent>>
      BY <1>8 DEF ReadResponse, history
  <2>5. /\ Head(events) \in Event /\ Len(events) \in Nat /\ 1 \in 1 .. Len(events)
        /\ Head(events) = events[1] /\ events[1].type = "readResponse" /\ 1 + 1 = 2
      BY <1>1, <2>4, HandleIs DEF Types
  <2>6. Accumulate(Head(events).bytes) /\ reading
      BY <1>1, <2>2, <1>8 DEF ReadResponse, ClientInv
  <2>7. Head(events).bytes \in Seq(Nat) /\ Len(Head(events).bytes) \in Nat
      BY <2>5, LenProperties DEF Event
  <2>8. f[1] \in Nat /\ f[2] \in Nat /\ f[2] = f[1] + Len(Head(events).bytes)
    <3>1. 1 \in 1 .. Len(events) + 1 /\ 2 \in 1 .. Len(events) + 1
        BY <2>5
    <3> QED BY <2>3, <2>5, <3>1 DEF Carries, Responses
  <2>9. /\ Len(value') = Len(value) + Kept(Head(events).bytes)
        /\ readLongOverflowed' <=> readLongOverflowed \/ TooMany(Head(events).bytes)
      BY <1>1, <2>6, <2>7, AccumulateIs DEF Types
  <2>10. Len(value) \in Nat /\ Len(value) <= Room /\ Room \in Nat
      BY <1>1, RoomAssumption, LenProperties DEF Types, ClientTypes
  <2>11. /\ readLongOverflowed' => Len(value') = Room /\ f[2] > Room
         /\ ~readLongOverflowed' => Len(value') = f[2]
    <3> DEFINE n == Len(Head(events).bytes)
    <3>1. /\ TooMany(Head(events).bytes) <=> Room - Len(value) < n
          /\ Room - Len(value) < n => Kept(Head(events).bytes) = Room - Len(value)
          /\ ~(Room - Len(value) < n) => Kept(Head(events).bytes) = n
        BY DEF Kept, TooMany
    <3> HIDE DEF n, Kept, TooMany
    <3>2. n \in Nat /\ f[2] = f[1] + n
        BY <2>7, <2>8 DEF n
    <3>3. CASE readLongOverflowed
      <4>1. Len(value) = Room /\ f[1] > Room
          BY <2>3, <3>3 DEF Carries
      <4> QED BY <2>8, <2>9, <2>10, <3>1, <3>2, <3>3, <4>1
    <3>4. CASE ~readLongOverflowed
      <4>1. Len(value) = f[1]
          BY <2>3, <3>4 DEF Carries
      <4> QED BY <2>8, <2>9, <2>10, <3>1, <3>2, <3>4, <4>1
    <3> QED BY <3>3, <3>4
  <2> QED BY <1>1, <2>3, <2>4, <2>11, CarriesHandled
<1>9. CASE ReadBlobResponse
  <2>1. SUFFICES ASSUME operation' = "readLong"
                 PROVE  \E f \in [1 .. Len(events') + 1 -> Nat] : Carries(f)'
      BY DEF ReadLongInv
  <2>2. operation = "readLong"
      BY <2>1, <1>9 DEF ReadBlobResponse
  <2>3. PICK f \in [1 .. Len(events) + 1 -> Nat] : Carries(f)
      BY <1>1, <2>2 DEF ReadLongInv
  <2>4. Handle("readBlobResponse") /\ UNCHANGED <<kind, sent>>
      BY <1>9 DEF ReadBlobResponse, history
  <2>5. /\ Head(events) \in Event /\ Len(events) \in Nat /\ 1 \in 1 .. Len(events)
        /\ Head(events) = events[1] /\ events[1].type = "readBlobResponse" /\ 1 + 1 = 2
      BY <1>1, <2>4, HandleIs DEF Types
  <2>6. Accumulate(Head(events).bytes) /\ reading
      BY <1>1, <2>2, <1>9 DEF ReadBlobResponse, ClientInv
  <2>7. Head(events).bytes \in Seq(Nat) /\ Len(Head(events).bytes) \in Nat
      BY <2>5, LenProperties DEF Event
  <2>8. f[1] \in Nat /\ f[2] \in Nat /\ f[2] = f[1] + Len(Head(events).bytes)
    <3>1. 1 \in 1 .. Len(events) + 1 /\ 2 \in 1 .. Len(events) + 1
        BY <2>5
    <3> QED BY <2>3, <2>5, <3>1 DEF Carries, Responses
  <2>9. /\ Len(value') = Len(value) + Kept(Head(events).bytes)
        /\ readLongOverflowed' <=> readLongOverflowed \/ TooMany(Head(events).bytes)
      BY <1>1, <2>6, <2>7, AccumulateIs DEF Types
  <2>10. Len(value) \in Nat /\ Len(value) <= Room /\ Room \in Nat
      BY <1>1, RoomAssumption, LenProperties DEF Types, ClientTypes
  <2>11. /\ readLongOverflowed' => Len(value') = Room /\ f[2] > Room
         /\ ~readLongOverflowed' => Len(value') = f[2]
    <3> DEFINE n == Len(Head(events).bytes)
    <3>1. /\ TooMany(Head(events).bytes) <=> Room - Len(value) < n
          /\ Room - Len(value) < n => Kept(Head(events).bytes) = Room - Len(value)
          /\ ~(Room - Len(value) < n) => Kept(Head(events).bytes) = n
        BY DEF Kept, TooMany
    <3> HIDE DEF n, Kept, TooMany
    <3>2. n \in Nat /\ f[2] = f[1] + n
        BY <2>7, <2>8 DEF n
    <3>3. CASE readLongOverflowed
      <4>1. Len(value) = Room /\ f[1] > Room
          BY <2>3, <3>3 DEF Carries
      <4> QED BY <2>8, <2>9, <2>10, <3>1, <3>2, <3>3, <4>1
    <3>4. CASE ~readLongOverflowed
      <4>1. Len(value) = f[1]
          BY <2>3, <3>4 DEF Carries
      <4> QED BY <2>8, <2>9, <2>10, <3>1, <3>2, <3>4, <4>1
    <3> QED BY <3>3, <3>4
  <2> QED BY <1>1, <2>3, <2>4, <2>11, CarriesHandled
<1>10. CASE ProcedureComplete
  <2>1. operation' = "none"
      BY <1>10 DEF ProcedureComplete
  <2> QED BY <2>1 DEF ReadLongInv
<1>11. CASE IndicationReceived
  <2>1. SUFFICES ASSUME operation' = "readLong"
                 PROVE  \E f \in [1 .. Len(events') + 1 -> Nat] : Carries(f)'
      BY DEF ReadLongInv
  <2>2. operation = "readLong"
      BY <2>1, <1>11 DEF IndicationReceived
  <2>3. PICK f \in [1 .. Len(events) + 1 -> Nat] : Carries(f)
      BY <1>1, <2>2 DEF ReadLongInv
  <2>4. Handle("indication") /\ UNCHANGED <<kind, sent>>
      BY <1>11 DEF IndicationReceived, history
  <2>5. /\ Head(events) \in Event /\ Len(events) \in Nat /\ 1 \in 1 .. Len(events)
        /\ Head(events) = events[1] /\ events[1].type = "indication" /\ 1 + 1 = 2
      BY <1>1, <2>4, HandleIs DEF Types
  <2>6. f[2] = f[1]
      BY <2>3, <2>5 DEF Carries, Responses
  <2>7. UNCHANGED <<value, readLongOverflowed>>
      BY <1>11 DEF IndicationReceived, client, readLong
  <2> QED BY <1>1, <2>3, <2>4, <2>6, <2>7, CarriesHandled DEF Carries
<1>12. CASE Released
  <2>1. operation' = "none"
      BY <1>12 DEF Released
  <2> QED BY <2>1 DEF ReadLongInv
<1>13. CASE Responds
  <2>0. Responds
      BY <1>13
  <2>1. /\ linked /\ current # None /\ current = Last /\ Last \in Procedure
        /\ responses' = responses + 1 /\ responses \in Nat /\ responses' \in 0 .. MaxResponses
        /\ kind[Last] \in {"exchangeMtu", "read"} => responses = 0
        /\ ~Queued("procedureComplete") /\ ~Queued("disconnected")
        /\ UNCHANGED <<client, linked, current, indicating, kind, ended, outcome, misread>>
      BY <1>1, <2>0, RespondsIs
  <2>2. PICK one \in Event :
          /\ events' = Append(events, one) /\ one.of = Last
          /\ one.type \in OfProcedures \ {"procedureComplete"}
          /\ kind[Last] = "exchangeMtu" <=> one.type = "mtu"
          /\ kind[Last] \in Discoveries <=> one.type = "items"
          /\ one.type \in Responses =>
                /\ one.type = "readResponse" <=> responses = 0
                /\ sent' = [sent EXCEPT ![Last] = @ + Len(one.bytes)]
                /\ \A k \in 1 .. Len(one.bytes) : one.bytes[k] = sent[Last] + k
          /\ one.type \notin Responses => UNCHANGED sent
      BY <1>1, <2>0, RespondsIs
  <2>3. operation = "readLong" => \E f \in [1 .. Len(events) + 1 -> Nat] : Carries(f)
      BY <1>1 DEF ReadLongInv
  <2>4. Len(one.bytes) \in Nat /\ sent[Last] \in Nat
      BY <1>1, <2>1, LenProperties DEF Event, Types, HistoryTypes
  <2>5. one.type \in Responses => sent'[Last] = sent[Last] + Len(one.bytes)
      BY <1>1, <2>1, <2>2, <2>4 DEF Types, HistoryTypes
  <2>6. UNCHANGED <<value, readLongOverflowed, operation>>
      BY <2>1 DEF client
  <2> QED BY <1>1, <2>1, <2>2, <2>3, <2>5, <2>6, CarriesReported DEF ReadLongInv
<1>14. ASSUME NEW result \in {"success", "error"}, Ends(result)
      PROVE  ReadLongInv'
  <2>1. /\ linked /\ current # None /\ current = Last /\ Last \in Procedure
        /\ current' = None /\ ended' = [ended EXCEPT ![Last] = result]
        /\ result = "success" /\ kind[Last] \in Reads \cup {"exchangeMtu"} => responses > 0
        /\ result = "error" /\ kind[Last] = "read" => responses = 0
        /\ ~Queued("procedureComplete") /\ ~Queued("disconnected")
        /\ UNCHANGED <<client, linked, responses, indicating, kind, sent, outcome, misread>>
      BY <1>1, <1>14, EndsIs
  <2>2. PICK one \in Event : /\ events' = Append(events, one) /\ one.of = Last
                            /\ one.type = "procedureComplete" /\ one.result = result
      BY <1>1, <1>14, EndsIs
  <2>3. operation = "readLong" => \E f \in [1 .. Len(events) + 1 -> Nat] : Carries(f)
      BY <1>1 DEF ReadLongInv
  <2>4. one.type \notin Responses /\ UNCHANGED <<value, readLongOverflowed, operation, kind, sent>>
      BY <2>1, <2>2 DEF client, Responses
  <2> QED BY <1>1, <2>2, <2>3, <2>4, CarriesReported DEF ReadLongInv
<1>15. CASE Indicates
  <2>1. /\ linked /\ ~Queued("disconnected") /\ UNCHANGED <<client, responses, kind, ended, sent,
           outcome, misread>>
        /\ UNCHANGED <<linked, current>>
      BY <1>1, <1>15, NoticeIs DEF history
  <2>2. PICK one \in Event : events' = Append(events, one) /\ one.type \in {"indication"}
      BY <1>1, <1>15, NoticeIs DEF Indicates
  <2>3. operation = "readLong" => \E f \in [1 .. Len(events) + 1 -> Nat] : Carries(f)
      BY <1>1 DEF ReadLongInv
  <2>4. one.type \notin Responses /\ UNCHANGED <<value, readLongOverflowed, operation, kind, sent>>
      BY <2>1, <2>2 DEF client, Responses
  <2> QED BY <1>1, <2>2, <2>3, <2>4, CarriesReported DEF ReadLongInv
<1>16. CASE Disconnects
  <2>1. /\ linked /\ ~Queued("disconnected") /\ UNCHANGED <<client, responses, kind, ended, sent,
           outcome, misread>>
        /\ linked' = FALSE /\ current' = None
      BY <1>1, <1>16, NoticeIs DEF history
  <2>2. PICK one \in Event : events' = Append(events, one) /\ one.type \in {"indication",
        "disconnected"}
      BY <1>1, <1>16, NoticeIs DEF Disconnects
  <2>3. operation = "readLong" => \E f \in [1 .. Len(events) + 1 -> Nat] : Carries(f)
      BY <1>1 DEF ReadLongInv
  <2>4. one.type \notin Responses /\ UNCHANGED <<value, readLongOverflowed, operation, kind, sent>>
      BY <2>1, <2>2 DEF client, Responses
  <2> QED BY <1>1, <2>2, <2>3, <2>4, CarriesReported DEF ReadLongInv
<1>17. CASE UNCHANGED vars
  <2>1. UNCHANGED <<operation, events, value, readLongOverflowed, kind, sent>>
      BY <1>17 DEF vars, client, stack, history
  <2> QED BY <1>1, <2>1 DEF ReadLongInv, Carries, Last
<1> QED BY <1>2, <1>3, <1>4, <1>5, <1>6, <1>7, <1>8, <1>9, <1>10, <1>11, <1>12, <1>13, <1>14,
           <1>15, <1>16, <1>17 DEF Next, Dispatch, StackEnds

(* Every step keeps a long value the first bytes of what was read. *)
LEMMA ValueStep ==
    ASSUME Inv, [Next]_vars
    PROVE  ValueInv'
<1>1. /\ Types /\ QueueInv /\ StackInv /\ ClientInv /\ AnswerInv
      /\ ReadLongInv /\ ValueInv /\ OutcomeInv /\ ReadAsAsked
    BY DEF Inv
<1>2. ASSUME NEW operationKind \in Operation \ Reads, Start(operationKind)
      PROVE  ValueInv'
  <2>1. UNCHANGED value
      BY <1>2 DEF Start, client, readLong
  <2> QED BY <1>1, <2>1 DEF ValueInv
<1>3. CASE Read
  <2>1. UNCHANGED value
      BY <1>3 DEF Read, client, readLong
  <2> QED BY <1>1, <2>1 DEF ValueInv
<1>4. CASE ReadLong
  <2>1. value' = <<>>
      BY <1>4 DEF ReadLong
  <2>2. Len(<<>>) = 0
      BY EmptySeq
  <2> QED BY <2>1, <2>2 DEF ValueInv
<1>5. CASE ConfirmIndication
  <2>1. UNCHANGED value
      BY <1>5 DEF ConfirmIndication, client, readLong
  <2> QED BY <1>1, <2>1 DEF ValueInv
<1>6. CASE MtuExchanged
  <2>1. UNCHANGED value
      BY <1>6 DEF MtuExchanged, client, readLong
  <2> QED BY <1>1, <2>1 DEF ValueInv
<1>7. CASE Discovered
  <2>1. UNCHANGED value
      BY <1>7 DEF Discovered, client, readLong
  <2> QED BY <1>1, <2>1 DEF ValueInv
<1>8. CASE ReadResponse
  <2>1. CASE operation = "readLong"
    <3>1. Handle("readResponse") /\ Accumulate(Head(events).bytes) /\ reading
        BY <1>1, <2>1, <1>8 DEF ReadResponse, ClientInv
    <3>2. /\ Head(events) \in Event /\ Len(events) \in Nat /\ 1 \in 1 .. Len(events)
          /\ Head(events) = events[1] /\ events[1].type = "readResponse"
        BY <1>1, <3>1, HandleIs DEF Types
    <3>3. Head(events).bytes \in Seq(Nat) /\ Len(Head(events).bytes) \in Nat
        BY <3>2, LenProperties DEF Event
    <3>4. PICK f \in [1 .. Len(events) + 1 -> Nat] : Carries(f)
        BY <1>1, <2>1 DEF ReadLongInv
    <3>5. \A k \in 1 .. Len(Head(events).bytes) : Head(events).bytes[k] = f[1] + k
        BY <3>2, <3>4 DEF Carries, Responses
    <3>6. /\ Kept(Head(events).bytes) \in 0 .. Len(Head(events).bytes)
          /\ \A i \in 1 .. Len(value) : value'[i] = value[i]
          /\ \A i \in 1 .. Len(value') :
                \/ i \in 1 .. Len(value)
                \/ i - Len(value) \in 1 .. Kept(Head(events).bytes) /\ value'[i] = Head(events).bytes[i - Len(value)]
        BY <1>1, <3>1, <3>3, AccumulateIs DEF Types
    <3>7. Len(value) \in Nat /\ Room \in Nat /\ Len(value') \in Nat
      <4>1. value' \in Seq(Nat)
          BY <1>1, <3>1, <3>3, AccumulateIs DEF Types
      <4> QED BY <1>1, <4>1, RoomAssumption, LenProperties DEF Types, ClientTypes
    <3>8. Kept(Head(events).bytes) > 0 => Len(value) = f[1]
      <4>1. readLongOverflowed => Room - Len(value) = 0
          BY <3>4, <3>7 DEF Carries
      <4>2. ~readLongOverflowed => Len(value) = f[1]
          BY <3>4 DEF Carries
      <4>3. Room - Len(value) = 0 => Kept(Head(events).bytes) = 0
          BY <3>3, <4>1 DEF Kept
      <4> QED BY <4>1, <4>2, <4>3
    <3>9. ASSUME NEW i \in 1 .. Len(value')
          PROVE  value'[i] = i
      <4>1. CASE i \in 1 .. Len(value)
          BY <1>1, <3>6, <4>1 DEF ValueInv
      <4>2. CASE i - Len(value) \in 1 .. Kept(Head(events).bytes) /\ value'[i] = Head(events).bytes[i - Len(value)]
        <5> HIDE DEF Kept
        <5>1. Kept(Head(events).bytes) > 0 /\ i - Len(value) \in 1 .. Len(Head(events).bytes)
            BY <3>3, <3>6, <3>7, <4>2
        <5>2. value'[i] = f[1] + (i - Len(value)) /\ Len(value) = f[1]
            BY <3>5, <3>8, <4>2, <5>1
        <5> QED BY <3>7, <5>2
      <4> QED BY <3>6, <4>1, <4>2
    <3> QED BY <3>9 DEF ValueInv
  <2>2. CASE operation # "readLong"
    <3>1. UNCHANGED value
        BY <2>2, <1>8 DEF ReadResponse, readLong
    <3> QED BY <1>1, <3>1 DEF ValueInv
  <2> QED BY <2>1, <2>2
<1>9. CASE ReadBlobResponse
  <2>1. CASE operation = "readLong"
    <3>1. Handle("readBlobResponse") /\ Accumulate(Head(events).bytes) /\ reading
        BY <1>1, <2>1, <1>9 DEF ReadBlobResponse, ClientInv
    <3>2. /\ Head(events) \in Event /\ Len(events) \in Nat /\ 1 \in 1 .. Len(events)
          /\ Head(events) = events[1] /\ events[1].type = "readBlobResponse"
        BY <1>1, <3>1, HandleIs DEF Types
    <3>3. Head(events).bytes \in Seq(Nat) /\ Len(Head(events).bytes) \in Nat
        BY <3>2, LenProperties DEF Event
    <3>4. PICK f \in [1 .. Len(events) + 1 -> Nat] : Carries(f)
        BY <1>1, <2>1 DEF ReadLongInv
    <3>5. \A k \in 1 .. Len(Head(events).bytes) : Head(events).bytes[k] = f[1] + k
        BY <3>2, <3>4 DEF Carries, Responses
    <3>6. /\ Kept(Head(events).bytes) \in 0 .. Len(Head(events).bytes)
          /\ \A i \in 1 .. Len(value) : value'[i] = value[i]
          /\ \A i \in 1 .. Len(value') :
                \/ i \in 1 .. Len(value)
                \/ i - Len(value) \in 1 .. Kept(Head(events).bytes) /\ value'[i] = Head(events).bytes[i - Len(value)]
        BY <1>1, <3>1, <3>3, AccumulateIs DEF Types
    <3>7. Len(value) \in Nat /\ Room \in Nat /\ Len(value') \in Nat
      <4>1. value' \in Seq(Nat)
          BY <1>1, <3>1, <3>3, AccumulateIs DEF Types
      <4> QED BY <1>1, <4>1, RoomAssumption, LenProperties DEF Types, ClientTypes
    <3>8. Kept(Head(events).bytes) > 0 => Len(value) = f[1]
      <4>1. readLongOverflowed => Room - Len(value) = 0
          BY <3>4, <3>7 DEF Carries
      <4>2. ~readLongOverflowed => Len(value) = f[1]
          BY <3>4 DEF Carries
      <4>3. Room - Len(value) = 0 => Kept(Head(events).bytes) = 0
          BY <3>3, <4>1 DEF Kept
      <4> QED BY <4>1, <4>2, <4>3
    <3>9. ASSUME NEW i \in 1 .. Len(value')
          PROVE  value'[i] = i
      <4>1. CASE i \in 1 .. Len(value)
          BY <1>1, <3>6, <4>1 DEF ValueInv
      <4>2. CASE i - Len(value) \in 1 .. Kept(Head(events).bytes) /\ value'[i] = Head(events).bytes[i - Len(value)]
        <5> HIDE DEF Kept
        <5>1. Kept(Head(events).bytes) > 0 /\ i - Len(value) \in 1 .. Len(Head(events).bytes)
            BY <3>3, <3>6, <3>7, <4>2
        <5>2. value'[i] = f[1] + (i - Len(value)) /\ Len(value) = f[1]
            BY <3>5, <3>8, <4>2, <5>1
        <5> QED BY <3>7, <5>2
      <4> QED BY <3>6, <4>1, <4>2
    <3> QED BY <3>9 DEF ValueInv
  <2>2. CASE operation # "readLong"
    <3>1. UNCHANGED value
        BY <2>2, <1>9 DEF ReadBlobResponse, readLong
    <3> QED BY <1>1, <3>1 DEF ValueInv
  <2> QED BY <2>1, <2>2
<1>10. CASE ProcedureComplete
  <2>1. UNCHANGED value
      BY <1>10 DEF ProcedureComplete, client, readLong
  <2> QED BY <1>1, <2>1 DEF ValueInv
<1>11. CASE IndicationReceived
  <2>1. UNCHANGED value
      BY <1>11 DEF IndicationReceived, client, readLong
  <2> QED BY <1>1, <2>1 DEF ValueInv
<1>12. CASE Released
  <2>1. UNCHANGED value
      BY <1>12 DEF Released, client, readLong
  <2> QED BY <1>1, <2>1 DEF ValueInv
<1>13. CASE Responds
  <2>1. UNCHANGED value
      BY <1>13 DEF Responds, client, readLong
  <2> QED BY <1>1, <2>1 DEF ValueInv
<1>14. ASSUME NEW result \in {"success", "error"}, Ends(result)
      PROVE  ValueInv'
  <2>1. UNCHANGED value
      BY <1>14 DEF Ends, client, readLong
  <2> QED BY <1>1, <2>1 DEF ValueInv
<1>15. CASE Indicates
  <2>1. UNCHANGED value
      BY <1>15 DEF Indicates, client, readLong
  <2> QED BY <1>1, <2>1 DEF ValueInv
<1>16. CASE Disconnects
  <2>1. UNCHANGED value
      BY <1>16 DEF Disconnects, client, readLong
  <2> QED BY <1>1, <2>1 DEF ValueInv
<1>17. CASE UNCHANGED vars
  <2>1. UNCHANGED value
      BY <1>17 DEF vars, client
  <2> QED BY <1>1, <2>1 DEF ValueInv
<1> QED BY <1>2, <1>3, <1>4, <1>5, <1>6, <1>7, <1>8, <1>9, <1>10, <1>11, <1>12, <1>13, <1>14,
           <1>15, <1>16, <1>17 DEF Next, Dispatch, StackEnds

(* Every step keeps the outcomes true to how the procedures went. *)
LEMMA OutcomeStep ==
    ASSUME Inv, FreesWhenHandled, [Next]_vars
    PROVE  OutcomeInv'
<1>1. /\ Types /\ QueueInv /\ StackInv /\ ClientInv /\ AnswerInv
      /\ ReadLongInv /\ ValueInv /\ OutcomeInv /\ ReadAsAsked
    BY DEF Inv
<1>2. ASSUME NEW operationKind \in Operation \ Reads, Start(operationKind)
      PROVE  OutcomeInv'
  <2>0. /\ operation = "none" /\ Issue(operationKind) /\ operation' = operationKind
        /\ onOperationDone' = current' /\ UNCHANGED <<onReadDone, readLong>>
      BY <1>2 DEF Start
  <2>1. operationKind \in Operation
      BY DEF Operation, Reads
  <2>2. /\ kind' \in Seq(Operation) /\ Last' = Last + 1 /\ Last \in Nat /\ Last' \in Procedure /\ Last' # None
        /\ kind'[Last'] = operationKind /\ \A p \in 1 .. Last : kind'[p] = kind[p]
        /\ \A p \in 1 .. Last' : p \in 1 .. Last \/ p = Last'
        /\ current' = Last' /\ responses' = 0
        /\ UNCHANGED <<connected, maxAttMtu, toConfirm, linked, events, indicating,
                       ended, sent, outcome, misread>>
        /\ connected /\ linked /\ onReadDone = None /\ onOperationDone = None
        /\ ~reading /\ ~readLongOverflowed
        /\ \A type : Queued(type)' <=> Queued(type)
        /\ \A type \in OfProcedures : ~Queued(type)
        /\ ended[Last'] = "running" /\ sent[Last'] = 0 /\ outcome[Last'] = NoOutcome
      BY <1>1, <2>0, <2>1, IssueIs
  <2>3. \A p \in 1 .. Last : kind'[p] = kind[p]
      BY <2>2
  <2>4. outcome'[Last'] = NoOutcome
      BY <2>2
  <2> QED BY <1>1, <2>2, <2>3, <2>4 DEF OutcomeInv, NoOutcome
<1>3. CASE Read
  <2>0. /\ operation = "none" /\ Issue("read") /\ operation' = "read"
        /\ onReadDone' = current' /\ UNCHANGED <<onOperationDone, readLong>>
      BY <1>3 DEF Read
  <2>1. "read" \in Operation
      BY DEF Operation, Reads
  <2>2. /\ kind' \in Seq(Operation) /\ Last' = Last + 1 /\ Last \in Nat /\ Last' \in Procedure /\ Last' # None
        /\ kind'[Last'] = "read" /\ \A p \in 1 .. Last : kind'[p] = kind[p]
        /\ \A p \in 1 .. Last' : p \in 1 .. Last \/ p = Last'
        /\ current' = Last' /\ responses' = 0
        /\ UNCHANGED <<connected, maxAttMtu, toConfirm, linked, events, indicating,
                       ended, sent, outcome, misread>>
        /\ connected /\ linked /\ onReadDone = None /\ onOperationDone = None
        /\ ~reading /\ ~readLongOverflowed
        /\ \A type : Queued(type)' <=> Queued(type)
        /\ \A type \in OfProcedures : ~Queued(type)
        /\ ended[Last'] = "running" /\ sent[Last'] = 0 /\ outcome[Last'] = NoOutcome
      BY <1>1, <2>0, <2>1, IssueIs
  <2>3. \A p \in 1 .. Last : kind'[p] = kind[p]
      BY <2>2
  <2>4. outcome'[Last'] = NoOutcome
      BY <2>2
  <2> QED BY <1>1, <2>2, <2>3, <2>4 DEF OutcomeInv, NoOutcome
<1>4. CASE ReadLong
  <2>0. /\ operation = "none" /\ Issue("readLong") /\ operation' = "readLong"
        /\ onReadDone' = current' /\ UNCHANGED onOperationDone
        /\ value' = <<>> /\ reading' = TRUE /\ readLongOverflowed' = FALSE
      BY <1>4 DEF ReadLong
  <2>1. "readLong" \in Operation
      BY DEF Operation, Reads
  <2>2. /\ kind' \in Seq(Operation) /\ Last' = Last + 1 /\ Last \in Nat /\ Last' \in Procedure /\ Last' # None
        /\ kind'[Last'] = "readLong" /\ \A p \in 1 .. Last : kind'[p] = kind[p]
        /\ \A p \in 1 .. Last' : p \in 1 .. Last \/ p = Last'
        /\ current' = Last' /\ responses' = 0
        /\ UNCHANGED <<connected, maxAttMtu, toConfirm, linked, events, indicating,
                       ended, sent, outcome, misread>>
        /\ connected /\ linked /\ onReadDone = None /\ onOperationDone = None
        /\ ~reading /\ ~readLongOverflowed
        /\ \A type : Queued(type)' <=> Queued(type)
        /\ \A type \in OfProcedures : ~Queued(type)
        /\ ended[Last'] = "running" /\ sent[Last'] = 0 /\ outcome[Last'] = NoOutcome
      BY <1>1, <2>0, <2>1, IssueIs
  <2>3. \A p \in 1 .. Last : kind'[p] = kind[p]
      BY <2>2
  <2>4. outcome'[Last'] = NoOutcome
      BY <2>2
  <2> QED BY <1>1, <2>2, <2>3, <2>4 DEF OutcomeInv, NoOutcome
<1>5. CASE ConfirmIndication
  <2>1. UNCHANGED <<connected, operation, callbacks, readLong, maxAttMtu,
                    linked, events, current, responses, history>>
      BY <1>5 DEF ConfirmIndication
  <2>2. \A type : Queued(type)' <=> Queued(type)
      BY <2>1 DEF Queued
  <2>4. UNCHANGED Last
      BY <2>1 DEF Last, history
  <2> QED BY <1>1, <2>1, <2>4 DEF history, OutcomeInv
<1>6. CASE MtuExchanged
  <2>1. Handle("mtu") /\ events \in Seq(Event) /\ UNCHANGED kind
      BY <1>1, <1>6 DEF MtuExchanged, history, Types
  <2>2. /\ Head(events) \in Event /\ Len(events) \in Nat /\ 1 \in 1 .. Len(events)
        /\ Len(events') = Len(events) - 1 /\ Head(events) = events[1] /\ events[1].type = "mtu"
        /\ \A i \in 1 .. Len(events') : i + 1 \in 1 .. Len(events) /\ events'[i] = events[i + 1]
        /\ \A one : Queued(one) <=> one = "mtu" \/ Queued(one)'
      BY <2>1, HandleIs
  <2>3. /\ QueueInv'
        /\ "mtu" \in OfProcedures => Head(events).of = Last /\ Last # None
        /\ "mtu" = "procedureComplete" => \A one \in OfProcedures : ~Queued(one)'
        /\ "mtu" = "disconnected" => \A one : ~Queued(one)'
      BY <1>1, <2>1, HandleQueue
  <2>4. UNCHANGED Last /\ UNCHANGED <<linked, current, responses>>
      BY <2>1 DEF Handle, Last
  <2>5. UNCHANGED <<kind, ended, sent, outcome>> /\ maxAttMtu' = Last
      BY <2>3, <1>6 DEF MtuExchanged, history, OfProcedures
  <2>6. \A p \in 1 .. Last : Last >= p
      OBVIOUS
  <2> QED BY <1>1, <2>4, <2>5, <2>6 DEF OutcomeInv
<1>7. CASE Discovered
  <2>1. Handle("items") /\ events \in Seq(Event) /\ UNCHANGED kind
      BY <1>1, <1>7 DEF Discovered, history, Types
  <2>2. /\ Head(events) \in Event /\ Len(events) \in Nat /\ 1 \in 1 .. Len(events)
        /\ Len(events') = Len(events) - 1 /\ Head(events) = events[1] /\ events[1].type = "items"
        /\ \A i \in 1 .. Len(events') : i + 1 \in 1 .. Len(events) /\ events'[i] = events[i + 1]
        /\ \A one : Queued(one) <=> one = "items" \/ Queued(one)'
      BY <2>1, HandleIs
  <2>3. /\ QueueInv'
        /\ "items" \in OfProcedures => Head(events).of = Last /\ Last # None
        /\ "items" = "procedureComplete" => \A one \in OfProcedures : ~Queued(one)'
        /\ "items" = "disconnected" => \A one : ~Queued(one)'
      BY <1>1, <2>1, HandleQueue
  <2>4. UNCHANGED Last /\ UNCHANGED <<linked, current, responses>>
      BY <2>1 DEF Handle, Last
  <2>5. UNCHANGED <<kind, ended, sent, outcome, maxAttMtu>>
      BY <1>7 DEF Discovered, client, history
  <2> QED BY <1>1, <2>4, <2>5 DEF OutcomeInv
<1>8. CASE ReadResponse
  <2>1. Handle("readResponse") /\ events \in Seq(Event) /\ UNCHANGED kind
      BY <1>1, <1>8 DEF ReadResponse, history, Types
  <2>2. /\ Head(events) \in Event /\ Len(events) \in Nat /\ 1 \in 1 .. Len(events)
        /\ Len(events') = Len(events) - 1 /\ Head(events) = events[1] /\ events[1].type = "readResponse"
        /\ \A i \in 1 .. Len(events') : i + 1 \in 1 .. Len(events) /\ events'[i] = events[i + 1]
        /\ \A one : Queued(one) <=> one = "readResponse" \/ Queued(one)'
      BY <2>1, HandleIs
  <2>3. /\ QueueInv'
        /\ "readResponse" \in OfProcedures => Head(events).of = Last /\ Last # None
        /\ "readResponse" = "procedureComplete" => \A one \in OfProcedures : ~Queued(one)'
        /\ "readResponse" = "disconnected" => \A one : ~Queued(one)'
      BY <1>1, <2>1, HandleQueue
  <2>4. UNCHANGED Last /\ UNCHANGED <<linked, current, responses>>
      BY <2>1 DEF Handle, Last
  <2>5. UNCHANGED <<kind, ended, sent, maxAttMtu>>
      BY <1>8 DEF ReadResponse
  <2>6. /\ onReadDone = IF operation \in Reads THEN Last ELSE None
        /\ onOperationDone = IF operation \in Reads \cup {"none"} THEN None ELSE Last
        /\ operation # "none" => Last # None /\ operation = kind[Last]
      BY <1>1 DEF ClientInv
  <2>7. onReadDone \in Number /\ onOperationDone \in Number /\ None \in Number /\ 0 \in Nat /\ Last \in Nat
      BY <1>1, LenProperties DEF Types, ClientTypes, HistoryTypes, Number, Last
  <2>8. \A p \in 1 .. Last : p \in Procedure /\ p # None
      BY <1>1, <2>7, MaxProceduresAssumption DEF Procedure, None, Types, HistoryTypes, Last
  <2>9. Last # None => Last \in 1 .. Last
      BY <2>7 DEF None
  <2>10. CASE operation = "read"
    <3>1. /\ onReadDone = Last /\ Last # None /\ kind[Last] = "read"
          /\ CallBack(onReadDone, "success", Head(events).of, Len(Head(events).bytes))
        BY <2>6, <2>10, <1>8 DEF ReadResponse, Reads
    <3>2. Head(events).of = Last /\ Len(Head(events).bytes) = sent[Last] /\ responses > 0
      <4>1. "readResponse" \in OfProcedures
          BY DEF OfProcedures, Responses
      <4> QED BY <1>1, <2>2, <2>3, <3>1, <4>1 DEF AnswerInv
    <3>3. Last \in Number /\ Last \in Procedure /\ sent[Last] \in Nat
        BY <1>1, <2>8, <2>9, <3>1 DEF Number, Types, HistoryTypes
    <3>4. /\ outcome'[Last].result = "success" /\ outcome'[Last].of = Last /\ outcome'[Last].length = sent[Last]
          /\ \A p \in Procedure : p # Last => outcome'[p] = outcome[p]
      <4>1. "success" \in Result
          BY DEF Result
      <4> QED BY <1>1, <3>1, <3>2, <3>3, <4>1, CallBackIs DEF Types
    <3>5. ended[Last] \in {"running", "success"}
      <4>1. ended[Last] \in {"running", "success", "error"}
          BY <1>1, <3>3 DEF Types, HistoryTypes
      <4>2. responses \in Nat
          BY <1>1 DEF Types, StackTypes
      <4> QED BY <1>1, <3>1, <3>2, <4>1, <4>2 DEF AnswerInv
    <3>6. kind[Last] # "exchangeMtu"
        BY <3>1
    <3> QED BY <1>1, <2>4, <2>5, <2>8, <3>1, <3>4, <3>5, <3>6 DEF OutcomeInv
  <2>11. CASE operation # "read"
    <3>1. UNCHANGED outcome
        BY <2>11, <1>8 DEF ReadResponse
    <3> QED BY <1>1, <2>4, <2>5, <3>1 DEF OutcomeInv
  <2> QED BY <2>10, <2>11
<1>9. CASE ReadBlobResponse
  <2>1. Handle("readBlobResponse") /\ events \in Seq(Event) /\ UNCHANGED kind
      BY <1>1, <1>9 DEF ReadBlobResponse, history, Types
  <2>2. /\ Head(events) \in Event /\ Len(events) \in Nat /\ 1 \in 1 .. Len(events)
        /\ Len(events') = Len(events) - 1 /\ Head(events) = events[1] /\ events[1].type = "readBlobResponse"
        /\ \A i \in 1 .. Len(events') : i + 1 \in 1 .. Len(events) /\ events'[i] = events[i + 1]
        /\ \A one : Queued(one) <=> one = "readBlobResponse" \/ Queued(one)'
      BY <2>1, HandleIs
  <2>3. /\ QueueInv'
        /\ "readBlobResponse" \in OfProcedures => Head(events).of = Last /\ Last # None
        /\ "readBlobResponse" = "procedureComplete" => \A one \in OfProcedures : ~Queued(one)'
        /\ "readBlobResponse" = "disconnected" => \A one : ~Queued(one)'
      BY <1>1, <2>1, HandleQueue
  <2>4. UNCHANGED Last /\ UNCHANGED <<linked, current, responses>>
      BY <2>1 DEF Handle, Last
  <2>5. UNCHANGED <<kind, ended, sent, outcome, maxAttMtu>>
      BY <1>9 DEF ReadBlobResponse, client, history
  <2> QED BY <1>1, <2>4, <2>5 DEF OutcomeInv
<1>10. CASE ProcedureComplete
  <2>1. Handle("procedureComplete") /\ events \in Seq(Event) /\ UNCHANGED kind
      BY <1>1, <1>10 DEF ProcedureComplete, history, Types
  <2>2. /\ Head(events) \in Event /\ Len(events) \in Nat /\ 1 \in 1 .. Len(events)
        /\ Len(events') = Len(events) - 1 /\ Head(events) = events[1] /\ events[1].type = "procedureComplete"
        /\ \A i \in 1 .. Len(events') : i + 1 \in 1 .. Len(events) /\ events'[i] = events[i + 1]
        /\ \A one : Queued(one) <=> one = "procedureComplete" \/ Queued(one)'
      BY <2>1, HandleIs
  <2>3. /\ QueueInv'
        /\ "procedureComplete" \in OfProcedures => Head(events).of = Last /\ Last # None
        /\ "procedureComplete" = "procedureComplete" => \A one \in OfProcedures : ~Queued(one)'
        /\ "procedureComplete" = "disconnected" => \A one : ~Queued(one)'
      BY <1>1, <2>1, HandleQueue
  <2>4. UNCHANGED Last /\ UNCHANGED <<linked, current, responses>>
      BY <2>1 DEF Handle, Last
  <2>5. UNCHANGED <<kind, ended, sent, maxAttMtu>>
      BY <1>10 DEF ProcedureComplete
  <2>6. /\ onReadDone = IF operation \in Reads THEN Last ELSE None
        /\ onOperationDone = IF operation \in Reads \cup {"none"} THEN None ELSE Last
        /\ operation # "none" => Last # None /\ operation = kind[Last]
      BY <1>1 DEF ClientInv
  <2>7. onReadDone \in Number /\ onOperationDone \in Number /\ None \in Number /\ 0 \in Nat /\ Last \in Nat
      BY <1>1, LenProperties DEF Types, ClientTypes, HistoryTypes, Number, Last
  <2>8. \A p \in 1 .. Last : p \in Procedure /\ p # None
      BY <1>1, <2>7, MaxProceduresAssumption DEF Procedure, None, Types, HistoryTypes, Last
  <2>9. Last # None => Last \in 1 .. Last
      BY <2>7 DEF None
  <2>10. /\ Head(events).result = ended[Last] /\ Head(events).result \in {"success",
            "error"} /\ Last # None
         /\ \A type \in OfProcedures : ~Queued(type)'
    <3>1. "procedureComplete" \in OfProcedures
        BY DEF OfProcedures
    <3> QED BY <1>1, <2>2, <2>3, <3>1 DEF AnswerInv, Event
  <2>11. Last \in Number /\ Last \in Procedure /\ Last \in 1 .. Last /\ responses \in Nat
      BY <1>1, <2>8, <2>9, <2>10 DEF Number, Types, StackTypes
  <2>12. CASE operation = "readLong"
    <3>1. PICK result \in Result, length \in Nat :
            /\ CallBack(Last, result, Last, length) /\ length = Len(value)
            /\ readLongOverflowed /\ ended[Last] = "success" => result = "insufficientResources"
            /\ ~readLongOverflowed \/ ended[Last] # "success" => result = ended[Last]
      <4>1. onReadDone = Last /\ reading
          BY <1>1, <2>6, <2>12 DEF ClientInv, Reads
      <4>2. Len(value) \in Nat
          BY <1>1, LenProperties DEF Types, ClientTypes
      <4> DEFINE result == IF readLongOverflowed /\ Head(events).result = "success"
                           THEN "insufficientResources" ELSE Head(events).result
      <4>3. CallBack(onReadDone, result, IF reading THEN onReadDone ELSE None,
            IF reading THEN Len(value) ELSE 0)
          BY <2>12, <1>10 DEF ProcedureComplete
      <4>4. /\ result \in Result
            /\ readLongOverflowed /\ ended[Last] = "success" => result = "insufficientResources"
            /\ ~readLongOverflowed \/ ended[Last] # "success" => result = ended[Last]
          BY <2>10 DEF Result
      <4> HIDE DEF result
      <4> QED BY <4>1, <4>2, <4>3, <4>4
    <3>2. /\ outcome'[Last].result = result /\ outcome'[Last].of = Last /\ outcome'[Last].length = length
          /\ \A p \in Procedure : p # Last => outcome'[p] = outcome[p]
        BY <1>1, <2>10, <2>11, <3>1, CallBackIs DEF Types
    <3>3. kind[Last] = "readLong"
        BY <2>6, <2>12
    <3>4. PICK f \in [1 .. Len(events) + 1 -> Nat] : Carries(f)
        BY <1>1, <2>12 DEF ReadLongInv
    <3>5. f[1] = sent[Last]
        BY <2>2, <3>4 DEF Carries
    <3>6. /\ readLongOverflowed => Len(value) = Room /\ sent[Last] > Room
          /\ ~readLongOverflowed => Len(value) = sent[Last]
        BY <3>4, <3>5 DEF Carries
    <3>7. result = "success" => ~readLongOverflowed /\ ended[Last] = "success"
        BY <2>10, <3>1
    <3>8. result = "error" => ended[Last] = "error"
        BY <2>10, <3>1
    <3>9. result = "insufficientResources" => readLongOverflowed /\ ended[Last] = "success"
        BY <2>10, <3>1
    <3> QED BY <1>1, <2>4, <2>5, <2>8, <3>1, <3>2, <3>3, <3>6, <3>7, <3>8, <3>9 DEF OutcomeInv
  <2>13. CASE operation # "readLong"
    <3>1. PICK procedure \in Number :
            /\ CallBack(procedure, ended[Last], None, 0)
            /\ procedure \in {Last, None}
            /\ operation = "none" => procedure = None
        BY <2>6, <2>7, <2>10, <2>13, <1>10 DEF ProcedureComplete, Reads
    <3>2. /\ procedure # None => outcome'[procedure].result = ended[Last]
          /\ \A p \in Procedure : p # procedure => outcome'[p] = outcome[p]
      <4>1. ended[Last] \in Result /\ HistoryTypes
          BY <1>1, <2>10 DEF Result, Types
      <4> QED BY <2>7, <3>1, <4>1, CallBackIs
    <3>3. CASE procedure = None
        BY <1>1, <2>4, <2>5, <2>8, <3>2, <3>3 DEF OutcomeInv
    <3>4. CASE procedure # None
      <4>1. procedure = Last /\ operation = kind[Last]
          BY <2>6, <3>1, <3>4
      <4>2. kind[Last] \in Reads => ended[Last] = "error"
        <5>1. operation = "read" => responses = 0
            BY <1>1, <2>2, <2>10, <2>11 DEF AnswerInv, OfProcedures, Responses
        <5> QED BY <1>1, <2>10, <2>11, <2>13, <4>1, <5>1 DEF AnswerInv, Reads
      <4>3. kind[Last] = "exchangeMtu" /\ ended[Last] = "success" => maxAttMtu = Last
          BY <1>1, <2>2, <2>10 DEF AnswerInv, OfProcedures
      <4>4. Last >= Last
          BY <2>7
      <4> QED BY <1>1, <2>4, <2>5, <2>8, <2>10, <3>2, <3>4, <4>1, <4>2, <4>3, <4>4 DEF OutcomeInv
    <3> QED BY <3>3, <3>4
  <2> QED BY <2>12, <2>13
<1>11. CASE IndicationReceived
  <2>1. Handle("indication") /\ events \in Seq(Event) /\ UNCHANGED kind
      BY <1>1, <1>11 DEF IndicationReceived, history, Types
  <2>2. /\ Head(events) \in Event /\ Len(events) \in Nat /\ 1 \in 1 .. Len(events)
        /\ Len(events') = Len(events) - 1 /\ Head(events) = events[1] /\ events[1].type = "indication"
        /\ \A i \in 1 .. Len(events') : i + 1 \in 1 .. Len(events) /\ events'[i] = events[i + 1]
        /\ \A one : Queued(one) <=> one = "indication" \/ Queued(one)'
      BY <2>1, HandleIs
  <2>3. /\ QueueInv'
        /\ "indication" \in OfProcedures => Head(events).of = Last /\ Last # None
        /\ "indication" = "procedureComplete" => \A one \in OfProcedures : ~Queued(one)'
        /\ "indication" = "disconnected" => \A one : ~Queued(one)'
      BY <1>1, <2>1, HandleQueue
  <2>4. UNCHANGED Last /\ UNCHANGED <<linked, current, responses>>
      BY <2>1 DEF Handle, Last
  <2>5. UNCHANGED <<kind, ended, sent, outcome, maxAttMtu>>
      BY <1>11 DEF IndicationReceived, client, history
  <2> QED BY <1>1, <2>4, <2>5 DEF OutcomeInv
<1>12. CASE Released
  <2>1. Handle("disconnected") /\ events \in Seq(Event) /\ UNCHANGED kind
      BY <1>1, <1>12 DEF Released, history, Types
  <2>2. /\ Head(events) \in Event /\ Len(events) \in Nat /\ 1 \in 1 .. Len(events)
        /\ Len(events') = Len(events) - 1 /\ Head(events) = events[1] /\ events[1].type = "disconnected"
        /\ \A i \in 1 .. Len(events') : i + 1 \in 1 .. Len(events) /\ events'[i] = events[i + 1]
        /\ \A one : Queued(one) <=> one = "disconnected" \/ Queued(one)'
      BY <2>1, HandleIs
  <2>3. /\ QueueInv'
        /\ "disconnected" \in OfProcedures => Head(events).of = Last /\ Last # None
        /\ "disconnected" = "procedureComplete" => \A one \in OfProcedures : ~Queued(one)'
        /\ "disconnected" = "disconnected" => \A one : ~Queued(one)'
      BY <1>1, <2>1, HandleQueue
  <2>4. UNCHANGED Last /\ UNCHANGED <<linked, current, responses>>
      BY <2>1 DEF Handle, Last
  <2>5. UNCHANGED <<kind, ended, sent, maxAttMtu>>
      BY <1>12 DEF Released
  <2>6. /\ onReadDone = IF operation \in Reads THEN Last ELSE None
        /\ onOperationDone = IF operation \in Reads \cup {"none"} THEN None ELSE Last
        /\ operation # "none" => Last # None /\ operation = kind[Last]
      BY <1>1 DEF ClientInv
  <2>7. onReadDone \in Number /\ onOperationDone \in Number /\ None \in Number /\ 0 \in Nat /\ Last \in Nat
      BY <1>1, LenProperties DEF Types, ClientTypes, HistoryTypes, Number, Last
  <2>8. \A p \in 1 .. Last : p \in Procedure /\ p # None
      BY <1>1, <2>7, MaxProceduresAssumption DEF Procedure, None, Types, HistoryTypes, Last
  <2>9. Last # None => Last \in 1 .. Last
      BY <2>7 DEF None
  <2>10. PICK procedure \in Number : procedure \in {Last, None} /\ CallBack(procedure,
         "disconnected", None, 0)
    <3>1. CASE operation \in Reads
        BY <2>6, <2>7, <3>1, <1>12 DEF Released
    <3>2. CASE operation \notin Reads
        BY <2>6, <2>7, <3>2, <1>12 DEF Released
    <3> QED BY <3>1, <3>2
  <2>11. /\ procedure # None => outcome'[procedure].result = "disconnected"
         /\ \A p \in Procedure : p # procedure => outcome'[p] = outcome[p]
      BY <1>1, <2>7, <2>10, CallBackIs DEF Result, Types
  <2>12. \A p \in 1 .. Last : outcome'[p].result = "disconnected" \/ outcome'[p] = outcome[p]
      BY <2>8, <2>11
  <2> QED BY <1>1, <2>4, <2>5, <2>12 DEF OutcomeInv
<1>13. CASE Responds
  <2>0. Responds
      BY <1>13
  <2>1. /\ linked /\ current # None /\ current = Last /\ Last \in Procedure
        /\ responses' = responses + 1 /\ responses \in Nat /\ responses' \in 0 .. MaxResponses
        /\ kind[Last] \in {"exchangeMtu", "read"} => responses = 0
        /\ ~Queued("procedureComplete") /\ ~Queued("disconnected")
        /\ UNCHANGED <<client, linked, current, indicating, kind, ended, outcome, misread>>
      BY <1>1, <2>0, RespondsIs
  <2>2. PICK one \in Event :
          /\ events' = Append(events, one) /\ one.of = Last
          /\ one.type \in OfProcedures \ {"procedureComplete"}
          /\ kind[Last] = "exchangeMtu" <=> one.type = "mtu"
          /\ kind[Last] \in Discoveries <=> one.type = "items"
          /\ one.type \in Responses =>
                /\ one.type = "readResponse" <=> responses = 0
                /\ sent' = [sent EXCEPT ![Last] = @ + Len(one.bytes)]
                /\ \A k \in 1 .. Len(one.bytes) : one.bytes[k] = sent[Last] + k
          /\ one.type \notin Responses => UNCHANGED sent
      BY <1>1, <2>0, RespondsIs
  <2>3. /\ Len(events) \in Nat /\ Len(events') = Len(events) + 1
        /\ \A i \in 1 .. Len(events) : i \in 1 .. Len(events') /\ events'[i] = events[i]
        /\ events'[Len(events')] = one /\ Len(events') \in 1 .. Len(events')
        /\ \A i \in 1 .. Len(events') : i \in 1 .. Len(events) \/ i = Len(events')
        /\ \A type : Queued(type)' <=> Queued(type) \/ type = one.type
      BY <1>1, <2>2, AppendIs DEF Types
  <2>4. UNCHANGED Last
      BY <2>1 DEF Last
  <2>5. UNCHANGED <<kind, outcome, maxAttMtu>>
      BY <2>1 DEF client
  <2>6. outcome[Last] = NoOutcome
      BY <1>1, <2>1 DEF ClientInv
  <2>7. \A p \in 1 .. Last : p # Last => sent'[p] = sent[p]
    <3>1. \A p \in 1 .. Last : p \in Procedure
        BY <2>1, MaxProceduresAssumption DEF Procedure
    <3> QED BY <1>1, <2>2, <3>1 DEF Types, HistoryTypes
  <2> QED BY <1>1, <2>1, <2>4, <2>5, <2>6, <2>7 DEF OutcomeInv, NoOutcome
<1>14. ASSUME NEW result \in {"success", "error"}, Ends(result)
      PROVE  OutcomeInv'
  <2>1. /\ linked /\ current # None /\ current = Last /\ Last \in Procedure
        /\ current' = None /\ ended' = [ended EXCEPT ![Last] = result]
        /\ result = "success" /\ kind[Last] \in Reads \cup {"exchangeMtu"} => responses > 0
        /\ result = "error" /\ kind[Last] = "read" => responses = 0
        /\ ~Queued("procedureComplete") /\ ~Queued("disconnected")
        /\ UNCHANGED <<client, linked, responses, indicating, kind, sent, outcome, misread>>
      BY <1>1, <1>14, EndsIs
  <2>2. PICK one \in Event : /\ events' = Append(events, one) /\ one.of = Last
                            /\ one.type = "procedureComplete" /\ one.result = result
      BY <1>1, <1>14, EndsIs
  <2>3. /\ Len(events) \in Nat /\ Len(events') = Len(events) + 1
        /\ \A i \in 1 .. Len(events) : i \in 1 .. Len(events') /\ events'[i] = events[i]
        /\ events'[Len(events')] = one /\ Len(events') \in 1 .. Len(events')
        /\ \A i \in 1 .. Len(events') : i \in 1 .. Len(events) \/ i = Len(events')
        /\ \A type : Queued(type)' <=> Queued(type) \/ type = one.type
      BY <1>1, <2>2, AppendIs DEF Types
  <2>4. UNCHANGED Last
      BY <2>1 DEF Last
  <2>5. UNCHANGED <<kind, outcome, maxAttMtu>>
      BY <2>1 DEF client
  <2>6. outcome[Last] = NoOutcome \/ (kind[Last] = "read" /\ result = "success")
      BY <1>1, <2>1 DEF ClientInv
  <2>7. \A p \in 1 .. Last : p # Last => ended'[p] = ended[p]
    <3>1. \A p \in 1 .. Last : p \in Procedure
        BY <2>1, MaxProceduresAssumption DEF Procedure
    <3> QED BY <1>1, <2>1, <3>1 DEF Types, HistoryTypes
  <2>8. ended'[Last] = result /\ ended[Last] = "running"
      BY <1>1, <2>1 DEF StackInv, Types, HistoryTypes
  <2> QED BY <1>1, <2>1, <2>4, <2>5, <2>6, <2>7, <2>8 DEF OutcomeInv, NoOutcome
<1>15. CASE Indicates
  <2>1. /\ linked /\ ~Queued("disconnected") /\ UNCHANGED <<client, responses, kind, ended, sent,
           outcome, misread>>
        /\ UNCHANGED <<linked, current>>
      BY <1>1, <1>15, NoticeIs DEF history
  <2>2. PICK one \in Event : events' = Append(events, one) /\ one.type \in {"indication"}
      BY <1>1, <1>15, NoticeIs DEF Indicates
  <2>3. /\ Len(events) \in Nat /\ Len(events') = Len(events) + 1
        /\ \A i \in 1 .. Len(events) : i \in 1 .. Len(events') /\ events'[i] = events[i]
        /\ events'[Len(events')] = one /\ Len(events') \in 1 .. Len(events')
        /\ \A i \in 1 .. Len(events') : i \in 1 .. Len(events) \/ i = Len(events')
        /\ \A type : Queued(type)' <=> Queued(type) \/ type = one.type
      BY <1>1, <2>2, AppendIs DEF Types
  <2>4. UNCHANGED Last
      BY <2>1 DEF Last
  <2>5. UNCHANGED <<kind, outcome, maxAttMtu>>
      BY <2>1 DEF client
  <2> QED BY <1>1, <2>1, <2>4, <2>5 DEF OutcomeInv
<1>16. CASE Disconnects
  <2>1. /\ linked /\ ~Queued("disconnected") /\ UNCHANGED <<client, responses, kind, ended, sent,
           outcome, misread>>
        /\ linked' = FALSE /\ current' = None
      BY <1>1, <1>16, NoticeIs DEF history
  <2>2. PICK one \in Event : events' = Append(events, one) /\ one.type \in {"indication",
        "disconnected"}
      BY <1>1, <1>16, NoticeIs DEF Disconnects
  <2>3. /\ Len(events) \in Nat /\ Len(events') = Len(events) + 1
        /\ \A i \in 1 .. Len(events) : i \in 1 .. Len(events') /\ events'[i] = events[i]
        /\ events'[Len(events')] = one /\ Len(events') \in 1 .. Len(events')
        /\ \A i \in 1 .. Len(events') : i \in 1 .. Len(events) \/ i = Len(events')
        /\ \A type : Queued(type)' <=> Queued(type) \/ type = one.type
      BY <1>1, <2>2, AppendIs DEF Types
  <2>4. UNCHANGED Last
      BY <2>1 DEF Last
  <2>5. UNCHANGED <<kind, outcome, maxAttMtu>>
      BY <2>1 DEF client
  <2> QED BY <1>1, <2>1, <2>4, <2>5 DEF OutcomeInv
<1>17. CASE UNCHANGED vars
  <2>1. UNCHANGED <<kind, ended, sent, outcome, maxAttMtu>>
      BY <1>17 DEF vars, client, history
  <2> QED BY <1>1, <2>1 DEF OutcomeInv, Last
<1> QED BY <1>2, <1>3, <1>4, <1>5, <1>6, <1>7, <1>8, <1>9, <1>10, <1>11, <1>12, <1>13, <1>14,
           <1>15, <1>16, <1>17 DEF Next, Dispatch, StackEnds

(* Every step reads a response as what was asked for. *)
LEMMA ReadStep ==
    ASSUME Inv, [Next]_vars
    PROVE  ReadAsAsked'
<1>1. /\ Types /\ QueueInv /\ StackInv /\ ClientInv /\ AnswerInv
      /\ ReadLongInv /\ ValueInv /\ OutcomeInv /\ ReadAsAsked
    BY DEF Inv
<1>2. ASSUME NEW operationKind \in Operation \ Reads, Start(operationKind)
      PROVE  ReadAsAsked'
  <2>1. UNCHANGED misread
      BY <1>2 DEF Start, Issue
  <2> QED BY <1>1, <2>1 DEF ReadAsAsked
<1>3. CASE Read
  <2>1. UNCHANGED misread
      BY <1>3 DEF Read, Issue
  <2> QED BY <1>1, <2>1 DEF ReadAsAsked
<1>4. CASE ReadLong
  <2>1. UNCHANGED misread
      BY <1>4 DEF ReadLong, Issue
  <2> QED BY <1>1, <2>1 DEF ReadAsAsked
<1>5. CASE ConfirmIndication
  <2>1. UNCHANGED misread
      BY <1>5 DEF ConfirmIndication, history
  <2> QED BY <1>1, <2>1 DEF ReadAsAsked
<1>6. CASE MtuExchanged
  <2>1. UNCHANGED misread
      BY <1>6 DEF MtuExchanged, history
  <2> QED BY <1>1, <2>1 DEF ReadAsAsked
<1>7. CASE Discovered
  <2>1. Handle("items") /\ events \in Seq(Event) /\ UNCHANGED kind
      BY <1>1, <1>7 DEF Discovered, Types
  <2>2. Queued("items")
      BY <2>1, HandleIs
  <2>3. Head(events).of = Last /\ Last # None
      BY <1>1, <2>1, HandleQueue DEF OfProcedures
  <2>4. operation \in Discoveries /\ operation = kind[Last]
      BY <1>1, <2>2 DEF ClientInv, Discoveries
  <2>5. ReadAs(Last) = kind[Last]
      BY <2>4 DEF ReadAs, IncludedServicesOrCharacteristics, Discoveries
  <2> QED BY <1>1, <2>3, <2>5, <1>7 DEF Discovered, ReadAsAsked
<1>8. CASE ReadResponse
  <2>1. UNCHANGED misread
      BY <1>8 DEF ReadResponse, history
  <2> QED BY <1>1, <2>1 DEF ReadAsAsked
<1>9. CASE ReadBlobResponse
  <2>1. UNCHANGED misread
      BY <1>9 DEF ReadBlobResponse, history
  <2> QED BY <1>1, <2>1 DEF ReadAsAsked
<1>10. CASE ProcedureComplete
  <2>1. UNCHANGED misread
      BY <1>10 DEF ProcedureComplete, history
  <2> QED BY <1>1, <2>1 DEF ReadAsAsked
<1>11. CASE IndicationReceived
  <2>1. UNCHANGED misread
      BY <1>11 DEF IndicationReceived, history
  <2> QED BY <1>1, <2>1 DEF ReadAsAsked
<1>12. CASE Released
  <2>1. UNCHANGED misread
      BY <1>12 DEF Released, history
  <2> QED BY <1>1, <2>1 DEF ReadAsAsked
<1>13. CASE Responds
  <2>1. UNCHANGED misread
      BY <1>13 DEF Responds, history
  <2> QED BY <1>1, <2>1 DEF ReadAsAsked
<1>14. ASSUME NEW result \in {"success", "error"}, Ends(result)
      PROVE  ReadAsAsked'
  <2>1. UNCHANGED misread
      BY <1>14 DEF Ends, history
  <2> QED BY <1>1, <2>1 DEF ReadAsAsked
<1>15. CASE Indicates
  <2>1. UNCHANGED misread
      BY <1>15 DEF Indicates, history
  <2> QED BY <1>1, <2>1 DEF ReadAsAsked
<1>16. CASE Disconnects
  <2>1. UNCHANGED misread
      BY <1>16 DEF Disconnects, history
  <2> QED BY <1>1, <2>1 DEF ReadAsAsked
<1>17. CASE UNCHANGED vars
  <2>1. UNCHANGED misread
      BY <1>17 DEF vars, history
  <2> QED BY <1>1, <2>1 DEF ReadAsAsked
<1> QED BY <1>2, <1>3, <1>4, <1>5, <1>6, <1>7, <1>8, <1>9, <1>10, <1>11, <1>12, <1>13, <1>14,
           <1>15, <1>16, <1>17 DEF Next, Dispatch, StackEnds

(* The initial state satisfies the invariant. *)
LEMMA InitInv ==
    ASSUME Init
    PROVE  Inv
<1>1. kind = <<>> /\ events = <<>> /\ value = <<>> /\ Len(<<>>) = 0 /\ Last = 0
    BY EmptySeq DEF Init, Last
<1>2. <<>> \in Seq(Nat) /\ <<>> \in Seq(Operation) /\ <<>> \in Seq(Event) /\ 0 <= Room /\ 0 <= MaxProcedures
      /\ 0 \in 0 .. MaxResponses /\ None \in Number
    BY EmptySeq, RoomAssumption, MaxProceduresAssumption, MaxResponsesAssumption DEF Number
<1>3. Types
    BY <1>1, <1>2 DEF Init, Types, ClientTypes, StackTypes, HistoryTypes
<1>4. \A type : ~Queued(type)
    BY <1>1 DEF Queued
<1>5. QueueInv /\ ReadLongInv /\ ValueInv /\ OutcomeInv /\ ReadAsAsked
    BY <1>1 DEF Init, QueueInv, ReadLongInv, ValueInv, OutcomeInv, ReadAsAsked
<1>6. StackInv
    BY <1>1, <1>4 DEF Init, StackInv
<1>7. ClientInv
    BY <1>1, <1>4 DEF Init, ClientInv, Reads
<1>8. AnswerInv
    BY <1>1 DEF Init, AnswerInv, None
<1> QED BY <1>3, <1>5, <1>6, <1>7, <1>8 DEF Inv

-----------------------------------------------------------------------------
(* The theorems. *)

(* Every variable keeps its type, whatever the stack takes when: the       *)
(* vector never holds more than it has room for.                           *)
THEOREM TypeCorrect == Spec => []TypeOK
<1>1. Init => Types
    BY InitInv DEF Inv
<1>2. Types /\ [Next]_vars => Types'
    BY TypesStep
<1>3. Types => TypeOK
  <2>1. SUFFICES ASSUME Types
                 PROVE  TypeOK
      OBVIOUS
  <2>2. /\ connected \in BOOLEAN /\ reading \in BOOLEAN /\ readLongOverflowed \in BOOLEAN
        /\ linked \in BOOLEAN /\ indicating \in BOOLEAN /\ misread \in BOOLEAN
        /\ onOperationDone \in Number /\ onReadDone \in Number /\ maxAttMtu \in Number /\ current \in Number
      BY <2>1 DEF Types, ClientTypes, StackTypes, HistoryTypes
  <2>3. {connected, reading, readLongOverflowed, linked, indicating, misread} \subseteq BOOLEAN
      BY <2>2, Zenon
  <2>4. {onOperationDone, onReadDone, maxAttMtu, current} \subseteq Number
      BY <2>2, Zenon
  <2> QED BY <2>1, <2>3, <2>4 DEF TypeOK, Types, ClientTypes, StackTypes, HistoryTypes
<1> QED BY <1>1, <1>2, <1>3, PTL DEF Spec

(* The invariant holds of every behaviour, with a stack that takes no      *)
(* procedure before the completion of the one before it is handled.        *)
THEOREM Invariant ==
    ASSUME FreesWhenHandled
    PROVE  Spec => []Inv
<1>1. Init => Inv
    BY InitInv
<1>2. Inv /\ [Next]_vars => Inv'
    BY TypesStep, QueueStep, StackStep, ClientStep, AnswerStep, ReadLongStep, ValueStep,
       OutcomeStep,
       ReadStep DEF Inv
<1> QED BY <1>1, <1>2, PTL DEF Spec

(* A callback is called with how its own procedure went, never before that *)
(* ended nor with the end or the value of another one.                     *)
THEOREM OutcomesOwn ==
    ASSUME FreesWhenHandled
    PROVE  Spec => []OwnOutcome
<1>1. Inv => OwnOutcome
    BY DEF Inv, ValueInv, OutcomeInv, OwnOutcome, Last
<1> QED BY <1>1, Invariant, PTL

(* What a response carries is read as what the procedure asked for.        *)
THEOREM ResponsesReadAsAsked ==
    ASSUME FreesWhenHandled
    PROVE  Spec => []ReadAsAsked
<1>1. Inv => ReadAsAsked
    BY DEF Inv
<1> QED BY <1>1, Invariant, PTL
===============================================================================

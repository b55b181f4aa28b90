-------------------------- MODULE StBootloaderProofs --------------------------
(***************************************************************************)
(* StBootloader: what the host takes for the answer to an action is the    *)
(* answer to that action: a command is done with its whole answer, and a   *)
(* target that answers is never given up, for every size of the data,      *)
(* every set of commands and every number of faults.                       *)
(*                                                                         *)
(* FlashOnStBootloader, which uses it: every write and erase is split into *)
(* legal commands that cover it exactly, for every size of the flash, of a *)
(* block and of a word.                                                    *)
(***************************************************************************)
EXTENDS StBootloader, FlashOnStBootloader, SequenceTheorems, WellFoundedInduction, TLAPS

-----------------------------------------------------------------------------
(* The lists of actions.                                                   *)

Lists == {InitializeUartBootloader} \union (UNION {Actions(given) : given \in Commands})

Buffers == {"predefined", "small", "big"}

(* Bytes before the data of a buffer. *)
Header(kind) == IF kind = "small" THEN 1 ELSE IF kind = "big" THEN 2 ELSE 0

LegalAction(action) ==
    /\ action.kind = "transmit" => action.parts \in 1 .. 3 /\ action.size = 0
    /\ action.kind # "transmit" => action.parts = 0
    /\ action.kind = "ack" => action.size = 0
    /\ action.kind \in {"predefined", "small"} => action.size \in 1 .. 256
    /\ action.kind = "big" => action.size \in 0 .. 255
    /\ action.range = "internal" =>
         \/ action.size = 3 /\ "GetVersion" \in Commands
         \/ action.size = 2 /\ "GetId" \in Commands

(* Frames of one part only come first, and only the list of ReadMemory     *)
(* ends in data.                                                           *)
LegalList(list) ==
    /\ list \in Seq(Action) /\ Len(list) >= 2 /\ Len(list) <= 12
    /\ list[1].kind = "transmit"
    /\ \A i \in 1 .. Len(list) : LegalAction(list[i]) /\ (list[i].parts = 1 => i = 1)
    /\ list[Len(list)].kind = "predefined" =>
         /\ Len(list) = 7
         /\ \A i \in {1, 3, 5} : list[i].kind = "transmit"
         /\ \A i \in {2, 4, 6} : list[i].kind = "ack"
         /\ list[7].size <= MaxData

-----------------------------------------------------------------------------
(* The history of a command: its list of actions, the bytes that the       *)
(* target sent in answer, how many of them and of the bytes of data were   *)
(* sent when each action was answered, and the last action that was.  A    *)
(* frame counts as answered when the target has all of it.  The host has   *)
(* taken the first `taken` bytes of the stream from the queue.             *)

History ==
    [list : Lists, stream : Seq(Byte), ends : [Nat -> Nat], data : [Nat -> Nat], answered : Nat]

(* The number of actions that the host has executed. *)
Executed(h) == Len(h.list) - Len(commandActions)

(* Host and target carry out the same list.  The target is never behind    *)
(* the host, nor in another frame.                                         *)
ListInv(h) ==
    /\ Len(commandActions) <= Len(h.list)
    /\ \A i \in 1 .. Len(commandActions) : commandActions[i] = h.list[Executed(h) + i]
    /\ Executed(h) <= h.answered /\ h.answered <= Len(h.list)
    /\ \A i \in Executed(h) + 2 .. h.answered : h.list[i].kind # "transmit"

PartsInv(h) ==
    IF FrontKind = "transmit"
    THEN parts \in 1 .. 3 /\ (parts = 1 <=> h.answered > Executed(h))
    ELSE parts = 0

(* The target still has the rest of the frame's answer to send, if it did  *)
(* not stop.                                                               *)
AnswerInv(h) ==
    /\ h.answered + Len(answer) <= Len(h.list)
    /\ \A i \in 1 .. Len(answer) :
         answer[i] = h.list[h.answered + i] /\ answer[i].kind # "transmit"
    /\ answer # <<>> \/ faults = 0 =>
         \/ h.answered + Len(answer) = Len(h.list)
         \/ h.list[h.answered + Len(answer) + 1].kind = "transmit"

(* The answer to one action, between the ends of the one before and its    *)
(* own: bytes that are passed over until the acknowledgement, or a buffer. *)
AckSent(h, i) ==
    /\ h.ends[i - 1] < h.ends[i]
    /\ h.stream[h.ends[i]] = ack
    /\ \A j \in h.ends[i - 1] + 1 .. h.ends[i] - 1 : h.stream[j] # ack
    /\ faults = 0 => h.ends[i] = h.ends[i - 1] + 1

BufferSent(h, i) ==
    LET header == Header(h.list[i].kind)
        size == h.list[i].size
    IN  /\ h.ends[i] = h.ends[i - 1] + header + size
        /\ h.list[i].kind = "small" => h.stream[h.ends[i - 1] + 1] = size - 1
        /\ h.list[i].kind = "big" => h.stream[h.ends[i - 1] + 1] = 0 /\ h.stream[h.ends[i - 1] + 2] = size
        /\ \A j \in 1 .. size : h.stream[h.ends[i - 1] + header + j] = sent[h.data[i - 1] + j]

Sent(h, i) ==
    /\ h.ends[i] <= Len(h.stream)
    /\ h.data[i] = h.data[i - 1] + h.list[i].size
    /\ h.data[i] <= Len(sent)
    /\ h.list[i].kind = "transmit" => h.ends[i] = h.ends[i - 1]
    /\ h.list[i].kind = "ack" => AckSent(h, i)
    /\ h.list[i].kind \in Buffers => BufferSent(h, i)

(* What was sent after the last answer leads to no acknowledgement.        *)
StreamInv(h) ==
    /\ h.ends[0] = 0 /\ h.data[0] = 0
    /\ \A i \in 1 .. h.answered : Sent(h, i)
    /\ h.data[h.answered] = Len(sent)
    /\ h.ends[h.answered] <= Len(h.stream)
    /\ \A j \in h.ends[h.answered] + 1 .. Len(h.stream) : h.stream[j] # ack
    /\ h.ends[h.answered] < Len(h.stream) =>
         faults > 0 /\ h.answered < Len(h.list) /\ h.list[h.answered + 1].kind = "ack"

(* What the host took of the answer to its first action. *)
HostInv(h, taken) ==
    LET n == Executed(h)
    IN  /\ Len(got) <= Len(sent)
        /\ \A j \in 1 .. Len(got) : got[j] = sent[j]
        /\ FrontKind \notin Buffers =>
             nBytesTotal = Unknown /\ nBytesReceived = 0 /\ Len(got) = h.data[n]
        /\ FrontKind \in {"none", "transmit"} => taken = h.ends[n]
        /\ FrontKind = "ack" =>
             /\ h.ends[n] <= taken
             /\ n < h.answered => taken < h.ends[n + 1]
             /\ faults = 0 => taken = h.ends[n]
        /\ FrontKind \in Buffers =>
             /\ Len(got) = h.data[n] + nBytesReceived
             /\ nBytesTotal = Unknown => nBytesReceived = 0 /\ taken = h.ends[n]
             /\ nBytesTotal # Unknown =>
                  /\ n < h.answered
                  /\ nBytesTotal = Front.size
                  /\ nBytesReceived < nBytesTotal /\ nBytesReceived <= RangeSize
                  /\ taken = h.ends[n] + Header(FrontKind) + nBytesReceived

(* The bytes on their way.  Some are lost when nobody listens. *)
FlightInv(h, taken) ==
    /\ taken + Len(queue) + Len(line) <= Len(h.stream)
    /\ listening => taken + Len(queue) + Len(line) = Len(h.stream)
    /\ \A i \in 1 .. Len(queue) : queue[i] = h.stream[taken + i]
    /\ \A i \in 1 .. Len(line) : line[i] = h.stream[Len(h.stream) - Len(line) + i]

Aligned(h, taken) ==
    ListInv(h) /\ PartsInv(h) /\ AnswerInv(h) /\ StreamInv(h) /\ HostInv(h, taken) /\ FlightInv(h, taken)

-----------------------------------------------------------------------------
Types ==
    /\ commandActions \in Seq(Action)
    /\ parts \in 0 .. 3
    /\ nBytesTotal \in Nat \union {Unknown}
    /\ nBytesReceived \in Nat
    /\ internalRange \in 2 .. 3
    /\ queue \in Seq(Byte)
    /\ notified \in BOOLEAN
    /\ handling \in BOOLEAN
    /\ timeoutTimer \in BOOLEAN
    /\ listening \in BOOLEAN
    /\ onError \in BOOLEAN
    /\ answer \in Seq(Action)
    /\ line \in Seq(Byte)
    /\ faults \in Nat
    /\ sent \in Seq(Byte)
    /\ got \in Seq(Byte)

(* A command ends once; after an error there is none. *)
OutcomeInv ==
    /\ commandActions = <<>> => outcomes = IF onError THEN <<"done">> ELSE <<"error", "done">>
    /\ commandActions # <<>> => outcomes = IF onError THEN <<>> ELSE <<"error">>
    /\ timeoutTimer <=> commandActions # <<>> /\ onError

(* The commands do not hand each other an internal range that is too small. *)
RangeKept == ~ {"GetId", "GetVersion"} \subseteq Commands

RangeInv == RangeKept /\ "GetVersion" \in Commands => internalRange = 3

(* Unless something failed, bytes that could be handled are not left.      *)
TriedInv ==
    faults = 0 /\ RangeKept =>
        /\ onError /\ listening
        /\ ~handling /\ ~notified /\ FrontKind \notin {"none", "transmit"} =>
             queue = <<>> \/ Len(queue) < SizeBytes

Inv == Types /\ OutcomeInv /\ RangeInv /\ TriedInv /\ \E h \in History, taken \in Nat : Aligned(h, taken)

-----------------------------------------------------------------------------
(* Sequences, and lists of actions.                                        *)

LEMMA TailFacts ==
    ASSUME NEW S, NEW q \in Seq(S), q # <<>>
    PROVE  /\ Len(q) \in Nat /\ Len(q) > 0 /\ Tail(q) \in Seq(S) /\ Len(Tail(q)) = Len(q) - 1
           /\ \A i \in 1 .. Len(q) - 1 : Tail(q)[i] = q[i + 1]
           /\ Head(q) = q[1] /\ q[1] \in S
OBVIOUS

LEMMA SubSeqFacts ==
    ASSUME NEW S, NEW q \in Seq(S), NEW m \in Nat, m >= 1, NEW n \in Nat, n <= Len(q), m <= n + 1
    PROVE  /\ SubSeq(q, m, n) \in Seq(S) /\ Len(SubSeq(q, m, n)) = n - m + 1
           /\ \A i \in 1 .. n - m + 1 : SubSeq(q, m, n)[i] = q[m + i - 1]
BY SubSeqProperties

LEMMA ConcatFacts ==
    ASSUME NEW S, NEW q \in Seq(S), NEW r \in Seq(S)
    PROVE  /\ q \o r \in Seq(S) /\ Len(q \o r) = Len(q) + Len(r)
           /\ \A i \in 1 .. Len(q) : (q \o r)[i] = q[i]
           /\ \A i \in 1 .. Len(r) : (q \o r)[Len(q) + i] = r[i]
BY ConcatProperties

LEMMA AppendFacts ==
    ASSUME NEW S, NEW q \in Seq(S), NEW x \in S
    PROVE  /\ Append(q, x) \in Seq(S) /\ Len(Append(q, x)) = Len(q) + 1
           /\ \A i \in 1 .. Len(q) : Append(q, x)[i] = q[i]
           /\ Append(q, x)[Len(q) + 1] = x
OBVIOUS

LEMMA AppendToOne ==
    ASSUME NEW a, NEW b
    PROVE  Append(<<a>>, b) = <<a, b>>
<1> DEFINE q == Append(<<a>>, b)
<1>1. <<a>> \in Seq({a, b}) /\ Len(<<a>>) = 1 /\ <<a>>[1] = a /\ b \in {a, b}
    OBVIOUS
<1>2. q \in Seq({a, b}) /\ Len(q) = 2 /\ q[1] = a /\ q[2] = b
    BY <1>1, AppendProperties
<1>3. <<a, b>> \in Seq({a, b}) /\ Len(<<a, b>>) = 2 /\ <<a, b>>[1] = a /\ <<a, b>>[2] = b
    OBVIOUS
<1> HIDE DEF q
<1>4. \A i \in 1 .. Len(q) : q[i] = <<a, b>>[i]
    BY <1>2, <1>3
<1>5. q = <<a, b>>
    BY <1>2, <1>3, <1>4, SeqEqual
<1> QED BY <1>5 DEF q

LEMMA LeastExists ==
    ASSUME NEW S, S \subseteq Nat, S # {}
    PROVE  \E i \in S : \A j \in S : i <= j
<1>1. PICK i \in S : \A j \in S : <<j, i>> \notin OpToRel(<, Nat)
    BY WFMin, NatLessThanWellFounded
<1>2. \A j \in S : ~(j < i)
    BY <1>1 DEF OpToRel
<1>3. \A j \in S : i <= j
    BY <1>2
<1> QED BY <1>3

(* The answer to a frame goes up to the next frame. *)
LEMMA AwaitedIs ==
    ASSUME NEW rest \in Seq(Action)
    PROVE  /\ Awaited(rest) \in Seq(Action) /\ Len(Awaited(rest)) <= Len(rest)
           /\ \A i \in 1 .. Len(Awaited(rest)) :
                Awaited(rest)[i] = rest[i] /\ rest[i].kind # "transmit"
           /\ Len(Awaited(rest)) = Len(rest) \/ rest[Len(Awaited(rest)) + 1].kind = "transmit"
<1> DEFINE stops == {i \in 1 .. Len(rest) : rest[i].kind = "transmit"}
           next == CHOOSE i \in stops : \A j \in stops : i <= j
<1>1. CASE stops = {}
  <2>1. Awaited(rest) = rest
      BY <1>1 DEF Awaited
  <2>2. \A i \in 1 .. Len(rest) : rest[i].kind # "transmit"
      BY <1>1
  <2> QED BY <2>1, <2>2
<1>2. CASE stops # {}
  <2>1. stops \subseteq Nat
      OBVIOUS
  <2>2. \E i \in stops : \A j \in stops : i <= j
      BY <1>2, <2>1, LeastExists
  <2>3. next \in stops /\ \A j \in stops : next <= j
      BY <2>2
  <2>4. Awaited(rest) = SubSeq(rest, 1, next - 1)
      BY <1>2 DEF Awaited
  <2>5. next \in Nat /\ next >= 1 /\ next <= Len(rest) /\ rest[next].kind = "transmit"
      BY <2>3
  <2>6. \A i \in 1 .. next - 1 : rest[i].kind # "transmit"
      BY <2>3, <2>5
  <2> HIDE DEF next, stops
  <2>7. /\ SubSeq(rest, 1, next - 1) \in Seq(Action) /\ Len(SubSeq(rest, 1, next - 1)) = next - 1
        /\ \A i \in 1 .. next - 1 : SubSeq(rest, 1, next - 1)[i] = rest[i]
    <3>1. PICK last \in Nat : last = next - 1
        BY <2>5
    <3>2. /\ SubSeq(rest, 1, last) \in Seq(Action) /\ Len(SubSeq(rest, 1, last)) = last - 1 + 1
          /\ \A i \in 1 .. last - 1 + 1 : SubSeq(rest, 1, last)[i] = rest[1 + i - 1]
        BY <2>5, <3>1, SubSeqFacts
    <3> QED BY <3>1, <3>2
  <2> QED BY <2>4, <2>5, <2>6, <2>7
<1> QED BY <1>1, <1>2

(* Three numbers have a least one. *)
LEMMA LeastOfThree ==
    ASSUME NEW a \in Int, NEW b \in Int, NEW c \in Int
    PROVE  /\ Least({a, b, c}) \in {a, b, c}
           /\ Least({a, b, c}) <= a /\ Least({a, b, c}) <= b /\ Least({a, b, c}) <= c
<1>1. \E i \in {a, b, c} : \A j \in {a, b, c} : i <= j
  <2>1. CASE a <= b /\ a <= c
      BY <2>1
  <2>2. CASE b <= a /\ b <= c
      BY <2>2
  <2>3. CASE c <= a /\ c <= b
      BY <2>3
  <2> QED BY <2>1, <2>2, <2>3
<1> DEFINE least == CHOOSE i \in {a, b, c} : \A j \in {a, b, c} : i <= j
<1>2. least \in {a, b, c} /\ \A j \in {a, b, c} : least <= j
    BY <1>1
<1>3. Least({a, b, c}) = least
    BY DEF Least
<1> QED BY <1>2, <1>3

(* What follows the frame of a command. *)
LegalRest(rest) ==
    /\ rest \in Seq(Action) /\ Len(rest) >= 1 /\ Len(rest) <= 10
    /\ \A i \in 1 .. Len(rest) : LegalAction(rest[i]) /\ rest[i].parts # 1
    /\ rest[Len(rest)].kind = "predefined" =>
         /\ Len(rest) = 5
         /\ rest[1].kind = "transmit" /\ rest[2].kind = "ack"
         /\ rest[3].kind = "transmit" /\ rest[4].kind = "ack"
         /\ rest[5].size <= MaxData

LEMMA CommandLegal ==
    ASSUME NEW rest \in Seq(Action), LegalRest(rest)
    PROVE  LegalList(CommandFrame \o rest) /\ (CommandFrame \o rest)[1].parts # 1
<1> DEFINE frame == CommandFrame
           list == CommandFrame \o rest
<1>0. frame \in Seq(Action)
    BY DEF CommandFrame, TransmitWithTwosComplementChecksum, Transmit, ReceiveAck, Receive, Action
<1>1. /\ Len(frame) = 2
      /\ frame[1].kind = "transmit" /\ LegalAction(frame[1]) /\ frame[1].parts # 1
      /\ frame[2].kind = "ack" /\ LegalAction(frame[2]) /\ frame[2].parts # 1
  <2>1. Len(frame) = 2 /\ frame[1] = Transmit(2) /\ frame[2] = Receive("ack", 0, "none")
      BY DEF CommandFrame, TransmitWithTwosComplementChecksum, ReceiveAck
  <2>2. Transmit(2).kind = "transmit" /\ LegalAction(Transmit(2)) /\ Transmit(2).parts # 1
      BY DEF Transmit, LegalAction
  <2>3. LET received == Receive("ack", 0, "none")
        IN  received.kind = "ack" /\ LegalAction(received) /\ received.parts # 1
      BY DEF Receive, LegalAction
  <2> QED BY <2>1, <2>2, <2>3
<1>8. Len(rest) >= 1 /\ Len(rest) <= 10
    BY DEF LegalRest
<1>3. /\ list \in Seq(Action) /\ Len(list) = 2 + Len(rest)
      /\ list[1] = frame[1] /\ list[2] = frame[2]
      /\ \A i \in 1 .. Len(rest) : list[2 + i] = rest[i]
  <2>1. rest \in Seq(Action)
      OBVIOUS
  <2>2. /\ list \in Seq(Action) /\ Len(list) = Len(frame) + Len(rest)
        /\ \A i \in 1 .. Len(frame) : list[i] = frame[i]
        /\ \A i \in 1 .. Len(rest) : list[Len(frame) + i] = rest[i]
      BY <1>0, <2>1, ConcatFacts
  <2> QED BY <1>1, <2>2
<1>9. Len(list) = 2 + Len(rest)
    BY <1>3
<1> HIDE DEF list, frame
<1>4. ASSUME NEW i \in 1 .. Len(list)
      PROVE  LegalAction(list[i]) /\ list[i].parts # 1
  <2>1. CASE i \in {1, 2}
      BY <1>1, <1>3, <2>1
  <2>2. CASE i > 2
    <3>1. PICK j \in 1 .. Len(rest) : i = 2 + j
      <4>1. i - 2 \in 1 .. Len(rest) /\ i = 2 + (i - 2)
          BY <1>8, <1>9, <2>2
      <4> QED BY <4>1
    <3>2. LegalAction(rest[j]) /\ rest[j].parts # 1
        BY <3>1 DEF LegalRest
    <3> QED BY <1>3, <3>1, <3>2
  <2> QED BY <1>9, <2>1, <2>2
<1>5. ASSUME list[Len(list)].kind = "predefined"
      PROVE  /\ Len(list) = 7
             /\ \A i \in {1, 3, 5} : list[i].kind = "transmit"
             /\ \A i \in {2, 4, 6} : list[i].kind = "ack"
             /\ list[7].size <= MaxData
  <2>1. rest[Len(rest)].kind = "predefined"
    <3>1. Len(rest) \in 1 .. Len(rest)
        BY <1>8
    <3> QED BY <1>3, <1>5, <3>1
  <2>2. /\ Len(rest) = 5
        /\ rest[1].kind = "transmit" /\ rest[2].kind = "ack"
        /\ rest[3].kind = "transmit" /\ rest[4].kind = "ack"
        /\ rest[5].size <= MaxData
      BY <1>5, <2>1 DEF LegalRest
  <2>3. Len(list) = 7
      BY <1>9, <2>2
  <2>4. list[3] = rest[1] /\ list[4] = rest[2] /\ list[5] = rest[3] /\ list[6] = rest[4] /\ list[7] = rest[5]
      BY <1>3, <2>2
  <2>5. list[1] = frame[1] /\ list[2] = frame[2]
      BY <1>3
  <2> QED BY <1>1, <2>2, <2>3, <2>4, <2>5
<1>6. list[1].kind = "transmit" /\ Len(list) >= 2 /\ Len(list) <= 12
  <2>1. list[1] = frame[1]
      BY <1>3
  <2> QED BY <1>1, <1>8, <1>9, <2>1
<1>7. LegalList(list)
    BY <1>3, <1>4, <1>5, <1>6 DEF LegalList
<1>10. list[1].parts # 1
    BY <1>4, <1>6
<1> QED BY <1>7, <1>10 DEF list

LEMMA CommandsLegal ==
    ASSUME NEW given \in Commands, NEW list \in Actions(given)
    PROVE  LegalList(list) /\ list[1].parts # 1
<1>2. CASE list \in Actions("GetCommand")
  <2> DEFINE Rest(size) ==
               <<ReceiveSmallBuffer(size, "caller"), ReceiveAck>>
  <2>1. Actions("GetCommand") = {CommandFrame \o Rest(size) : size \in 1 .. MaxData}
      BY DEF Actions
  <2>2. PICK size \in 1 .. MaxData : list = CommandFrame \o Rest(size)
      BY <1>2, <2>1
  <2>3. Rest(size) \in Seq(Action) /\ LegalRest(Rest(size))
      BY MaxDataAssumption DEF Rest, ReceiveSmallBuffer, Receive, ReceiveAck, LegalRest,
           LegalAction, Action
  <2> HIDE DEF Rest
  <2> QED BY <2>2, <2>3, CommandLegal
<1>3. CASE "GetVersion" \in Commands /\ list \in Actions("GetVersion")
  <2> DEFINE rest ==
               <<ReceivePredefinedBuffer(3, "internal"), ReceiveAck>>
  <2>1. Actions("GetVersion") = {CommandFrame \o rest}
      BY DEF Actions
  <2>2. list = CommandFrame \o rest
      BY <1>3, <2>1
  <2>3. rest \in Seq(Action) /\ LegalRest(rest)
      BY <1>3 DEF ReceivePredefinedBuffer, Receive, ReceiveAck, LegalRest, LegalAction, Action
  <2> HIDE DEF rest
  <2> QED BY <2>2, <2>3, CommandLegal
<1>4. CASE "GetId" \in Commands /\ list \in Actions("GetId")
  <2> DEFINE rest ==
               <<ReceiveSmallBuffer(2, "internal"), ReceiveAck>>
  <2>1. Actions("GetId") = {CommandFrame \o rest}
      BY DEF Actions
  <2>2. list = CommandFrame \o rest
      BY <1>4, <2>1
  <2>3. rest \in Seq(Action) /\ LegalRest(rest)
      BY <1>4 DEF ReceiveSmallBuffer, Receive, ReceiveAck, LegalRest, LegalAction, Action
  <2> HIDE DEF rest
  <2> QED BY <2>2, <2>3, CommandLegal
<1>5. CASE list \in Actions("ReadMemory")
  <2> DEFINE Rest(size) ==
               <<TransmitChecksummedBuffer, ReceiveAck, TransmitWithTwosComplementChecksum, ReceiveAck,
                 ReceivePredefinedBuffer(size, "caller")>>
  <2>1. Actions("ReadMemory") = {CommandFrame \o Rest(size) : size \in 1 .. MaxData}
      BY DEF Actions
  <2>2. PICK size \in 1 .. MaxData : list = CommandFrame \o Rest(size)
      BY <1>5, <2>1
  <2>3. Rest(size) \in Seq(Action) /\ LegalRest(Rest(size))
      BY MaxDataAssumption DEF Rest, TransmitChecksummedBuffer, Transmit, ReceiveAck, Receive,
           TransmitWithTwosComplementChecksum, ReceivePredefinedBuffer, LegalRest, LegalAction,
           Action
  <2> HIDE DEF Rest
  <2> QED BY <2>2, <2>3, CommandLegal
<1>6. CASE list \in Actions("Go")
  <2> DEFINE rest ==
               <<TransmitChecksummedBuffer, ReceiveAck>>
  <2>1. Actions("Go") = {CommandFrame \o rest}
      BY DEF Actions
  <2>2. list = CommandFrame \o rest
      BY <1>6, <2>1
  <2>3. rest \in Seq(Action) /\ LegalRest(rest)
      BY DEF TransmitChecksummedBuffer, Transmit, ReceiveAck, Receive, LegalRest, LegalAction,
           Action
  <2> HIDE DEF rest
  <2> QED BY <2>2, <2>3, CommandLegal
<1>7. CASE list \in Actions("ExtendedMassErase")
  <2> DEFINE rest ==
               <<TransmitChecksummedBuffer, ReceiveAck>>
  <2>1. Actions("ExtendedMassErase") = {CommandFrame \o rest}
      BY DEF Actions
  <2>2. list = CommandFrame \o rest
      BY <1>7, <2>1
  <2>3. rest \in Seq(Action) /\ LegalRest(rest)
      BY DEF TransmitChecksummedBuffer, Transmit, ReceiveAck, Receive, LegalRest, LegalAction,
           Action
  <2> HIDE DEF rest
  <2> QED BY <2>2, <2>3, CommandLegal
<1>8. CASE list \in Actions("WriteMemory")
  <2> DEFINE rest ==
               <<TransmitChecksummedBuffer, ReceiveAck, TransmitSmallBuffer, ReceiveAck>>
  <2>1. Actions("WriteMemory") = {CommandFrame \o rest}
      BY DEF Actions
  <2>2. list = CommandFrame \o rest
      BY <1>8, <2>1
  <2>3. rest \in Seq(Action) /\ LegalRest(rest)
      BY DEF TransmitChecksummedBuffer, Transmit, ReceiveAck, Receive, TransmitSmallBuffer,
           LegalRest, LegalAction, Action
  <2> HIDE DEF rest
  <2> QED BY <2>2, <2>3, CommandLegal
<1>9. CASE list \in Actions("MassErase")
  <2> DEFINE rest ==
               <<TransmitWithTwosComplementChecksum, ReceiveAck>>
  <2>1. Actions("MassErase") = {CommandFrame \o rest}
      BY DEF Actions
  <2>2. list = CommandFrame \o rest
      BY <1>9, <2>1
  <2>3. rest \in Seq(Action) /\ LegalRest(rest)
      BY DEF TransmitWithTwosComplementChecksum, Transmit, ReceiveAck, Receive, LegalRest,
           LegalAction, Action
  <2> HIDE DEF rest
  <2> QED BY <2>2, <2>3, CommandLegal
<1>10. CASE list \in Actions("Erase")
  <2> DEFINE rest ==
               <<TransmitSmallBuffer, ReceiveAck>>
  <2>1. Actions("Erase") = {CommandFrame \o rest}
      BY DEF Actions
  <2>2. list = CommandFrame \o rest
      BY <1>10, <2>1
  <2>3. rest \in Seq(Action) /\ LegalRest(rest)
      BY DEF TransmitSmallBuffer, Transmit, ReceiveAck, Receive, LegalRest, LegalAction, Action
  <2> HIDE DEF rest
  <2> QED BY <2>2, <2>3, CommandLegal
<1>11. CASE list \in Actions("ExtendedErase")
  <2> DEFINE rest ==
               <<TransmitBigBuffer(FALSE), ReceiveAck>>
  <2>1. Actions("ExtendedErase") = {CommandFrame \o rest}
      BY DEF Actions
  <2>2. list = CommandFrame \o rest
      BY <1>11, <2>1
  <2>3. rest \in Seq(Action) /\ LegalRest(rest)
      BY DEF TransmitBigBuffer, Transmit, ReceiveAck, Receive, LegalRest, LegalAction, Action
  <2> HIDE DEF rest
  <2> QED BY <2>2, <2>3, CommandLegal
<1>12. CASE list \in Actions("Special")
  <2> DEFINE Rest(empty, size, status) ==
               <<TransmitChecksummedBuffer, ReceiveAck, TransmitBigBuffer(empty), ReceiveAck,
                 ReceiveBigBuffer(size), ReceiveBigBuffer(status), ReceiveAck>>
  <2>1. Actions("Special") = {CommandFrame \o Rest(empty, size, status) :
                              empty \in BOOLEAN, size \in 0 .. 1, status \in 0 .. 1}
      BY DEF Actions
  <2> HIDE DEF Rest
  <2>2. PICK empty \in BOOLEAN, size \in 0 .. 1, status \in 0 .. 1 :
          list = CommandFrame \o Rest(empty, size, status)
      BY <1>12, <2>1
  <2>3. Rest(empty, size, status) \in Seq(Action) /\ LegalRest(Rest(empty, size, status))
      BY DEF Rest, TransmitChecksummedBuffer, Transmit, ReceiveAck, Receive, TransmitBigBuffer,
           ReceiveBigBuffer, LegalRest, LegalAction, Action
  <2> HIDE DEF Rest
  <2> QED BY <2>2, <2>3, CommandLegal
<1>13. CASE list \in Actions("ExtendedSpecial")
  <2> DEFINE Rest(empty, size) ==
               <<TransmitChecksummedBuffer, ReceiveAck, TransmitBigBuffer(empty), ReceiveAck,
                 TransmitBigBuffer(empty), ReceiveAck, ReceiveBigBuffer(size), ReceiveAck>>
  <2>1. Actions("ExtendedSpecial") = {CommandFrame \o Rest(empty, size) : empty \in BOOLEAN, size \in 0 .. 1}
      BY DEF Actions
  <2> HIDE DEF Rest
  <2>2. PICK empty \in BOOLEAN, size \in 0 .. 1 : list = CommandFrame \o Rest(empty, size)
      BY <1>13, <2>1
  <2>3. Rest(empty, size) \in Seq(Action) /\ LegalRest(Rest(empty, size))
      BY DEF Rest, TransmitChecksummedBuffer, Transmit, ReceiveAck, Receive, TransmitBigBuffer,
           ReceiveBigBuffer, LegalRest, LegalAction, Action
  <2> HIDE DEF Rest
  <2> QED BY <2>2, <2>3, CommandLegal
<1>14. given = "GetCommand" \/ given = "GetVersion" \/ given = "GetId" \/ given = "ReadMemory"
       \/ given = "Go" \/ given = "ExtendedMassErase" \/ given = "WriteMemory" \/ given = "MassErase"
       \/ given = "Erase" \/ given = "ExtendedErase" \/ given = "Special" \/ given = "ExtendedSpecial"
    BY CommandsAssumption
<1> QED BY <1>2, <1>3, <1>4, <1>5, <1>6, <1>7, <1>8, <1>9, <1>10, <1>11, <1>12, <1>13, <1>14, Zenon

LEMMA ListsLegal ==
    ASSUME NEW list \in Lists
    PROVE  LegalList(list)
<1>1. CASE list = InitializeUartBootloader
    BY <1>1 DEF InitializeUartBootloader, LegalList, LegalAction, Action, TransmitRaw, Transmit,
                ReceiveAck, Receive
<1>2. CASE \E given \in Commands : list \in Actions(given)
    BY <1>2, CommandsLegal
<1> QED BY <1>1, <1>2 DEF Lists

-----------------------------------------------------------------------------
(* What is known of a state: where the host is in the list.                *)

LEMMA HistoryTypes ==
    ASSUME NEW h \in History
    PROVE  /\ LegalList(h.list) /\ h.list \in Seq(Action) /\ Len(h.list) \in Nat
           /\ Len(h.list) >= 2
           /\ \A i \in 1 .. Len(h.list) : h.list[i] \in Action
           /\ h.stream \in Seq(Byte) /\ Len(h.stream) \in Nat
           /\ h.ends \in [Nat -> Nat] /\ h.data \in [Nat -> Nat] /\ h.answered \in Nat
<1>1. /\ h.list \in Lists /\ h.stream \in Seq(Byte)
      /\ h.ends \in [Nat -> Nat] /\ h.data \in [Nat -> Nat] /\ h.answered \in Nat
    BY DEF History
<1>2. LegalList(h.list)
    BY <1>1, ListsLegal
<1>3. h.list \in Seq(Action) /\ Len(h.list) >= 2
    BY <1>2 DEF LegalList
<1>4. Len(h.list) \in Nat /\ \A i \in 1 .. Len(h.list) : h.list[i] \in Action
    BY <1>3
<1>5. Len(h.stream) \in Nat
  <2>1. \A q \in Seq(Byte) : Len(q) \in Nat
      OBVIOUS
  <2> QED BY <1>1, <2>1
<1> QED BY <1>1, <1>2, <1>3, <1>4, <1>5

LEMMA Lengths ==
    ASSUME Types
    PROVE  /\ Len(commandActions) \in Nat /\ Len(queue) \in Nat /\ Len(line) \in Nat
           /\ Len(answer) \in Nat /\ Len(sent) \in Nat /\ Len(got) \in Nat
           /\ commandActions = <<>> <=> Len(commandActions) = 0
           /\ queue = <<>> <=> Len(queue) = 0
           /\ line = <<>> <=> Len(line) = 0
           /\ answer = <<>> <=> Len(answer) = 0
BY DEF Types

LEMMA Kinds ==
    \A action \in Action :
        /\ action.kind \in {"transmit", "ack"} \union Buffers
        /\ action.parts \in 0 .. 3 /\ action.size \in Nat /\ action.range \in {"none", "caller", "internal"}
BY DEF Action, Buffers

(* The host's first action, and what is known of the actions behind it. *)
LEMMA Where ==
    ASSUME Types, NEW h \in History, ListInv(h)
    PROVE  /\ Executed(h) \in Nat /\ Executed(h) <= Len(h.list)
           /\ Executed(h) + Len(commandActions) = Len(h.list)
           /\ commandActions = <<>> => Executed(h) = Len(h.list) /\ FrontKind = "none"
           /\ commandActions # <<>> =>
                /\ Executed(h) + 1 <= Len(h.list) /\ Len(commandActions) >= 1
                /\ Front = h.list[Executed(h) + 1] /\ FrontKind = Front.kind
                /\ Front \in Action /\ LegalAction(Front)
                /\ FrontKind \in {"transmit", "ack"} \union Buffers
           /\ \A i \in 2 .. Len(commandActions) : commandActions[i].parts # 1
<1>1. /\ Len(commandActions) \in Nat /\ Len(h.list) \in Nat
      /\ Len(commandActions) <= Len(h.list)
      /\ commandActions = <<>> <=> Len(commandActions) = 0
    BY Lengths, HistoryTypes DEF ListInv
<1>2. Executed(h) \in Nat /\ Executed(h) <= Len(h.list) /\ Executed(h) + Len(commandActions) = Len(h.list)
    BY <1>1 DEF Executed
<1>3. ASSUME NEW i \in 1 .. Len(commandActions)
      PROVE  /\ commandActions[i] = h.list[Executed(h) + i] /\ Executed(h) + i \in 1 .. Len(h.list)
             /\ LegalAction(h.list[Executed(h) + i]) /\ h.list[Executed(h) + i] \in Action
             /\ h.list[Executed(h) + i].parts = 1 => i = 1
  <2>1. Executed(h) + i \in 1 .. Len(h.list)
      BY <1>1, <1>2
  <2>2. /\ LegalAction(h.list[Executed(h) + i]) /\ h.list[Executed(h) + i] \in Action
        /\ h.list[Executed(h) + i].parts = 1 => Executed(h) + i = 1
      BY <2>1, HistoryTypes DEF LegalList
  <2>3. commandActions[i] = h.list[Executed(h) + i]
      BY DEF ListInv
  <2>4. h.list[Executed(h) + i].parts = 1 => i = 1
      BY <1>1, <1>2, <2>2
  <2> QED BY <2>1, <2>2, <2>3, <2>4
<1>4. ASSUME commandActions # <<>>
      PROVE  /\ Executed(h) + 1 <= Len(h.list) /\ Len(commandActions) >= 1
             /\ Front = h.list[Executed(h) + 1] /\ FrontKind = Front.kind
             /\ Front \in Action /\ LegalAction(Front)
             /\ FrontKind \in {"transmit", "ack"} \union Buffers
  <2>1. Len(commandActions) >= 1 /\ 1 \in 1 .. Len(commandActions) /\ Executed(h) + 1 <= Len(h.list)
      BY <1>1, <1>2, <1>4
  <2>2. Front = h.list[Executed(h) + 1] /\ Front \in Action /\ LegalAction(Front)
      BY <1>3, <2>1 DEF Front
  <2>3. FrontKind = Front.kind
      BY <1>4 DEF FrontKind
  <2> QED BY <2>1, <2>2, <2>3, Kinds
<1>5. \A i \in 2 .. Len(commandActions) : commandActions[i].parts # 1
  <2>1. ASSUME NEW i \in 2 .. Len(commandActions)
        PROVE  commandActions[i].parts # 1
    <3>1. i \in 1 .. Len(commandActions) /\ i # 1
        BY <1>1
    <3> QED BY <1>3, <3>1
  <2> QED BY <2>1
<1>6. commandActions = <<>> => Executed(h) = Len(h.list) /\ FrontKind = "none"
    BY <1>1, <1>2 DEF FrontKind
<1> QED BY <1>2, <1>4, <1>5, <1>6

(* What OnActionExecuted leaves. *)
LEMMA ExecutedIs ==
    ASSUME Types, commandActions # <<>>, OnActionExecuted,
           \A i \in 2 .. Len(commandActions) : commandActions[i].parts # 1
    PROVE  /\ commandActions' \in Seq(Action) /\ Len(commandActions') = Len(commandActions) - 1
           /\ \A i \in 1 .. Len(commandActions) - 1 : commandActions'[i] = commandActions[i + 1]
           /\ parts' = IF commandActions' = <<>> THEN 0 ELSE commandActions'[1].parts
           /\ parts' \in 0 .. 3
           /\ nBytesTotal' = Unknown /\ nBytesReceived' = 0 /\ answer' = answer
           /\ handling' \in BOOLEAN
           /\ commandActions' # <<>> => handling'
           /\ commandActions' = <<>> <=> Len(commandActions) = 1
           /\ commandActions' = <<>> => timeoutTimer' = FALSE /\ outcomes' = Append(outcomes, "done")
           /\ commandActions' # <<>> => timeoutTimer' = timeoutTimer /\ outcomes' = outcomes
<1>1. /\ commandActions \in Seq(Action) /\ Len(commandActions) \in Nat /\ Len(commandActions) >= 1
    BY DEF Types
<1>2. CASE Len(commandActions) = 1
  <2>1. /\ commandActions' = <<>> /\ parts' = 0 /\ nBytesTotal' = Unknown /\ nBytesReceived' = 0
        /\ answer' = answer /\ handling' = FALSE /\ timeoutTimer' = FALSE
        /\ outcomes' = Append(outcomes, "done")
      BY <1>2 DEF OnActionExecuted
  <2>2. commandActions' \in Seq(Action) /\ Len(commandActions') = Len(commandActions) - 1
      BY <1>2, <2>1
  <2>3. \A i \in 1 .. Len(commandActions) - 1 : commandActions'[i] = commandActions[i + 1]
      BY <1>2
  <2>4. parts' = (IF commandActions' = <<>> THEN 0 ELSE commandActions'[1].parts) /\ parts' \in 0 .. 3
      BY <2>1
  <2>5. handling' \in BOOLEAN
      BY <2>1
  <2> QED BY <1>2, <2>1, <2>2, <2>3, <2>4, <2>5
<1>3. CASE Len(commandActions) # 1
  <2> DEFINE rest == Tail(commandActions)
  <2>1. /\ commandActions' = rest /\ parts' = Head(rest).parts
        /\ nBytesTotal' = Unknown /\ nBytesReceived' = 0
        /\ answer' = IF Head(rest).parts = 1 THEN Awaited(Tail(rest)) ELSE answer
        /\ handling' = TRUE /\ timeoutTimer' = timeoutTimer /\ outcomes' = outcomes
      BY <1>3 DEF OnActionExecuted, StartCurrentAction, TriesData
  <2>2. /\ rest \in Seq(Action) /\ Len(rest) = Len(commandActions) - 1
        /\ \A i \in 1 .. Len(commandActions) - 1 : rest[i] = commandActions[i + 1]
      BY <1>1, TailFacts
  <2> HIDE DEF rest
  <2>3. rest # <<>> /\ Head(rest) = rest[1] /\ rest[1] = commandActions[2] /\ rest[1] \in Action
        /\ rest[1].parts # 1
    <3>1. Len(rest) >= 1 /\ 2 \in 2 .. Len(commandActions) /\ 1 \in 1 .. Len(commandActions) - 1
        BY <1>1, <1>3, <2>2
    <3>2. rest # <<>> /\ Head(rest) = rest[1] /\ rest[1] \in Action
        BY <2>2, <3>1
    <3>3. rest[1] = commandActions[1 + 1]
        BY <2>2, <3>1
    <3>4. 1 + 1 = 2
        OBVIOUS
    <3> QED BY <3>1, <3>2, <3>3, <3>4
  <2>4. rest[1].parts \in 0 .. 3
      BY <2>3, Kinds
  <2> QED BY <1>3, <2>1, <2>2, <2>3, <2>4
<1> QED BY <1>2, <1>3

-----------------------------------------------------------------------------
(* The parts of the invariant that a step carries over.                    *)

LEMMA StreamKept ==
    ASSUME NEW h \in History, Types, StreamInv(h),
           faults' \in Nat, faults' >= faults, sent' = sent
    PROVE  StreamInv(h)'
<1>1. (faults' = 0 => faults = 0) /\ (faults > 0 => faults' > 0)
    BY DEF Types
<1>2. ASSUME NEW i \in 1 .. h.answered
      PROVE  Sent(h, i)'
  <2>1. Sent(h, i)
      BY DEF StreamInv
  <2>2. h.list[i].kind = "ack" => AckSent(h, i)'
      BY <1>1, <2>1 DEF Sent, AckSent
  <2>3. h.list[i].kind \in Buffers => BufferSent(h, i)'
      BY <2>1 DEF Sent, BufferSent
  <2> QED BY <2>1, <2>2, <2>3 DEF Sent
<1> QED BY <1>1, <1>2 DEF StreamInv

LEMMA AnswerKept ==
    ASSUME NEW h \in History, Types, AnswerInv(h),
           faults' \in Nat, faults' >= faults, answer' = answer
    PROVE  AnswerInv(h)'
<1>1. faults' = 0 => faults = 0
    BY DEF Types
<1> QED BY <1>1 DEF AnswerInv

LEMMA HostKept ==
    ASSUME NEW h \in History, NEW taken \in Nat, Types, HostInv(h, taken), UNCHANGED actions,
           faults' \in Nat, faults' >= faults, UNCHANGED <<internalRange, sent, got>>
    PROVE  HostInv(h, taken)'
<1>1. faults' = 0 => faults = 0
    BY DEF Types
<1>2. UNCHANGED <<FrontKind, Front, RangeSize, nBytesTotal, nBytesReceived, Executed(h)>>
    BY DEF actions, FrontKind, Front, RangeSize, Executed
<1> QED BY <1>1, <1>2 DEF HostInv

LEMMA ListKept ==
    ASSUME NEW h \in History, ListInv(h), PartsInv(h), UNCHANGED actions
    PROVE  ListInv(h)' /\ PartsInv(h)'
BY DEF actions, ListInv, PartsInv, Executed, FrontKind, Front

(* The bytes of the stream up to where an action's answer ends. *)
LEMMA EndsIs ==
    ASSUME Types, NEW h \in History, StreamInv(h), NEW i \in Nat, i <= h.answered
    PROVE  /\ h.ends[i] \in Nat /\ h.ends[i] <= Len(h.stream)
           /\ h.data[i] \in Nat /\ h.data[i] <= Len(sent)
           /\ i > 0 => Sent(h, i)
<1>1. /\ h.ends[i] \in Nat /\ h.data[i] \in Nat /\ Len(h.stream) \in Nat /\ h.answered \in Nat
      /\ Len(sent) \in Nat
    BY HistoryTypes, Lengths
<1>2. CASE i = 0
    BY <1>1, <1>2 DEF StreamInv
<1>3. CASE i # 0
  <2>1. i \in 1 .. h.answered
      BY <1>1, <1>3
  <2>2. Sent(h, i)
      BY <2>1 DEF StreamInv
  <2> QED BY <1>1, <2>2 DEF Sent
<1> QED BY <1>2, <1>3

-----------------------------------------------------------------------------
(* The host executes its first action, with the whole answer to it.        *)

LEMMA Advance ==
    ASSUME Types, NEW h \in History,
           ListInv(h), PartsInv(h), AnswerInv(h), StreamInv(h),
           commandActions # <<>>, Executed(h) < h.answered, OnActionExecuted,
           faults' = faults, sent' = sent, got' \in Seq(Byte),
           Len(got') = h.data[Executed(h) + 1], \A j \in 1 .. Len(got') : got'[j] = sent[j],
           NEW taken \in Nat, taken = h.ends[Executed(h) + 1]
    PROVE  /\ ListInv(h)' /\ PartsInv(h)' /\ AnswerInv(h)' /\ StreamInv(h)'
           /\ HostInv(h, taken)'
<1>0. PICK n \in Nat : n = Executed(h)
    BY Where
<1> DEFINE m == Len(commandActions)
           list == h.list
           last == Len(list)
<1>1. /\ n \in Nat /\ n <= last /\ n + m = last /\ n + 1 <= last /\ m >= 1
      /\ last \in Nat /\ m \in Nat /\ h.answered \in Nat
      /\ \A i \in 2 .. m : commandActions[i].parts # 1
    BY <1>0, Where, HistoryTypes, Lengths
<1>2. /\ Len(commandActions') = m - 1
      /\ \A i \in 1 .. m - 1 : commandActions'[i] = commandActions[i + 1]
      /\ parts' = IF commandActions' = <<>> THEN 0 ELSE commandActions'[1].parts
      /\ nBytesTotal' = Unknown /\ nBytesReceived' = 0 /\ answer' = answer
      /\ commandActions' = <<>> <=> m = 1
    BY <1>1, ExecutedIs
<1>3. Executed(h)' = n + 1
    BY <1>0, <1>1, <1>2 DEF Executed
<1>4. faults' \in Nat /\ faults' >= faults
    BY DEF Types
<1>5. AnswerInv(h)'
    BY <1>2, <1>4, AnswerKept
<1>6. StreamInv(h)'
    BY <1>4, StreamKept
<1>7. /\ \A i \in 1 .. m : commandActions[i] = list[n + i]
      /\ h.answered <= last /\ n + 1 <= h.answered
      /\ \A i \in n + 2 .. h.answered : list[i].kind # "transmit"
    BY <1>0, <1>1 DEF ListInv
<1> HIDE DEF m, list, last
<1>8. ASSUME NEW i \in 1 .. m - 1
      PROVE  commandActions'[i] = list[n + 1 + i]
  <2>1. i + 1 \in 1 .. m /\ n + (i + 1) = n + 1 + i
      BY <1>1
  <2>2. commandActions'[i] = commandActions[i + 1]
      BY <1>2
  <2> QED BY <1>7, <2>1, <2>2
<1>9. ListInv(h)'
  <2>1. Len(commandActions') <= last /\ n + 1 <= h.answered /\ h.answered <= last
      BY <1>1, <1>2, <1>7
  <2>2. \A i \in n + 1 + 2 .. h.answered : list[i].kind # "transmit"
      BY <1>1, <1>7
  <2> QED BY <1>2, <1>3, <1>8, <2>1, <2>2 DEF ListInv, list, last
<1>10. ASSUME commandActions' # <<>>
       PROVE  /\ Front' = list[n + 2] /\ FrontKind' = list[n + 2].kind /\ parts' = list[n + 2].parts
              /\ n + 2 \in 1 .. last /\ LegalAction(list[n + 2]) /\ list[n + 2].parts # 1
              /\ list[n + 2] \in Action
  <2>1. 1 \in 1 .. m - 1 /\ n + 1 + 1 = n + 2 /\ n + 2 \in 1 .. last /\ 2 \in 2 .. m
      BY <1>1, <1>2, <1>10
  <2>2. commandActions'[1] = list[n + 2]
      BY <1>8, <2>1
  <2>3. LegalAction(list[n + 2]) /\ list[n + 2] \in Action
      BY <2>1, HistoryTypes DEF LegalList, list, last
  <2>4. list[n + 2].parts # 1
    <3>1. 2 \in 1 .. m
        BY <1>1, <2>1
    <3> QED BY <1>1, <1>7, <2>1, <3>1
  <2> QED BY <1>2, <1>10, <2>1, <2>2, <2>3, <2>4 DEF Front, FrontKind
<1>11. commandActions' = <<>> => FrontKind' = "none"
    BY DEF FrontKind
<1>12. PartsInv(h)'
  <2>1. CASE commandActions' = <<>>
      BY <1>2, <1>11, <2>1 DEF PartsInv
  <2>2. CASE commandActions' # <<>> /\ FrontKind' = "transmit"
    <3>1. parts' \in 1 .. 3 /\ parts' # 1 /\ list[n + 2].kind = "transmit"
        BY <1>10, <2>2 DEF LegalAction
    <3>2. ~ (h.answered > n + 1)
        BY <1>1, <1>7, <3>1
    <3> QED BY <1>3, <2>2, <3>1, <3>2 DEF PartsInv
  <2>3. CASE commandActions' # <<>> /\ FrontKind' # "transmit"
      BY <1>10, <2>3 DEF LegalAction, PartsInv
  <2> QED BY <2>1, <2>2, <2>3
<1>13. n + 1 \in Nat /\ n + 1 <= h.answered /\ Len(sent) \in Nat /\ Len(got') \in Nat
    BY <1>1, <1>7, Lengths
<1>14. h.data[n + 1] <= Len(sent)
    BY <1>13, EndsIs
<1>17. taken = h.ends[n + 1]
    BY <1>0
<1>15. FrontKind' = "ack" /\ n + 1 < h.answered => taken < h.ends[n + 2]
  <2>1. SUFFICES ASSUME FrontKind' = "ack", n + 1 < h.answered
                 PROVE  taken < h.ends[n + 2]
      OBVIOUS
  <2>2. list[n + 2].kind = "ack"
      BY <1>10, <1>11, <2>1
  <2>3. n + 2 \in Nat /\ n + 2 <= h.answered /\ n + 2 > 0 /\ n + 2 - 1 = n + 1
      BY <1>1, <2>1
  <2>4. Sent(h, n + 2)
      BY <2>3, EndsIs
  <2>5. AckSent(h, n + 2)
      BY <2>2, <2>4 DEF Sent, list
  <2>6. h.ends[n + 2 - 1] < h.ends[n + 2]
      BY <2>5 DEF AckSent
  <2> QED BY <1>17, <2>3, <2>6
<1>16. HostInv(h, taken)'
  <2>1. Len(got') = h.data[n + 1] /\ Len(got') <= Len(sent)
      BY <1>0, <1>14
  <2>2. \A j \in 1 .. Len(got') : got'[j] = sent'[j]
      OBVIOUS
  <2>3. Len(got') <= Len(sent')
      BY <2>1
  <2>4. nBytesTotal' = Unknown /\ nBytesReceived' = 0 /\ Executed(h)' = n + 1
      BY <1>2, <1>3
  <2>5. h.ends[n + 1] \in Nat /\ h.data[n + 1] \in Nat /\ n + 1 + 1 = n + 2
    <3>1. n + 1 + 1 = n + 2
        OBVIOUS
    <3>2. n + 1 \in Nat
        BY <1>13
    <3>3. h.ends[n + 1] \in Nat /\ h.data[n + 1] \in Nat
        BY <3>2, HistoryTypes
    <3> QED BY <3>1, <3>3
  <2>6. Len(got') = h.data[n + 1] + 0
      BY <2>1, <2>5
  <2>7. FrontKind' = "ack" =>
          /\ h.ends[n + 1] <= taken
          /\ n + 1 < h.answered => taken < h.ends[n + 1 + 1]
      BY <1>15, <1>17, <2>5
  <2> QED BY <1>17, <2>1, <2>2, <2>3, <2>4, <2>6, <2>7 DEF HostInv
<1> QED BY <1>0, <1>5, <1>6, <1>9, <1>12, <1>16

-----------------------------------------------------------------------------
(* The steps that leave the list of actions and the bytes where they are.  *)

LEMMA AlignedKept ==
    ASSUME Types, NEW h \in History, NEW taken \in Nat, Aligned(h, taken),
           UNCHANGED <<actions, internalRange, queue, answer, line, sent, got>>,
           faults' \in Nat, faults' >= faults, listening' => listening
    PROVE  Aligned(h, taken)'
<1>1. FlightInv(h, taken)'
    BY DEF Aligned, FlightInv
<1>2. ListInv(h)' /\ PartsInv(h)'
    BY ListKept DEF Aligned
<1>3. AnswerInv(h)'
    BY AnswerKept DEF Aligned
<1>4. StreamInv(h)'
    BY StreamKept DEF Aligned
<1>5. HostInv(h, taken)'
    BY HostKept DEF Aligned
<1> QED BY <1>1, <1>2, <1>3, <1>4, <1>5 DEF Aligned

LEMMA NothingToHandleKeeps ==
    ASSUME Inv, NothingToHandle
    PROVE  Inv'
<1>1. PICK h \in History, taken \in Nat : Aligned(h, taken)
    BY DEF Inv
<1>2. Types /\ OutcomeInv /\ RangeInv /\ TriedInv
    BY DEF Inv
<1>3. /\ UNCHANGED <<actions, internalRange, queue, notified, timeoutTimer, listening, onError, target,
                     outcomes, sent, got>>
      /\ handling' = FALSE
      /\ queue = <<>> \/ FrontKind \in {"none", "transmit"}
    BY DEF NothingToHandle
<1>4. Types'
    BY <1>2, <1>3 DEF Types, actions, target
<1>5. OutcomeInv' /\ RangeInv'
    BY <1>2, <1>3 DEF OutcomeInv, RangeInv, actions
<1>6. TriedInv'
    BY <1>2, <1>3 DEF TriedInv, FrontKind, Front, actions, target
<1>7. Aligned(h, taken)'
  <2>1. faults' \in Nat /\ faults' >= faults
      BY <1>2, <1>3 DEF Types, target
  <2> QED BY <1>1, <1>2, <1>3, <2>1, AlignedKept DEF target
<1> QED BY <1>4, <1>5, <1>6, <1>7 DEF Inv

LEMMA DataReceivedKeeps ==
    ASSUME Inv, DataReceived
    PROVE  Inv'
<1>1. PICK h \in History, taken \in Nat : Aligned(h, taken)
    BY DEF Inv
<1>2. Types /\ OutcomeInv /\ RangeInv /\ TriedInv
    BY DEF Inv
<1>3. /\ UNCHANGED <<actions, internalRange, queue, timeoutTimer, listening, onError, target,
                     outcomes, sent, got>>
      /\ handling' = TRUE /\ notified' = FALSE
    BY DEF DataReceived
<1>4. Types'
    BY <1>2, <1>3 DEF Types, actions, target
<1>5. OutcomeInv' /\ RangeInv'
    BY <1>2, <1>3 DEF OutcomeInv, RangeInv, actions
<1>6. TriedInv'
    BY <1>2, <1>3 DEF TriedInv, target
<1>7. Aligned(h, taken)'
  <2>1. faults' \in Nat /\ faults' >= faults
      BY <1>2, <1>3 DEF Types, target
  <2> QED BY <1>1, <1>2, <1>3, <2>1, AlignedKept DEF target
<1> QED BY <1>4, <1>5, <1>6, <1>7 DEF Inv

LEMMA StopKeeps ==
    ASSUME Inv, Stop
    PROVE  Inv'
<1>1. PICK h \in History, taken \in Nat : Aligned(h, taken)
    BY DEF Inv
<1>2. Types /\ OutcomeInv /\ RangeInv /\ TriedInv
    BY DEF Inv
<1>3. /\ UNCHANGED <<actions, internalRange, queue, notified, handling, timeoutTimer, onError, answer,
                     line, outcomes, sent, got>>
      /\ faults' = faults + 1 /\ listening' = FALSE
    BY DEF Stop
<1>8. faults' \in Nat /\ faults' >= faults /\ faults' # 0
    BY <1>2, <1>3 DEF Types
<1>4. Types'
    BY <1>2, <1>3, <1>8 DEF Types, actions
<1>5. OutcomeInv' /\ RangeInv'
    BY <1>2, <1>3 DEF OutcomeInv, RangeInv, actions
<1>6. TriedInv'
    BY <1>8 DEF TriedInv
<1>7. Aligned(h, taken)'
    BY <1>1, <1>2, <1>3, <1>8, AlignedKept
<1> QED BY <1>4, <1>5, <1>6, <1>7 DEF Inv

(* No answer is without a byte. *)
LEMMA BufferNotEmpty ==
    ASSUME NEW action \in Action, LegalAction(action), action.kind \in Buffers
    PROVE  Header(action.kind) + action.size > 0 /\ Header(action.kind) \in Nat /\ action.size \in Nat
<1>1. action.size \in Nat /\ Header(action.kind) \in Nat
    BY Kinds DEF Header
<1>2. CASE action.kind \in {"predefined", "small"}
  <2>1. action.size \in 1 .. 256
      BY <1>2, Zenon DEF LegalAction
  <2>2. \A i \in 1 .. 256 : i > 0
      OBVIOUS
  <2>3. action.size > 0
      BY <2>1, <2>2, Zenon
  <2> QED BY <1>1, <2>3
<1>3. CASE action.kind = "big"
    BY <1>1, <1>3 DEF Header
<1> QED BY <1>1, <1>2, <1>3 DEF Buffers

(* A target that answered has sent bytes that the host could handle.       *)
LEMMA AnsweredHasBytes ==
    ASSUME Types, NEW h \in History, NEW taken \in Nat, Aligned(h, taken),
           faults = 0, listening, commandActions # <<>>, FrontKind # "transmit",
           answer = <<>>, line = <<>>
    PROVE  queue # <<>> /\ ~ (Len(queue) < SizeBytes)
<1>0. PICK n \in Nat : n = Executed(h)
    BY Where DEF Aligned
<1>1. /\ n + 1 <= Len(h.list) /\ Front = h.list[n + 1] /\ FrontKind = Front.kind
      /\ LegalAction(Front) /\ Front \in Action /\ FrontKind \in {"transmit", "ack"} \union Buffers
    BY <1>0, Where DEF Aligned
<1>2. n < h.answered
  <2>1. n <= h.answered /\ h.answered \in Nat /\ Len(h.list) \in Nat
      BY <1>0, HistoryTypes DEF Aligned, ListInv
  <2>2. h.answered + 0 = Len(h.list) \/ h.list[h.answered + 0 + 1].kind = "transmit"
    <3>1. Len(answer) = 0
        BY Lengths
    <3> QED BY <3>1 DEF Aligned, AnswerInv
  <2>3. h.answered + 0 = h.answered
      BY <2>1
  <2>4. CASE n = h.answered
    <3>1. h.list[n + 1].kind = "transmit"
        BY <1>1, <2>1, <2>2, <2>3, <2>4
    <3> QED BY <1>1, <3>1
  <2> QED BY <2>1, <2>4
<1>3. n + 1 \in Nat /\ n + 1 <= h.answered /\ n + 1 > 0 /\ n + 1 - 1 = n
    BY <1>2, HistoryTypes
<1>4. Sent(h, n + 1) /\ h.ends[n + 1] \in Nat /\ h.ends[n + 1] <= Len(h.stream) /\ h.ends[n] \in Nat
    BY <1>3, EndsIs, HistoryTypes DEF Aligned
<1>5. taken + Len(queue) = Len(h.stream) /\ Len(queue) \in Nat /\ Len(h.stream) \in Nat
  <2>1. taken + Len(queue) + Len(line) = Len(h.stream) /\ Len(line) = 0
      BY Lengths DEF Aligned, FlightInv
  <2>2. Len(queue) \in Nat /\ Len(h.stream) \in Nat
      BY Lengths, HistoryTypes
  <2> QED BY <2>1, <2>2
<1>6. CASE FrontKind = "ack"
  <2>1. taken < h.ends[n + 1]
      BY <1>0, <1>2, <1>6 DEF Aligned, HostInv, Buffers
  <2>2. Len(queue) > 0
      BY <1>4, <1>5, <2>1
  <2>3. SizeBytes = 0
      BY <1>1, <1>6 DEF SizeBytes
  <2> QED BY <1>5, <2>2, <2>3, Lengths
<1>7. CASE FrontKind \in Buffers
  <2>1. h.ends[n + 1] = h.ends[n] + Header(FrontKind) + Front.size
      BY <1>1, <1>3, <1>4, <1>7 DEF Sent, BufferSent
  <2>2. Header(FrontKind) \in Nat /\ Front.size \in Nat
      BY <1>1, Kinds DEF Header
  <2>3. CASE nBytesTotal = Unknown
    <3>1. SizeBytes = Header(FrontKind)
        BY <1>1, <1>7, <2>3 DEF SizeBytes, Header, Buffers
    <3>2. taken = h.ends[n]
        BY <1>0, <1>7, <2>3 DEF Aligned, HostInv
    <3>3. Header(FrontKind) + Front.size > 0
        BY <1>1, <1>7, BufferNotEmpty
    <3>4. Len(queue) > 0 /\ Len(queue) >= Header(FrontKind)
        BY <1>4, <1>5, <2>1, <2>2, <3>2, <3>3
    <3> QED BY <1>5, <2>2, <3>1, <3>4, Lengths
  <2>4. CASE nBytesTotal # Unknown
    <3>1. /\ nBytesTotal = Front.size /\ nBytesReceived < nBytesTotal
          /\ taken = h.ends[n] + Header(FrontKind) + nBytesReceived
        BY <1>0, <1>7, <2>4 DEF Aligned, HostInv
    <3>2. SizeBytes = 0
        BY <2>4 DEF SizeBytes
    <3>3. nBytesReceived \in Nat
        BY DEF Types
    <3>4. Len(queue) > 0
        BY <1>4, <1>5, <2>1, <2>2, <3>1, <3>3
    <3> QED BY <1>5, <3>2, <3>4, Lengths
  <2> QED BY <2>3, <2>4
<1> QED BY <1>1, <1>6, <1>7

LEMMA TimeoutKeeps ==
    ASSUME Inv, Timeout
    PROVE  Inv'
<1>1. PICK h \in History, taken \in Nat : Aligned(h, taken)
    BY DEF Inv
<1>2. Types /\ OutcomeInv /\ RangeInv /\ TriedInv
    BY DEF Inv
<1>3. /\ UNCHANGED <<actions, internalRange, queue, notified, handling, answer, line, sent, got>>
      /\ (faults' = faults /\ Quiet) \/ faults' = faults + 1
      /\ timeoutTimer' = FALSE /\ listening' = FALSE /\ onError' = FALSE
      /\ outcomes' = IF onError THEN Append(outcomes, "error") ELSE outcomes
      /\ ~handling /\ timeoutTimer
    BY DEF Timeout, OnError
<1>8. faults' \in Nat /\ faults' >= faults /\ (faults' = faults \/ faults' # 0)
    BY <1>2, <1>3 DEF Types
<1>9. commandActions # <<>> /\ onError
    BY <1>2, <1>3 DEF OutcomeInv
<1>4. Types'
    BY <1>2, <1>3, <1>8 DEF Types, actions
<1>5. RangeInv'
    BY <1>2, <1>3 DEF RangeInv
<1>10. OutcomeInv'
  <2>1. outcomes = <<>>
      BY <1>2, <1>9 DEF OutcomeInv
  <2>2. outcomes' = <<"error">>
      BY <1>3, <1>9, <2>1
  <2>3. commandActions' = commandActions
      BY <1>3 DEF actions
  <2> QED BY <1>3, <1>9, <2>2, <2>3 DEF OutcomeInv
<1>6. TriedInv'
  <2>1. SUFFICES ASSUME faults' = 0, RangeKept
                 PROVE  FALSE
      BY DEF TriedInv, RangeKept
  <2>2. faults = 0 /\ faults' = faults /\ Quiet
      BY <1>2, <1>3, <2>1 DEF Types
  <2>3. /\ listening /\ parts = 0 /\ answer = <<>> /\ line = <<>>
        /\ FrontKind \notin {"none", "transmit"} => queue = <<>> \/ Len(queue) < SizeBytes
      BY <1>2, <1>3, <2>1, <2>2 DEF TriedInv, Quiet
  <2>4. FrontKind # "none"
      BY <1>1, <1>2, <1>9, Where DEF Aligned, Buffers
  <2>5. FrontKind # "transmit"
      BY <1>1, <2>3 DEF Aligned, PartsInv
  <2>6. queue # <<>> /\ ~ (Len(queue) < SizeBytes)
      BY <1>1, <1>2, <1>9, <2>2, <2>3, <2>5, AnsweredHasBytes
  <2> QED BY <2>3, <2>4, <2>5, <2>6
<1>7. Aligned(h, taken)'
    BY <1>1, <1>2, <1>3, <1>8, AlignedKept
<1> QED BY <1>4, <1>5, <1>6, <1>7, <1>10 DEF Inv

-----------------------------------------------------------------------------
(* Bytes go from the line to the queue.                                    *)

LEMMA BytesReceivedKeeps ==
    ASSUME Inv, BytesReceived
    PROVE  Inv'
<1>1. PICK h \in History, taken \in Nat : Aligned(h, taken)
    BY DEF Inv
<1>2. Types /\ OutcomeInv /\ RangeInv /\ TriedInv
    BY DEF Inv
<1>3. /\ UNCHANGED <<actions, internalRange, handling, timeoutTimer, listening, onError, answer, faults,
                     outcomes, sent, got>>
      /\ notified' = (notified \/ listening)
    BY DEF BytesReceived
<1>4. PICK n \in 1 .. Len(line) :
        /\ line' = SubSeq(line, n + 1, Len(line))
        /\ queue' = IF listening THEN queue \o SubSeq(line, 1, n) ELSE queue
    BY DEF BytesReceived
<1> DEFINE part == SubSeq(line, 1, n)
           left == SubSeq(line, n + 1, Len(line))
<1>5. /\ n \in Nat /\ n >= 1 /\ n <= Len(line) /\ Len(line) \in Nat /\ Len(queue) \in Nat
      /\ line \in Seq(Byte) /\ queue \in Seq(Byte) /\ Len(h.stream) \in Nat
    BY <1>2, Lengths, HistoryTypes DEF Types
<1>6. /\ part \in Seq(Byte) /\ Len(part) = n
      /\ \A i \in 1 .. n : part[i] = line[i]
  <2>1. n <= Len(line) /\ 1 <= n + 1 /\ 1 \in Nat /\ 1 >= 1
      BY <1>5
  <2>2. /\ SubSeq(line, 1, n) \in Seq(Byte) /\ Len(SubSeq(line, 1, n)) = n - 1 + 1
        /\ \A i \in 1 .. n - 1 + 1 : SubSeq(line, 1, n)[i] = line[1 + i - 1]
      BY <1>5, <2>1, SubSeqFacts
  <2>3. n - 1 + 1 = n /\ \A i \in 1 .. n : 1 + i - 1 = i
      BY <1>5
  <2> QED BY <2>2, <2>3
<1>7. /\ left \in Seq(Byte) /\ Len(left) = Len(line) - n
      /\ \A i \in 1 .. Len(line) - n : left[i] = line[n + i]
  <2>1. PICK first \in Nat : first = n + 1
      BY <1>5
  <2>2. first >= 1 /\ first <= Len(line) + 1 /\ Len(line) <= Len(line)
      BY <1>5, <2>1
  <2>3. /\ SubSeq(line, first, Len(line)) \in Seq(Byte)
        /\ Len(SubSeq(line, first, Len(line))) = Len(line) - first + 1
        /\ \A i \in 1 .. Len(line) - first + 1 : SubSeq(line, first, Len(line))[i] = line[first + i - 1]
      BY <1>5, <2>2, SubSeqFacts
  <2>4. Len(line) - first + 1 = Len(line) - n /\ \A i \in 1 .. Len(line) - n : first + i - 1 = n + i
      BY <1>5, <2>1
  <2> QED BY <2>1, <2>3, <2>4
<1>8. line' = left /\ queue' = IF listening THEN queue \o part ELSE queue
    BY <1>4
<1> HIDE DEF part, left
<1>9. /\ queue \o part \in Seq(Byte) /\ Len(queue \o part) = Len(queue) + n
      /\ \A i \in 1 .. Len(queue) : (queue \o part)[i] = queue[i]
      /\ \A i \in 1 .. n : (queue \o part)[Len(queue) + i] = part[i]
  <2>1. queue \in Seq(Byte) /\ part \in Seq(Byte)
      BY <1>5, <1>6
  <2>2. /\ queue \o part \in Seq(Byte) /\ Len(queue \o part) = Len(queue) + Len(part)
        /\ \A i \in 1 .. Len(queue) : (queue \o part)[i] = queue[i]
        /\ \A i \in 1 .. Len(part) : (queue \o part)[Len(queue) + i] = part[i]
      BY <2>1, ConcatFacts
  <2> QED BY <1>6, <2>2
<1>10. queue' \in Seq(Byte) /\ line' \in Seq(Byte)
    BY <1>5, <1>7, <1>8, <1>9
<1>11. Types'
  <2>1. notified' \in BOOLEAN
      BY <1>2, <1>3 DEF Types
  <2> QED BY <1>2, <1>3, <1>10, <2>1 DEF Types, actions
<1>12. OutcomeInv' /\ RangeInv'
    BY <1>2, <1>3 DEF OutcomeInv, RangeInv, actions
<1>13. TriedInv'
    BY <1>2, <1>3 DEF TriedInv
<1>14. FlightInv(h, taken)'
  <2>1. /\ taken + Len(queue) + Len(line) <= Len(h.stream)
        /\ listening => taken + Len(queue) + Len(line) = Len(h.stream)
        /\ \A i \in 1 .. Len(queue) : queue[i] = h.stream[taken + i]
        /\ \A i \in 1 .. Len(line) : line[i] = h.stream[Len(h.stream) - Len(line) + i]
      BY <1>1 DEF Aligned, FlightInv
  <2>2. Len(line') = Len(line) - n
      BY <1>7, <1>8
  <2>3. ASSUME NEW i \in 1 .. Len(line')
        PROVE  line'[i] = h.stream[Len(h.stream) - Len(line') + i]
    <3>1. n + i \in 1 .. Len(line) /\ i \in 1 .. Len(line) - n
        BY <1>5, <2>2
    <3>2. Len(h.stream) - Len(line) + (n + i) = Len(h.stream) - Len(line') + i
      <4>1. n \in Nat /\ Len(line) \in Nat /\ Len(h.stream) \in Nat /\ i \in Nat
          BY <1>5
      <4>2. PICK a \in Nat, m \in Nat : a = Len(h.stream) /\ m = Len(line)
          BY <4>1
      <4>3. a - m + (n + i) = a - (m - n) + i
          BY <4>1
      <4> QED BY <2>2, <4>2, <4>3
    <3>3. line'[i] = line[n + i]
        BY <1>7, <1>8, <3>1
    <3> QED BY <2>1, <3>1, <3>2, <3>3
  <2>4. CASE listening
    <3>1. queue' = queue \o part /\ Len(queue') = Len(queue) + n
        BY <1>8, <1>9, <2>4
    <3>2. taken + Len(queue') + Len(line') = Len(h.stream)
      <4>1. taken + Len(queue) + Len(line) = Len(h.stream)
          BY <2>1, <2>4
      <4>2. PICK q \in Nat, m \in Nat : q = Len(queue) /\ m = Len(line)
          BY <1>5
      <4>3. taken + (q + n) + (m - n) = taken + q + m
          BY <1>5
      <4> QED BY <2>2, <3>1, <4>1, <4>2, <4>3
    <3>3. ASSUME NEW i \in 1 .. Len(queue')
          PROVE  queue'[i] = h.stream[taken + i]
      <4>1. CASE i <= Len(queue)
        <5>1. i \in 1 .. Len(queue)
            BY <1>5, <4>1
        <5> QED BY <1>9, <2>1, <3>1, <5>1
      <4>2. CASE i > Len(queue)
        <5>1. PICK k \in 1 .. n : i = Len(queue) + k
          <6>1. i - Len(queue) \in 1 .. n /\ i = Len(queue) + (i - Len(queue))
              BY <1>5, <3>1, <4>2
          <6> QED BY <6>1
        <5>2. queue'[i] = line[k]
            BY <1>6, <1>9, <3>1, <5>1
        <5>3. k \in 1 .. Len(line)
            BY <1>5
        <5>4. Len(h.stream) - Len(line) + k = taken + i
          <6>1. taken + Len(queue) + Len(line) = Len(h.stream)
              BY <2>1, <2>4
          <6>2. PICK q \in Nat, m \in Nat, a \in Nat : q = Len(queue) /\ m = Len(line) /\ a = Len(h.stream)
              BY <1>5
          <6>3. taken + q + m = a => a - m + k = taken + (q + k)
              BY <1>5
          <6> QED BY <5>1, <6>1, <6>2, <6>3
        <5> QED BY <2>1, <5>2, <5>3, <5>4
      <4> QED BY <1>5, <4>1, <4>2
    <3>4. taken + Len(queue') + Len(line') <= Len(h.stream)
        BY <1>5, <3>2
    <3> QED BY <2>3, <3>2, <3>3, <3>4 DEF FlightInv
  <2>5. CASE ~listening
    <3>1. queue' = queue
        BY <1>8, <2>5
    <3>2. taken + Len(queue') + Len(line') <= Len(h.stream)
        BY <1>5, <2>1, <2>2, <3>1
    <3> QED BY <1>3, <2>1, <2>3, <2>5, <3>1, <3>2 DEF FlightInv
  <2> QED BY <2>4, <2>5
<1>15. ListInv(h)' /\ PartsInv(h)' /\ AnswerInv(h)' /\ StreamInv(h)' /\ HostInv(h, taken)'
  <2>1. faults' \in Nat /\ faults' >= faults
      BY <1>2, <1>3 DEF Types
  <2> QED BY <1>1, <1>2, <1>3, <2>1, ListKept, AnswerKept, StreamKept, HostKept DEF Aligned
<1> QED BY <1>11, <1>12, <1>13, <1>14, <1>15 DEF Inv, Aligned

-----------------------------------------------------------------------------
(* The target sends more bytes: the history grows at its end.              *)

Grown(h, later) ==
    /\ later.list = h.list
    /\ Len(h.stream) <= Len(later.stream)
    /\ \A j \in 1 .. Len(h.stream) : later.stream[j] = h.stream[j]
    /\ h.answered <= later.answered
    /\ \A i \in 0 .. h.answered : later.ends[i] = h.ends[i] /\ later.data[i] = h.data[i]

(* The longer sequence is q and then part. *)
Extends(longer, q, part) ==
    /\ longer \in Seq(Byte) /\ Len(longer) = Len(q) + Len(part)
    /\ \A i \in 1 .. Len(q) : longer[i] = q[i]
    /\ \A i \in 1 .. Len(part) : longer[Len(q) + i] = part[i]

LEMMA ConcatExtends ==
    ASSUME NEW q \in Seq(Byte), NEW part \in Seq(Byte)
    PROVE  Extends(q \o part, q, part)
BY ConcatFacts DEF Extends

(* What was sent in answer to an action stays. *)
LEMMA SentKept ==
    ASSUME Types, NEW h \in History, NEW later \in History, Grown(h, later), StreamInv(h),
           h.answered <= Len(h.list), faults' \in Nat, faults' >= faults,
           Len(sent') \in Nat, Len(sent') >= Len(sent), \A j \in 1 .. Len(sent) : sent'[j] = sent[j],
           NEW i \in 1 .. h.answered
    PROVE  Sent(later, i)'
<1>1. /\ i \in Nat /\ i - 1 \in Nat /\ i - 1 >= 0 /\ i > 0 /\ i <= h.answered /\ i - 1 <= h.answered
      /\ h.answered \in Nat
    BY HistoryTypes
<1>2. /\ h.ends[i] \in Nat /\ h.ends[i] <= Len(h.stream) /\ h.data[i] \in Nat /\ h.data[i] <= Len(sent)
      /\ Sent(h, i) /\ h.ends[i - 1] \in Nat /\ h.data[i - 1] \in Nat
    BY <1>1, EndsIs
<1>3. /\ later.ends[i] = h.ends[i] /\ later.ends[i - 1] = h.ends[i - 1]
      /\ later.data[i] = h.data[i] /\ later.data[i - 1] = h.data[i - 1]
      /\ later.list = h.list
  <2>1. i \in 0 .. h.answered /\ i - 1 \in 0 .. h.answered
      BY <1>1
  <2> QED BY <2>1 DEF Grown
<1>4. /\ Len(h.stream) \in Nat /\ Len(later.stream) \in Nat /\ Len(sent) \in Nat
      /\ Len(h.stream) <= Len(later.stream)
    BY HistoryTypes, Lengths DEF Grown
<1>5. \A j \in Nat : j >= 1 /\ j <= h.ends[i] => later.stream[j] = h.stream[j]
  <2>1. ASSUME NEW j \in Nat, j >= 1, j <= h.ends[i]
        PROVE  later.stream[j] = h.stream[j]
    <3>1. j \in 1 .. Len(h.stream)
        BY <1>2, <1>4, <2>1
    <3> QED BY <3>1 DEF Grown
  <2> QED BY <2>1
<1>6. later.ends[i] <= Len(later.stream) /\ later.data[i] <= Len(sent')
    BY <1>2, <1>3, <1>4
<1>7. /\ h.data[i] = h.data[i - 1] + h.list[i].size
      /\ h.list[i].kind = "transmit" => h.ends[i] = h.ends[i - 1]
    BY <1>2 DEF Sent
<1>8. ASSUME h.list[i].kind = "ack"
      PROVE  AckSent(later, i)'
  <2>1. /\ h.ends[i - 1] < h.ends[i]
        /\ h.stream[h.ends[i]] = ack
        /\ \A j \in h.ends[i - 1] + 1 .. h.ends[i] - 1 : h.stream[j] # ack
        /\ faults = 0 => h.ends[i] = h.ends[i - 1] + 1
      BY <1>2, <1>8 DEF Sent, AckSent
  <2>2. later.stream[h.ends[i]] = ack
    <3>1. h.ends[i] >= 1 /\ h.ends[i] <= h.ends[i]
        BY <1>2, <2>1
    <3> QED BY <1>2, <1>5, <2>1, <3>1
  <2>3. ASSUME NEW j \in h.ends[i - 1] + 1 .. h.ends[i] - 1
        PROVE  later.stream[j] # ack
    <3>1. j \in Nat /\ j >= 1 /\ j <= h.ends[i]
        BY <1>2
    <3> QED BY <1>5, <2>1, <3>1
  <2>4. faults' = 0 => faults = 0
      BY DEF Types
  <2> QED BY <1>3, <2>1, <2>2, <2>3, <2>4 DEF AckSent
<1>9. ASSUME h.list[i].kind \in Buffers
      PROVE  BufferSent(later, i)'
  <2> DEFINE header == Header(h.list[i].kind)
             size == h.list[i].size
  <2>1. /\ h.ends[i] = h.ends[i - 1] + header + size
        /\ h.list[i].kind = "small" => h.stream[h.ends[i - 1] + 1] = size - 1
        /\ h.list[i].kind = "big" =>
             h.stream[h.ends[i - 1] + 1] = 0 /\ h.stream[h.ends[i - 1] + 2] = size
        /\ \A j \in 1 .. size : h.stream[h.ends[i - 1] + header + j] = sent[h.data[i - 1] + j]
      BY <1>2, <1>9 DEF Sent, BufferSent
  <2>2. header \in Nat /\ size \in Nat
    <3>1. i \in 1 .. Len(h.list)
        BY <1>1, HistoryTypes
    <3>2. h.list[i] \in Action
        BY <3>1, HistoryTypes
    <3> QED BY <3>2, Kinds DEF Header
  <2>3. (h.list[i].kind = "small" => header = 1) /\ (h.list[i].kind = "big" => header = 2)
      BY DEF Header
  <2>7. h.data[i] = h.data[i - 1] + size
      BY <1>7
  <2> HIDE DEF header, size
  <2>8. PICK start \in Nat, before \in Nat, end \in Nat, hd \in Nat, sz \in Nat :
          /\ start = h.ends[i - 1] /\ before = h.data[i - 1] /\ end = h.ends[i]
          /\ hd = header /\ sz = size
      BY <1>2, <2>2
  <2>9. end = start + hd + sz
      BY <2>1, <2>8
  <2>10. before + sz <= Len(sent)
      BY <1>2, <2>7, <2>8
  <2>4. h.list[i].kind = "small" => later.stream[h.ends[i - 1] + 1] = size - 1
    <3>1. SUFFICES ASSUME h.list[i].kind = "small"
                   PROVE  later.stream[h.ends[i - 1] + 1] = size - 1
        OBVIOUS
    <3>2. hd = 1
        BY <2>3, <2>8, <3>1
    <3>3. start + 1 \in Nat /\ start + 1 >= 1 /\ start + 1 <= end
        BY <2>9, <3>2
    <3>4. later.stream[start + 1] = h.stream[start + 1]
        BY <1>5, <2>8, <3>3
    <3> QED BY <2>1, <2>8, <3>1, <3>4
  <2>5. h.list[i].kind = "big" =>
          later.stream[h.ends[i - 1] + 1] = 0 /\ later.stream[h.ends[i - 1] + 2] = size
    <3>1. SUFFICES ASSUME h.list[i].kind = "big"
                   PROVE  later.stream[h.ends[i - 1] + 1] = 0 /\ later.stream[h.ends[i - 1] + 2] = size
        OBVIOUS
    <3>2. hd = 2
        BY <2>3, <2>8, <3>1
    <3>3. start + 1 \in Nat /\ start + 1 >= 1 /\ start + 1 <= end
        BY <2>9, <3>2
    <3>4. start + 2 \in Nat /\ start + 2 >= 1 /\ start + 2 <= end
        BY <2>9, <3>2
    <3>5. later.stream[start + 1] = h.stream[start + 1] /\ later.stream[start + 2] = h.stream[start + 2]
        BY <1>5, <2>8, <3>3, <3>4
    <3> QED BY <2>1, <2>8, <3>1, <3>5
  <2>6. ASSUME NEW j \in 1 .. size
        PROVE  later.stream[h.ends[i - 1] + header + j] = sent'[h.data[i - 1] + j]
    <3>1. j \in 1 .. sz
        BY <2>8
    <3>2. start + hd + j \in Nat /\ start + hd + j >= 1 /\ start + hd + j <= end
        BY <2>9, <3>1
    <3>3. before + j \in 1 .. Len(sent)
        BY <1>4, <2>10, <3>1
    <3>4. sent'[before + j] = sent[before + j]
        BY <3>3
    <3>5. later.stream[start + hd + j] = h.stream[start + hd + j]
        BY <1>5, <2>8, <3>2
    <3>6. h.stream[start + hd + j] = sent[before + j]
        BY <2>1, <2>8
    <3> QED BY <2>8, <3>4, <3>5, <3>6
  <2> QED BY <1>3, <2>1, <2>4, <2>5, <2>6 DEF BufferSent, header, size
<1> QED BY <1>3, <1>6, <1>7, <1>8, <1>9 DEF Sent

(* The bytes on their way, when more are put on the line. *)
LEMMA FlightGrows ==
    ASSUME Types, NEW h \in History, NEW later \in History, NEW taken \in Nat, FlightInv(h, taken),
           NEW bytes \in Seq(Byte), Extends(later.stream, h.stream, bytes), Extends(line', line, bytes),
           queue' = queue, listening' = listening
    PROVE  FlightInv(later, taken)'
<1>1. /\ taken + Len(queue) + Len(line) <= Len(h.stream)
      /\ listening => taken + Len(queue) + Len(line) = Len(h.stream)
      /\ \A i \in 1 .. Len(queue) : queue[i] = h.stream[taken + i]
      /\ \A i \in 1 .. Len(line) : line[i] = h.stream[Len(h.stream) - Len(line) + i]
    BY DEF FlightInv
<1>2. PICK q \in Nat, m \in Nat, a \in Nat, b \in Nat :
        q = Len(queue) /\ m = Len(line) /\ a = Len(h.stream) /\ b = Len(bytes)
  <2>1. Len(bytes) \in Nat
      OBVIOUS
  <2> QED BY <2>1, Lengths, HistoryTypes
<1>3. /\ Len(later.stream) = a + b /\ Len(line') = m + b
      /\ \A i \in 1 .. a : later.stream[i] = h.stream[i]
      /\ \A i \in 1 .. b : later.stream[a + i] = bytes[i]
      /\ \A i \in 1 .. m : line'[i] = line[i]
      /\ \A i \in 1 .. b : line'[m + i] = bytes[i]
    BY <1>2 DEF Extends
<1>4. taken + q + m <= a
    BY <1>1, <1>2
<1>5. taken + Len(queue') + Len(line') <= Len(later.stream)
  <2>1. taken + q + (m + b) <= a + b
      BY <1>4
  <2> QED BY <1>2, <1>3, <2>1
<1>6. listening' => taken + Len(queue') + Len(line') = Len(later.stream)
  <2>1. taken + q + m = a => taken + q + (m + b) = a + b
      OBVIOUS
  <2> QED BY <1>1, <1>2, <1>3, <2>1
<1>7. ASSUME NEW i \in 1 .. Len(queue')
      PROVE  queue'[i] = later.stream[taken + i]
  <2>1. i \in 1 .. q /\ taken + i \in 1 .. a
      BY <1>2, <1>4
  <2> QED BY <1>1, <1>2, <1>3, <2>1
<1>8. ASSUME NEW i \in 1 .. Len(line')
      PROVE  line'[i] = later.stream[Len(later.stream) - Len(line') + i]
  <2>1. i \in 1 .. m + b
      BY <1>3
  <2>2. Len(later.stream) - Len(line') + i = a - m + i
    <3>1. (a + b) - (m + b) + i = a - m + i
        BY <2>1
    <3> QED BY <1>3, <3>1
  <2>3. CASE i <= m
    <3>1. i \in 1 .. m /\ a - m + i \in 1 .. a
        BY <1>4, <2>1, <2>3
    <3> QED BY <1>1, <1>2, <1>3, <2>2, <3>1
  <2>4. CASE i > m
    <3>1. PICK k \in 1 .. b : i = m + k
      <4>1. i - m \in 1 .. b /\ i = m + (i - m)
          BY <2>1, <2>4
      <4> QED BY <4>1
    <3>2. a - m + i = a + k
        BY <3>1
    <3> QED BY <1>3, <2>2, <3>1, <3>2
  <2> QED BY <2>1, <2>3, <2>4
<1> QED BY <1>5, <1>6, <1>7, <1>8 DEF FlightInv

LEMMA HostGrown ==
    ASSUME Types, NEW h \in History, NEW later \in History, NEW taken \in Nat,
           ListInv(h), HostInv(h, taken), Grown(h, later),
           UNCHANGED <<commandActions, nBytesTotal, nBytesReceived, internalRange, got>>,
           sent' \in Seq(Byte), Len(sent') >= Len(sent), \A j \in 1 .. Len(sent) : sent'[j] = sent[j],
           faults' \in Nat, faults' >= faults,
           FrontKind = "ack" /\ h.answered < later.answered => taken < later.ends[h.answered + 1]
    PROVE  HostInv(later, taken)'
<1>1. PICK n \in Nat : n = Executed(h)
    BY Where
<1>2. /\ n <= h.answered /\ h.answered \in Nat /\ later.answered \in Nat /\ h.answered <= later.answered
      /\ later.list = h.list
    BY <1>1, HistoryTypes DEF ListInv, Grown
<1>3. later.ends[n] = h.ends[n] /\ later.data[n] = h.data[n]
  <2>1. n \in 0 .. h.answered
      BY <1>2
  <2> QED BY <2>1 DEF Grown
<1>4. /\ UNCHANGED <<FrontKind, Front, RangeSize, nBytesTotal, nBytesReceived, got>>
      /\ Executed(later)' = n
    BY <1>1, <1>2 DEF FrontKind, Front, RangeSize, Executed
<1>5. faults' = 0 => faults = 0
    BY DEF Types
<1>6. /\ Len(got) <= Len(sent)
      /\ \A j \in 1 .. Len(got) : got[j] = sent[j]
      /\ FrontKind \notin Buffers =>
           nBytesTotal = Unknown /\ nBytesReceived = 0 /\ Len(got) = h.data[n]
      /\ FrontKind \in {"none", "transmit"} => taken = h.ends[n]
      /\ FrontKind = "ack" =>
           /\ h.ends[n] <= taken
           /\ n < h.answered => taken < h.ends[n + 1]
           /\ faults = 0 => taken = h.ends[n]
      /\ FrontKind \in Buffers =>
           /\ Len(got) = h.data[n] + nBytesReceived
           /\ nBytesTotal = Unknown => nBytesReceived = 0 /\ taken = h.ends[n]
           /\ nBytesTotal # Unknown =>
                /\ n < h.answered
                /\ nBytesTotal = Front.size
                /\ nBytesReceived < nBytesTotal /\ nBytesReceived <= RangeSize
                /\ taken = h.ends[n] + Header(FrontKind) + nBytesReceived
    BY <1>1 DEF HostInv
<1>7. Len(got) <= Len(sent') /\ \A j \in 1 .. Len(got) : got[j] = sent'[j]
  <2>1. Len(got) \in Nat /\ Len(sent) \in Nat
      BY Lengths
  <2>2. Len(sent') \in Nat
      OBVIOUS
  <2>3. Len(got) <= Len(sent')
      BY <1>6, <2>1, <2>2
  <2>4. ASSUME NEW j \in 1 .. Len(got)
        PROVE  got[j] = sent'[j]
    <3>1. j \in 1 .. Len(sent)
        BY <1>6, <2>1
    <3> QED BY <1>6, <3>1
  <2> QED BY <2>3, <2>4
<1>8. FrontKind = "ack" => (n < later.answered => taken < later.ends[n + 1])
  <2>1. SUFFICES ASSUME FrontKind = "ack", n < later.answered
                 PROVE  taken < later.ends[n + 1]
      OBVIOUS
  <2>2. CASE n < h.answered
    <3>1. n + 1 \in 0 .. h.answered
        BY <1>2, <2>2
    <3>2. later.ends[n + 1] = h.ends[n + 1]
        BY <3>1 DEF Grown
    <3> QED BY <1>6, <2>1, <2>2, <3>2
  <2>3. CASE n = h.answered
      BY <2>1, <2>3
  <2> QED BY <1>2, <2>2, <2>3
<1>9. nBytesTotal # Unknown /\ FrontKind \in Buffers => n < later.answered
    BY <1>2, <1>6
<1>10. FrontKind = "ack" =>
         /\ later.ends[n] <= taken
         /\ n < later.answered => taken < later.ends[n + 1]
         /\ faults' = 0 => taken = later.ends[n]
    BY <1>3, <1>5, <1>6, <1>8
<1>11. FrontKind \in Buffers =>
         /\ Len(got) = later.data[n] + nBytesReceived
         /\ nBytesTotal = Unknown => nBytesReceived = 0 /\ taken = later.ends[n]
         /\ nBytesTotal # Unknown =>
              /\ n < later.answered
              /\ nBytesTotal = Front.size
              /\ nBytesReceived < nBytesTotal /\ nBytesReceived <= RangeSize
              /\ taken = later.ends[n] + Header(FrontKind) + nBytesReceived
    BY <1>3, <1>6, <1>9
<1>12. /\ FrontKind \notin Buffers =>
            nBytesTotal = Unknown /\ nBytesReceived = 0 /\ Len(got) = later.data[n]
       /\ FrontKind \in {"none", "transmit"} => taken = later.ends[n]
    BY <1>3, <1>6
<1> QED BY <1>4, <1>7, <1>10, <1>11, <1>12 DEF HostInv

(* The bytes, with the payload, are an answer to the action. *)
AnswersAction(action, bytes, payload) ==
    /\ Len(payload) = action.size
    /\ action.kind = "ack" => Len(bytes) = 1 /\ bytes[1] = ack
    /\ action.kind \in Buffers =>
         /\ Len(bytes) = Header(action.kind) + action.size
         /\ action.kind = "small" => bytes[1] = action.size - 1
         /\ action.kind = "big" => bytes[1] = 0 /\ bytes[2] = action.size
         /\ \A j \in 1 .. action.size : bytes[Header(action.kind) + j] = payload[j]

LEMMA FramedIs ==
    ASSUME NEW action \in Action, LegalAction(action), action.kind \in Buffers,
           NEW payload \in Seq(Byte), Len(payload) = action.size
    PROVE  /\ Framed(action.kind, payload) \in Seq(Byte)
           /\ AnswersAction(action, Framed(action.kind, payload), payload)
<1> DEFINE bytes == Framed(action.kind, payload)
<1>1. PICK size \in Nat : size = action.size
    BY Kinds
<1>2. CASE action.kind = "small"
  <2>1. size - 1 \in Byte
    <3>1. action.size \in 1 .. 256
        BY <1>2, Zenon DEF LegalAction
    <3> QED BY <1>1, <3>1 DEF Byte
  <2>2. <<size - 1>> \in Seq(Byte) /\ Len(<<size - 1>>) = 1 /\ <<size - 1>>[1] = size - 1
      BY <2>1
  <2> DEFINE prefix == <<size - 1>>
  <2>3. bytes = prefix \o payload
      BY <1>1, <1>2 DEF Framed
  <2> HIDE DEF prefix, bytes
  <2>4. prefix \in Seq(Byte) /\ Len(prefix) = 1 /\ prefix[1] = size - 1
      BY <2>2 DEF prefix
  <2>5. /\ bytes \in Seq(Byte) /\ Len(bytes) = Len(prefix) + Len(payload)
        /\ \A i \in 1 .. Len(prefix) : bytes[i] = prefix[i]
        /\ \A i \in 1 .. Len(payload) : bytes[Len(prefix) + i] = payload[i]
    <3>1. prefix \in Seq(Byte) /\ payload \in Seq(Byte)
        BY <2>4
    <3>2. /\ prefix \o payload \in Seq(Byte) /\ Len(prefix \o payload) = Len(prefix) + Len(payload)
          /\ \A i \in 1 .. Len(prefix) : (prefix \o payload)[i] = prefix[i]
          /\ \A i \in 1 .. Len(payload) : (prefix \o payload)[Len(prefix) + i] = payload[i]
        BY <3>1, ConcatFacts
    <3> QED BY <2>3, <3>2
  <2>6. Header(action.kind) = 1
      BY <1>2 DEF Header
  <2>7. Len(bytes) = 1 + size /\ bytes[1] = size - 1 /\ \A i \in 1 .. size : bytes[1 + i] = payload[i]
      BY <1>1, <2>4, <2>5
  <2>8. AnswersAction(action, bytes, payload)
      BY <1>1, <1>2, <2>6, <2>7 DEF AnswersAction
  <2> QED BY <2>5, <2>8 DEF bytes
<1>3. CASE action.kind = "big"
  <2>1. size \in Byte /\ 0 \in Byte
    <3>1. action.size \in 0 .. 255
        BY <1>3, Zenon DEF LegalAction
    <3> QED BY <1>1, <3>1 DEF Byte
  <2> DEFINE prefix == <<0, size>>
  <2>3. bytes = prefix \o payload
      BY <1>1, <1>3 DEF Framed
  <2>4. prefix \in Seq(Byte) /\ Len(prefix) = 2 /\ prefix[1] = 0 /\ prefix[2] = size
      BY <2>1
  <2> HIDE DEF prefix, bytes
  <2>5. /\ bytes \in Seq(Byte) /\ Len(bytes) = Len(prefix) + Len(payload)
        /\ \A i \in 1 .. Len(prefix) : bytes[i] = prefix[i]
        /\ \A i \in 1 .. Len(payload) : bytes[Len(prefix) + i] = payload[i]
    <3>1. prefix \in Seq(Byte) /\ payload \in Seq(Byte)
        BY <2>4
    <3>2. /\ prefix \o payload \in Seq(Byte) /\ Len(prefix \o payload) = Len(prefix) + Len(payload)
          /\ \A i \in 1 .. Len(prefix) : (prefix \o payload)[i] = prefix[i]
          /\ \A i \in 1 .. Len(payload) : (prefix \o payload)[Len(prefix) + i] = payload[i]
        BY <3>1, ConcatFacts
    <3> QED BY <2>3, <3>2
  <2>6. Header(action.kind) = 2
      BY <1>3 DEF Header
  <2>7. /\ Len(bytes) = 2 + size /\ bytes[1] = 0 /\ bytes[2] = size
        /\ \A i \in 1 .. size : bytes[2 + i] = payload[i]
      BY <1>1, <2>4, <2>5
  <2>8. AnswersAction(action, bytes, payload)
      BY <1>1, <1>3, <2>6, <2>7 DEF AnswersAction
  <2> QED BY <2>5, <2>8 DEF bytes
<1>4. CASE action.kind = "predefined"
  <2>1. bytes = payload
      BY <1>4 DEF Framed
  <2>2. Header(action.kind) = 0
      BY <1>4 DEF Header
  <2> HIDE DEF bytes
  <2>3. /\ Len(bytes) = 0 + size
        /\ \A j \in 1 .. size : bytes[0 + j] = payload[j]
      BY <1>1, <2>1
  <2>4. AnswersAction(action, bytes, payload)
      BY <1>1, <1>4, <2>2, <2>3 DEF AnswersAction
  <2> QED BY <2>1, <2>4 DEF bytes
<1> QED BY <1>2, <1>3, <1>4 DEF Buffers

Shortened(shorter, q) ==
    /\ Len(shorter) = Len(q) - 1
    /\ \A i \in 1 .. Len(q) - 1 : shorter[i] = q[i + 1]

(* The target answers its next action. *)
LEMMA AnswersGrow ==
    ASSUME Types, NEW h \in History, NEW taken \in Nat, Aligned(h, taken), answer # <<>>,
           Shortened(answer', answer), NEW bytes \in Seq(Byte), NEW payload \in Seq(Byte),
           Extends(line', line, bytes), Extends(sent', sent, payload),
           AnswersAction(answer[1], bytes, payload),
           UNCHANGED <<actions, internalRange, queue, listening, faults, got>>
    PROVE  \E later \in History : Aligned(later, taken)'
<1>1. PICK a \in Nat, end \in Nat, last \in Nat, more \in Nat, all \in Nat :
        a = h.answered /\ end = Len(h.stream) /\ last = Len(h.list) /\ more = Len(bytes) /\ all = Len(sent)
  <2>1. Len(bytes) \in Nat
      OBVIOUS
  <2> QED BY <2>1, HistoryTypes, Lengths
<1>2. /\ Len(answer) \in Nat /\ Len(answer) >= 1 /\ a + Len(answer) <= last /\ a + 1 <= last
      /\ 1 \in 1 .. Len(answer) /\ a + 1 \in 1 .. last
  <2>1. a + Len(answer) <= last /\ Len(answer) \in Nat /\ Len(answer) # 0
      BY <1>1, Lengths DEF Aligned, AnswerInv
  <2> QED BY <2>1
<1>3. /\ answer[1] = h.list[a + 1] /\ answer[1].kind # "transmit" /\ answer[1] \in Action
      /\ LegalAction(answer[1])
  <2>1. answer[1] = h.list[a + 1] /\ answer[1].kind # "transmit"
      BY <1>1, <1>2 DEF Aligned, AnswerInv
  <2>2. h.list[a + 1] \in Action /\ LegalAction(h.list[a + 1])
      BY <1>1, <1>2, HistoryTypes DEF LegalList
  <2> QED BY <2>1, <2>2
<1>4. PICK kind \in {"ack"} \union Buffers, size \in Nat, header \in Nat :
        kind = answer[1].kind /\ size = answer[1].size /\ header = Header(kind)
  <2>1. answer[1].size \in Nat /\ Header(answer[1].kind) \in Nat /\ answer[1].kind \in {"ack"} \union Buffers
      BY <1>3, Kinds DEF Header
  <2> QED BY <2>1
<1>20. PICK next \in Nat, longer \in Nat, larger \in Nat :
         next = a + 1 /\ longer = end + more /\ larger = all + size
    OBVIOUS
<1> DEFINE ends == [h.ends EXCEPT ![next] = longer]
           data == [h.data EXCEPT ![next] = larger]
           later == [list |-> h.list, stream |-> h.stream \o bytes, ends |-> ends, data |-> data,
                     answered |-> next]
<1>5. Extends(h.stream \o bytes, h.stream, bytes)
  <2>1. h.stream \in Seq(Byte)
      BY HistoryTypes
  <2> QED BY <2>1, ConcatExtends
<1>6. h.stream \o bytes \in Seq(Byte)
    BY <1>5 DEF Extends
<1>21. /\ ends \in [Nat -> Nat] /\ ends[next] = longer /\ \A i \in 0 .. a : ends[i] = h.ends[i]
       /\ data \in [Nat -> Nat] /\ data[next] = larger /\ \A i \in 0 .. a : data[i] = h.data[i]
  <2>1. h.ends \in [Nat -> Nat] /\ h.data \in [Nat -> Nat]
      BY HistoryTypes
  <2>2. \A i \in 0 .. a : i \in Nat /\ i # next
      BY <1>20
  <2> QED BY <2>1, <2>2
<1> HIDE DEF ends, data
<1>7. later \in History
  <2>1. h.list \in Lists
      BY DEF History
  <2> QED BY <1>6, <1>21, <2>1 DEF History
<1>8. /\ later.list = h.list /\ Extends(later.stream, h.stream, bytes) /\ later.answered = a + 1
      /\ later.ends[a + 1] = end + more /\ later.data[a + 1] = all + size
      /\ \A i \in 0 .. a : later.ends[i] = h.ends[i] /\ later.data[i] = h.data[i]
    BY <1>5, <1>20, <1>21
<1> HIDE DEF later
<1>9. /\ Len(later.stream) = end + more
      /\ \A j \in 1 .. end : later.stream[j] = h.stream[j]
      /\ \A j \in 1 .. more : later.stream[end + j] = bytes[j]
    BY <1>1, <1>8 DEF Extends
<1>10. Grown(h, later)
  <2>1. a <= a + 1 /\ end <= end + more
      OBVIOUS
  <2> QED BY <1>1, <1>8, <1>9, <2>1 DEF Grown
<1>11. /\ sent' \in Seq(Byte) /\ Len(sent') = all + size /\ Len(payload) = size
       /\ \A j \in 1 .. all : sent'[j] = sent[j]
       /\ \A j \in 1 .. size : sent'[all + j] = payload[j]
  <2>1. Len(payload) = size
      BY <1>4 DEF AnswersAction
  <2> QED BY <1>1, <2>1 DEF Extends
<1>12. /\ faults' \in Nat /\ faults' >= faults /\ Len(sent') \in Nat /\ Len(sent') >= Len(sent)
       /\ \A j \in 1 .. Len(sent) : sent'[j] = sent[j]
  <2>1. faults' \in Nat /\ faults' >= faults
      BY DEF Types
  <2> QED BY <1>1, <1>11, <2>1
<1>13. /\ h.ends[a] \in Nat /\ h.ends[a] <= end /\ h.data[a] = all
       /\ \A j \in h.ends[a] + 1 .. end : h.stream[j] # ack
       /\ h.ends[a] < end => faults > 0 /\ h.list[a + 1].kind = "ack"
    BY <1>1, HistoryTypes DEF Aligned, StreamInv
<1>14. FlightInv(later, taken)'
    BY <1>7, <1>8, FlightGrows DEF Aligned
<1>15. HostInv(later, taken)'
  <2>1. FrontKind = "ack" /\ h.answered < later.answered => taken < later.ends[h.answered + 1]
    <3>1. SUFFICES ASSUME FrontKind = "ack"
                   PROVE  taken < later.ends[a + 1]
        BY <1>1
    <3>2. taken <= end
      <4>1. taken + Len(queue) + Len(line) <= end
          BY <1>1 DEF Aligned, FlightInv
      <4>2. Len(queue) \in Nat /\ Len(line) \in Nat
          BY Lengths
      <4> QED BY <4>1, <4>2
    <3>3. more > 0
      <4>1. CASE kind = "ack"
          BY <1>1, <1>4, <4>1 DEF AnswersAction
      <4>2. CASE kind \in Buffers
        <5>1. Len(bytes) = header + size
            BY <1>4, <4>2 DEF AnswersAction
        <5>2. header + size > 0
            BY <1>3, <1>4, <4>2, BufferNotEmpty
        <5> QED BY <1>1, <5>1, <5>2
      <4> QED BY <1>4, <4>1, <4>2
    <3> QED BY <1>8, <3>2, <3>3
  <2>2. UNCHANGED <<commandActions, nBytesTotal, nBytesReceived, internalRange, got>>
      BY DEF actions
  <2> QED BY <1>7, <1>10, <1>11, <1>12, <2>1, <2>2, HostGrown DEF Aligned
<1>16. Sent(later, a + 1)'
  <2>0. a + 1 - 1 = a /\ later.ends[a] = h.ends[a] /\ later.data[a] = h.data[a] /\ later.list[a + 1] = answer[1]
    <3>1. a + 1 - 1 = a /\ a \in 0 .. a
        OBVIOUS
    <3> QED BY <1>3, <1>8, <3>1
  <2>1. later.ends[a + 1] <= Len(later.stream) /\ later.data[a + 1] <= Len(sent')
      BY <1>8, <1>9, <1>11
  <2>2. later.data[a + 1] = later.data[a] + later.list[a + 1].size
      BY <1>4, <1>8, <1>13, <2>0
  <2>3. ASSUME kind = "ack"
        PROVE  AckSent(later, a + 1)'
    <3>1. more = 1 /\ bytes[1] = ack
        BY <1>1, <1>4, <2>3 DEF AnswersAction
    <3>2. later.ends[a + 1] = end + 1
        BY <1>8, <3>1
    <3>3. later.stream[end + 1] = ack
        BY <1>9, <3>1
    <3>4. h.ends[a] < end + 1
        BY <1>13
    <3>5. ASSUME NEW j \in h.ends[a] + 1 .. end
          PROVE  later.stream[j] # ack
      <4>1. j \in 1 .. end
          BY <1>13
      <4> QED BY <1>9, <1>13, <4>1
    <3>6. faults' = 0 => end + 1 = h.ends[a] + 1
      <4>1. faults' = 0 => ~ (h.ends[a] < end)
          BY <1>13
      <4> QED BY <1>13, <4>1
    <3>7. end + 1 - 1 = end
        OBVIOUS
    <3> QED BY <2>0, <3>2, <3>3, <3>4, <3>5, <3>6, <3>7 DEF AckSent
  <2>4. ASSUME kind \in Buffers
        PROVE  BufferSent(later, a + 1)'
    <3>1. h.ends[a] = end
      <4>1. h.list[a + 1].kind # "ack"
          BY <1>3, <1>4, <2>4 DEF Buffers
      <4> QED BY <1>13, <4>1
    <3>2. /\ more = header + size
          /\ kind = "small" => bytes[1] = size - 1
          /\ kind = "big" => bytes[1] = 0 /\ bytes[2] = size
          /\ \A j \in 1 .. size : bytes[header + j] = payload[j]
        BY <1>1, <1>4, <2>4 DEF AnswersAction
    <3>3. later.ends[a + 1] = later.ends[a] + header + size
        BY <1>8, <2>0, <3>1, <3>2
    <3>4. kind = "small" => later.stream[end + 1] = size - 1
      <4>1. kind = "small" => 1 \in 1 .. more
          BY <1>4, <3>2 DEF Header
      <4> QED BY <1>9, <3>2, <4>1
    <3>5. kind = "big" => later.stream[end + 1] = 0 /\ later.stream[end + 2] = size
      <4>1. kind = "big" => 1 \in 1 .. more /\ 2 \in 1 .. more
          BY <1>4, <3>2 DEF Header
      <4> QED BY <1>9, <3>2, <4>1
    <3>6. ASSUME NEW j \in 1 .. size
          PROVE  later.stream[end + header + j] = sent'[all + j]
      <4>1. header + j \in 1 .. more /\ end + (header + j) = end + header + j
          BY <3>2
      <4>2. later.stream[end + (header + j)] = bytes[header + j]
          BY <1>9, <4>1
      <4> QED BY <1>11, <3>2, <4>1, <4>2
    <3>7. later.ends[a] = end /\ later.data[a] = all
        BY <1>13, <2>0, <3>1
    <3>8. later.list[a + 1].kind = kind /\ later.list[a + 1].size = size
        BY <1>4, <2>0
    <3>9. later.ends[a + 1 - 1] = end /\ later.data[a + 1 - 1] = all
        BY <2>0, <3>7
    <3>10. later.ends[a + 1] = end + header + size
        BY <3>3, <3>7
    <3>11. Header(later.list[a + 1].kind) = header
        BY <1>4, <3>8
    <3>12. \A j \in 1 .. size : later.stream[end + header + j] = sent'[all + j]
        BY <3>6
    <3>13. later.list[a + 1].kind = "small" => later.stream[later.ends[a + 1 - 1] + 1] = later.list[a + 1].size - 1
        BY <3>4, <3>8, <3>9
    <3>14. later.list[a + 1].kind = "big" =>
             /\ later.stream[later.ends[a + 1 - 1] + 1] = 0
             /\ later.stream[later.ends[a + 1 - 1] + 2] = later.list[a + 1].size
        BY <3>5, <3>8, <3>9
    <3>15. \A j \in 1 .. later.list[a + 1].size :
             later.stream[later.ends[a + 1 - 1] + Header(later.list[a + 1].kind) + j]
               = sent'[later.data[a + 1 - 1] + j]
        BY <3>8, <3>9, <3>11, <3>12
    <3>16. later.ends[a + 1] = later.ends[a + 1 - 1] + Header(later.list[a + 1].kind) + later.list[a + 1].size
        BY <3>8, <3>9, <3>10, <3>11
    <3> QED BY <3>13, <3>14, <3>15, <3>16 DEF BufferSent
  <2>5. later.list[a + 1].kind = kind /\ kind # "transmit"
      BY <1>3, <1>4, <2>0
  <2> QED BY <1>4, <2>0, <2>1, <2>2, <2>3, <2>4, <2>5 DEF Sent
<1>17. StreamInv(later)'
  <2>1. ASSUME NEW i \in 1 .. a + 1
        PROVE  Sent(later, i)'
    <3>1. CASE i = a + 1
        BY <1>16, <3>1
    <3>2. CASE i # a + 1
      <4>1. i \in 1 .. h.answered /\ h.answered <= Len(h.list)
          BY <1>1, <1>2, <3>2
      <4> QED BY <1>7, <1>10, <1>12, <4>1, SentKept DEF Aligned
    <3> QED BY <3>1, <3>2
  <2>2. later.ends[0] = 0 /\ later.data[0] = 0
    <3>1. 0 \in 0 .. a
        OBVIOUS
    <3> QED BY <1>8, <3>1 DEF Aligned, StreamInv
  <2>3. later.data[a + 1] = Len(sent') /\ later.ends[a + 1] = Len(later.stream)
      BY <1>8, <1>9, <1>11
  <2>4. Len(later.stream) \in Nat
      BY <1>9
  <2> QED BY <1>8, <2>1, <2>2, <2>3, <2>4 DEF StreamInv
<1>18. ListInv(later)' /\ PartsInv(later)'
  <2>1. PICK n \in Nat : n = Executed(h)
      BY Where DEF Aligned
  <2>2. /\ Len(commandActions) <= last
        /\ \A i \in 1 .. Len(commandActions) : commandActions[i] = h.list[n + i]
        /\ n <= a
        /\ \A i \in n + 2 .. a : h.list[i].kind # "transmit"
      BY <1>1, <2>1 DEF Aligned, ListInv
  <2>3. UNCHANGED <<commandActions, parts, FrontKind>> /\ Executed(later)' = n
      BY <1>8, <2>1 DEF actions, FrontKind, Front, Executed
  <2>4. \A i \in n + 2 .. a + 1 : h.list[i].kind # "transmit"
    <3>1. ASSUME NEW i \in n + 2 .. a + 1
          PROVE  h.list[i].kind # "transmit"
      <4>1. i = a + 1 \/ i \in n + 2 .. a
          OBVIOUS
      <4> QED BY <1>3, <2>2, <4>1
    <3> QED BY <3>1
  <2>5. ListInv(later)'
    <3>1. n <= a + 1
        BY <2>2
    <3> QED BY <1>1, <1>2, <1>8, <2>2, <2>3, <2>4, <3>1 DEF ListInv
  <2>6. FrontKind = "transmit" => a > n
    <3>1. SUFFICES ASSUME FrontKind = "transmit", n = a
                   PROVE  FALSE
        BY <2>2
    <3>2. commandActions # <<>>
        BY <3>1 DEF FrontKind
    <3>3. FrontKind = h.list[n + 1].kind
        BY <2>1, <3>2, Where DEF Aligned
    <3> QED BY <1>3, <3>1, <3>3
  <2>7. PartsInv(later)'
    <3>1. PartsInv(h)
        BY DEF Aligned
    <3>2. CASE FrontKind = "transmit"
      <4>1. parts \in 1 .. 3 /\ parts = 1
          BY <1>1, <2>1, <2>6, <3>1, <3>2 DEF PartsInv
      <4>2. a + 1 > n
          BY <2>2
      <4> QED BY <1>8, <2>3, <3>2, <4>1, <4>2 DEF PartsInv
    <3>3. CASE FrontKind # "transmit"
        BY <2>3, <3>1, <3>3 DEF PartsInv
    <3> QED BY <3>2, <3>3
  <2> QED BY <2>5, <2>7
<1>19. AnswerInv(later)'
  <2>1. PICK rest \in Nat : rest = Len(answer') /\ Len(answer) = rest + 1
    <3>1. Len(answer') = Len(answer) - 1
        BY DEF Shortened
    <3> QED BY <1>2, <3>1
  <2>2. a + 1 + rest <= last
      BY <1>2, <2>1
  <2>3. ASSUME NEW i \in 1 .. rest
        PROVE  answer'[i] = h.list[a + 1 + i] /\ answer'[i].kind # "transmit"
    <3>1. i \in 1 .. Len(answer) - 1 /\ i + 1 \in 1 .. Len(answer) /\ a + (i + 1) = a + 1 + i
        BY <2>1
    <3>2. answer'[i] = answer[i + 1]
        BY <3>1 DEF Shortened
    <3>3. answer[i + 1] = h.list[a + (i + 1)] /\ answer[i + 1].kind # "transmit"
        BY <1>1, <3>1 DEF Aligned, AnswerInv
    <3> QED BY <3>1, <3>2, <3>3
  <2>4. a + Len(answer) = last \/ h.list[a + Len(answer) + 1].kind = "transmit"
      BY <1>1 DEF Aligned, AnswerInv
  <2>5. a + Len(answer) = a + 1 + rest
      BY <2>1
  <2> QED BY <1>1, <1>8, <2>1, <2>2, <2>3, <2>4, <2>5 DEF AnswerInv
<1> QED BY <1>7, <1>14, <1>15, <1>17, <1>18, <1>19 DEF Aligned

(* A byte that is not an acknowledgement comes before one, or instead.     *)
LEMMA NoiseGrows ==
    ASSUME Types, NEW h \in History, NEW taken \in Nat, Aligned(h, taken), answer # <<>>,
           answer[1].kind = "ack", NEW bytes \in Seq(Byte), Len(bytes) = 1, bytes[1] # ack,
           Extends(line', line, bytes), answer' \in {<<>>, answer}, faults' = faults + 1,
           UNCHANGED <<actions, internalRange, queue, listening, sent, got>>
    PROVE  \E later \in History : Aligned(later, taken)'
<1>1. PICK a \in Nat, end \in Nat, last \in Nat :
        a = h.answered /\ end = Len(h.stream) /\ last = Len(h.list)
    BY HistoryTypes
<1>2. a + 1 <= last /\ answer[1] = h.list[a + 1]
  <2>1. a + Len(answer) <= last /\ Len(answer) \in Nat /\ Len(answer) # 0
      BY <1>1, Lengths DEF Aligned, AnswerInv
  <2>2. 1 \in 1 .. Len(answer)
      BY <2>1
  <2> QED BY <1>1, <2>1, <2>2 DEF Aligned, AnswerInv
<1> DEFINE later == [h EXCEPT !.stream = h.stream \o bytes]
<1>3. Extends(h.stream \o bytes, h.stream, bytes)
  <2>1. h.stream \in Seq(Byte)
      BY HistoryTypes
  <2> QED BY <2>1, ConcatExtends
<1>4. h.stream \o bytes \in Seq(Byte)
    BY <1>3 DEF Extends
<1>5. later \in History
    BY <1>4 DEF History
<1>6. /\ later.list = h.list /\ Extends(later.stream, h.stream, bytes) /\ later.answered = a
      /\ later.ends = h.ends /\ later.data = h.data
    BY <1>1, <1>3 DEF History
<1> HIDE DEF later
<1>7. /\ Len(later.stream) = end + 1 /\ later.stream[end + 1] # ack
      /\ \A j \in 1 .. end : later.stream[j] = h.stream[j]
  <2>1. 1 \in 1 .. Len(bytes)
      OBVIOUS
  <2> QED BY <1>1, <1>6, <2>1 DEF Extends
<1>8. Grown(h, later)
    BY <1>1, <1>6, <1>7 DEF Grown
<1>9. /\ faults' \in Nat /\ faults' >= faults /\ faults' # 0 /\ faults' > 0
      /\ sent' \in Seq(Byte) /\ Len(sent') \in Nat /\ Len(sent') >= Len(sent)
      /\ \A j \in 1 .. Len(sent) : sent'[j] = sent[j]
  <2>1. faults' \in Nat /\ faults' >= faults /\ faults' # 0 /\ faults' > 0
      BY DEF Types
  <2>2. sent' \in Seq(Byte) /\ Len(sent') \in Nat /\ Len(sent') >= Len(sent)
      BY Lengths DEF Types
  <2> QED BY <2>1, <2>2
<1>10. FlightInv(later, taken)'
    BY <1>5, <1>6, FlightGrows DEF Aligned
<1>11. HostInv(later, taken)'
  <2>1. ~ (h.answered < later.answered)
      BY <1>1, <1>6
  <2>2. UNCHANGED <<commandActions, nBytesTotal, nBytesReceived, internalRange, got>>
      BY DEF actions
  <2> QED BY <1>5, <1>8, <1>9, <2>1, <2>2, HostGrown DEF Aligned
<1>12. StreamInv(later)'
  <2>1. ASSUME NEW i \in 1 .. a
        PROVE  Sent(later, i)'
    <3>1. i \in 1 .. h.answered /\ h.answered <= Len(h.list)
        BY <1>1, <1>2
    <3> QED BY <1>5, <1>8, <1>9, <3>1, SentKept DEF Aligned
  <2>2. /\ h.ends[0] = 0 /\ h.data[0] = 0 /\ h.data[a] = Len(sent) /\ h.ends[a] <= end
        /\ \A j \in h.ends[a] + 1 .. end : h.stream[j] # ack
      BY <1>1 DEF Aligned, StreamInv
  <2>3. h.ends[a] \in Nat /\ h.ends[a] <= end + 1
    <3>1. h.ends[a] \in Nat
        BY HistoryTypes
    <3> QED BY <2>2, <3>1
  <2>4. ASSUME NEW j \in h.ends[a] + 1 .. end + 1
        PROVE  later.stream[j] # ack
    <3>1. CASE j = end + 1
        BY <1>7, <3>1
    <3>2. CASE j # end + 1
      <4>1. j \in h.ends[a] + 1 .. end /\ j \in 1 .. end
          BY <2>3, <3>2
      <4> QED BY <1>7, <2>2, <4>1
    <3> QED BY <3>1, <3>2
  <2>5. a < last /\ h.list[a + 1].kind = "ack"
      BY <1>2
  <2> QED BY <1>1, <1>6, <1>7, <1>9, <2>1, <2>2, <2>3, <2>4, <2>5 DEF StreamInv
<1>13. ListInv(later)' /\ PartsInv(later)'
    BY <1>1, <1>6, ListKept DEF Aligned, ListInv, PartsInv, Executed, FrontKind, Front, actions
<1>14. AnswerInv(later)'
  <2>1. CASE answer' = answer
      BY <1>1, <1>6, <1>9, <2>1 DEF Aligned, AnswerInv
  <2>2. CASE answer' = <<>>
    <3>1. Len(answer') = 0 /\ a + 0 <= last
        BY <1>2, <2>2
    <3> QED BY <1>1, <1>6, <1>9, <2>2, <3>1 DEF AnswerInv
  <2> QED BY <2>1, <2>2
<1> QED BY <1>5, <1>10, <1>11, <1>12, <1>13, <1>14 DEF Aligned

(* What the target sends next. *)
LEMMA AnswerIs ==
    ASSUME Types, NEW h \in History, AnswerInv(h), answer # <<>>
    PROVE  /\ Head(answer) = answer[1] /\ answer[1] \in Action /\ LegalAction(answer[1])
           /\ Tail(answer) \in Seq(Action) /\ Shortened(Tail(answer), answer)
           /\ answer[1].kind \in {"ack"} \union Buffers
<1>1. answer \in Seq(Action) /\ Len(answer) \in Nat
    BY Lengths DEF Types
<1>2. /\ Len(answer) > 0 /\ Tail(answer) \in Seq(Action) /\ Len(Tail(answer)) = Len(answer) - 1
      /\ \A i \in 1 .. Len(answer) - 1 : Tail(answer)[i] = answer[i + 1]
      /\ Head(answer) = answer[1] /\ answer[1] \in Action
    BY <1>1, TailFacts
<1>3. answer[1] = h.list[h.answered + 1] /\ answer[1].kind # "transmit" /\ h.answered + 1 \in 1 .. Len(h.list)
  <2>1. 1 \in 1 .. Len(answer) /\ h.answered + Len(answer) <= Len(h.list)
      BY <1>1, <1>2 DEF AnswerInv
  <2>2. h.answered + 1 \in 1 .. Len(h.list)
      BY <1>1, <1>2, <2>1, HistoryTypes
  <2> QED BY <2>1, <2>2 DEF AnswerInv
<1>4. LegalAction(answer[1])
    BY <1>3, HistoryTypes DEF LegalList
<1> QED BY <1>2, <1>3, <1>4, Kinds DEF Shortened

LEMMA AnswersKeeps ==
    ASSUME Inv, Answers
    PROVE  Inv'
<1>1. PICK h \in History, taken \in Nat : Aligned(h, taken)
    BY DEF Inv
<1>2. Types /\ OutcomeInv /\ RangeInv /\ TriedInv
    BY DEF Inv
<1>3. /\ UNCHANGED <<actions, internalRange, queue, notified, handling, timeoutTimer, listening, onError,
                     faults, outcomes, got>>
      /\ answer # <<>> /\ answer' = Tail(answer)
    BY DEF Answers
<1>4. /\ Head(answer) = answer[1] /\ answer[1] \in Action /\ LegalAction(answer[1])
      /\ answer' \in Seq(Action) /\ Shortened(answer', answer)
      /\ answer[1].kind \in {"ack"} \union Buffers
    BY <1>1, <1>2, <1>3, AnswerIs DEF Aligned
<1>5. PICK bytes \in Seq(Byte), payload \in Seq(Byte) :
        Extends(line', line, bytes) /\ Extends(sent', sent, payload) /\ AnswersAction(answer[1], bytes, payload)
  <2>1. line \in Seq(Byte) /\ sent \in Seq(Byte) /\ <<>> \in Seq(Byte)
      BY <1>2 DEF Types
  <2>2. CASE answer[1].kind = "ack"
    <3>1. line' = Append(line, ack) /\ sent' = sent
        BY <1>4, <2>2 DEF Answers
    <3>2. ack \in Byte /\ <<ack>> \in Seq(Byte) /\ Len(<<ack>>) = 1 /\ <<ack>>[1] = ack
        BY DEF ack, Byte
    <3>3. Extends(Append(line, ack), line, <<ack>>)
      <4>1. /\ Append(line, ack) \in Seq(Byte) /\ Len(Append(line, ack)) = Len(line) + 1
            /\ \A i \in 1 .. Len(line) : Append(line, ack)[i] = line[i]
            /\ Append(line, ack)[Len(line) + 1] = ack
          BY <2>1, <3>2, AppendFacts
      <4>2. \A i \in 1 .. Len(<<ack>>) : Append(line, ack)[Len(line) + i] = <<ack>>[i]
          BY <3>2, <4>1
      <4> QED BY <3>2, <4>1, <4>2 DEF Extends
    <3>4. Extends(sent, sent, <<>>)
      <4>1. Len(<<>>) = 0 /\ Len(sent) \in Nat
          BY <1>2, Lengths
      <4> QED BY <2>1, <4>1 DEF Extends
    <3>5. AnswersAction(answer[1], <<ack>>, <<>>)
      <4>1. answer[1].size = 0
          BY <1>4, <2>2, Zenon DEF LegalAction
      <4> QED BY <2>2, <3>2, <4>1 DEF AnswersAction, Buffers
    <3> QED BY <2>1, <3>1, <3>2, <3>3, <3>4, <3>5
  <2>3. CASE answer[1].kind \in Buffers
    <3>1. PICK payload \in [1 .. answer[1].size -> PayloadBytes] :
            line' = line \o Framed(answer[1].kind, payload) /\ sent' = sent \o payload
        BY <1>4, <2>3 DEF Answers, Buffers
    <3>2. payload \in Seq(Byte) /\ Len(payload) = answer[1].size
      <4>1. PICK size \in Nat : size = answer[1].size
          BY <1>4, Kinds
      <4>2. payload \in [1 .. size -> Byte]
          BY <4>1, PayloadBytesAssumption DEF Byte
      <4> QED BY <4>1, <4>2
    <3>3. /\ Framed(answer[1].kind, payload) \in Seq(Byte)
          /\ AnswersAction(answer[1], Framed(answer[1].kind, payload), payload)
        BY <1>4, <2>3, <3>2, FramedIs
    <3>4. /\ Extends(line', line, Framed(answer[1].kind, payload))
          /\ Extends(sent', sent, payload)
        BY <2>1, <3>1, <3>2, <3>3, ConcatExtends
    <3> QED BY <3>2, <3>3, <3>4
  <2> QED BY <1>4, <2>2, <2>3
<1>6. \E later \in History : Aligned(later, taken)'
    BY <1>1, <1>2, <1>3, <1>4, <1>5, AnswersGrow
<1>7. Types'
  <2>1. line' \in Seq(Byte) /\ sent' \in Seq(Byte)
      BY <1>5 DEF Extends
  <2> QED BY <1>2, <1>3, <1>4, <2>1 DEF Types, actions
<1>8. OutcomeInv' /\ RangeInv'
    BY <1>2, <1>3 DEF OutcomeInv, RangeInv, actions
<1>9. TriedInv'
  <2>1. UNCHANGED <<FrontKind, SizeBytes>>
      BY <1>3 DEF FrontKind, SizeBytes, Front, actions
  <2> QED BY <1>2, <1>3, <2>1 DEF TriedInv
<1> QED BY <1>6, <1>7, <1>8, <1>9 DEF Inv

LEMMA FaultKeeps ==
    ASSUME Inv, Fault
    PROVE  Inv'
<1>1. PICK h \in History, taken \in Nat : Aligned(h, taken)
    BY DEF Inv
<1>2. Types /\ OutcomeInv /\ RangeInv /\ TriedInv
    BY DEF Inv
<1>3. /\ UNCHANGED <<actions, internalRange, queue, notified, handling, timeoutTimer, listening, onError,
                     outcomes, sent, got>>
      /\ answer # <<>> /\ faults' = faults + 1
    BY DEF Fault
<1>4. \/ Head(answer).kind = "ack" /\ answer' = <<>> /\ line' = Append(line, nack)
      \/ Head(answer).kind = "ack" /\ answer' = answer /\ line' = Append(line, 0)
      \/ answer' = <<>> /\ line' = line
    BY DEF Fault
<1>5. faults' \in Nat /\ faults' # 0 /\ faults' >= faults
    BY <1>2, <1>3 DEF Types
<1>6. answer' \in {<<>>, answer} /\ answer' \in Seq(Action)
  <2>1. answer' \in {<<>>, answer}
      BY <1>4
  <2>2. <<>> \in Seq(Action) /\ answer \in Seq(Action)
      BY <1>2 DEF Types
  <2> QED BY <2>1, <2>2
<1>7. line \in Seq(Byte)
    BY <1>2 DEF Types
<1>8. ASSUME NEW byte \in Byte, line' = Append(line, byte)
      PROVE  line' \in Seq(Byte) /\ Extends(line', line, <<byte>>)
  <2>1. <<byte>> \in Seq(Byte) /\ Len(<<byte>>) = 1 /\ <<byte>>[1] = byte
      OBVIOUS
  <2>2. /\ Append(line, byte) \in Seq(Byte) /\ Len(Append(line, byte)) = Len(line) + 1
        /\ \A i \in 1 .. Len(line) : Append(line, byte)[i] = line[i]
        /\ Append(line, byte)[Len(line) + 1] = byte
      BY <1>7, AppendFacts
  <2>3. \A i \in 1 .. Len(<<byte>>) : Append(line, byte)[Len(line) + i] = <<byte>>[i]
      BY <2>1, <2>2
  <2>4. Extends(Append(line, byte), line, <<byte>>)
      BY <2>1, <2>2, <2>3 DEF Extends
  <2> QED BY <1>8, <2>2, <2>4
<1>9. nack \in Byte /\ nack # ack /\ 0 \in Byte /\ 0 # ack
    BY DEF nack, ack, Byte
<1>10. line' \in Seq(Byte)
    BY <1>4, <1>7, <1>8, <1>9
<1>11. Types'
    BY <1>2, <1>3, <1>5, <1>6, <1>10 DEF Types, actions
<1>12. OutcomeInv' /\ RangeInv' /\ TriedInv'
    BY <1>2, <1>3, <1>5 DEF OutcomeInv, RangeInv, TriedInv, actions
<1>13. \E later \in History : Aligned(later, taken)'
  <2>1. CASE answer' = <<>> /\ line' = line
    <3>1. AnswerInv(h)'
      <4>1. Len(answer') = 0 /\ h.answered + 0 <= Len(h.list)
        <5>1. h.answered <= Len(h.list) /\ h.answered \in Nat
            BY <1>1, HistoryTypes DEF Aligned, ListInv
        <5> QED BY <2>1, <5>1
      <4> QED BY <1>5, <2>1, <4>1 DEF AnswerInv
    <3>2. ListInv(h)' /\ PartsInv(h)'
        BY <1>1, <1>3, ListKept DEF Aligned
    <3>3. StreamInv(h)'
        BY <1>1, <1>2, <1>3, <1>5, StreamKept DEF Aligned
    <3>4. HostInv(h, taken)'
        BY <1>1, <1>2, <1>3, <1>5, HostKept DEF Aligned
    <3>5. FlightInv(h, taken)'
        BY <1>1, <1>3, <2>1 DEF Aligned, FlightInv
    <3> QED BY <3>1, <3>2, <3>3, <3>4, <3>5 DEF Aligned
  <2>2. ASSUME NEW byte \in {nack, 0}, Head(answer).kind = "ack", line' = Append(line, byte)
        PROVE  \E later \in History : Aligned(later, taken)'
    <3>1. byte \in Byte /\ byte # ack
        BY <1>9
    <3>2. Extends(line', line, <<byte>>)
        BY <1>8, <2>2, <3>1
    <3>3. answer[1].kind = "ack"
        BY <1>1, <1>2, <1>3, <2>2, AnswerIs DEF Aligned
    <3>4. <<byte>> \in Seq(Byte) /\ Len(<<byte>>) = 1 /\ <<byte>>[1] # ack
        BY <3>1
    <3> QED BY <1>1, <1>2, <1>3, <1>6, <3>2, <3>3, <3>4, NoiseGrows
  <2> QED BY <1>4, <2>1, <2>2
<1> QED BY <1>11, <1>12, <1>13 DEF Inv

-----------------------------------------------------------------------------
(* The target has all of the frame, and is to answer it.                   *)

FrameAnswer(next) ==
    /\ next \in Seq(Action) /\ Len(next) <= Len(commandActions) - 1
    /\ \A i \in 1 .. Len(next) :
         next[i] = commandActions[i + 1] /\ commandActions[i + 1].kind # "transmit"
    /\ Len(next) = Len(commandActions) - 1 \/ commandActions[Len(next) + 2].kind = "transmit"

LEMMA FrameAnswerIs ==
    ASSUME Types, commandActions # <<>>
    PROVE  FrameAnswer(Awaited(Tail(commandActions)))
<1>1. commandActions \in Seq(Action)
    BY DEF Types
<1> DEFINE rest == Tail(commandActions)
           next == Awaited(rest)
<1>2. /\ rest \in Seq(Action) /\ Len(commandActions) \in Nat /\ Len(commandActions) > 0
      /\ Len(rest) = Len(commandActions) - 1
      /\ \A i \in 1 .. Len(commandActions) - 1 : rest[i] = commandActions[i + 1]
    BY <1>1, TailFacts
<1> HIDE DEF rest
<1>3. /\ next \in Seq(Action) /\ Len(next) <= Len(rest)
      /\ \A i \in 1 .. Len(next) : next[i] = rest[i] /\ rest[i].kind # "transmit"
      /\ Len(next) = Len(rest) \/ rest[Len(next) + 1].kind = "transmit"
    BY <1>2, AwaitedIs
<1> HIDE DEF next
<1>4. Len(next) \in Nat
    BY <1>3
<1>5. ASSUME NEW i \in 1 .. Len(next)
      PROVE  next[i] = commandActions[i + 1] /\ commandActions[i + 1].kind # "transmit"
  <2>1. i \in 1 .. Len(commandActions) - 1
      BY <1>2, <1>3, <1>4
  <2> QED BY <1>2, <1>3, <2>1
<1>6. Len(next) = Len(commandActions) - 1 \/ commandActions[Len(next) + 2].kind = "transmit"
  <2>1. CASE Len(next) = Len(rest)
      BY <1>2, <2>1
  <2>2. CASE Len(next) # Len(rest)
    <3>1. Len(next) + 1 \in 1 .. Len(commandActions) - 1 /\ Len(next) + 1 + 1 = Len(next) + 2
        BY <1>2, <1>3, <1>4, <2>2
    <3>2. rest[Len(next) + 1] = commandActions[Len(next) + 1 + 1]
        BY <1>2, <3>1
    <3> QED BY <1>3, <2>2, <3>1, <3>2
  <2> QED BY <2>1, <2>2
<1>7. FrameAnswer(next)
    BY <1>2, <1>3, <1>5, <1>6 DEF FrameAnswer
<1> QED BY <1>7 DEF next, rest

LEMMA FrameSent ==
    ASSUME Types, NEW h \in History, NEW taken \in Nat, Aligned(h, taken),
           FrontKind = "transmit", parts = 2, parts' = 1, FrameAnswer(answer'),
           UNCHANGED <<commandActions, nBytesTotal, nBytesReceived, internalRange, queue, line, listening,
                       faults, sent, got>>
    PROVE  \E later \in History : Aligned(later, taken)'
<1>1. PICK n \in Nat, last \in Nat, m \in Nat :
        n = Executed(h) /\ last = Len(h.list) /\ m = Len(commandActions)
    BY Where, HistoryTypes, Lengths DEF Aligned
<1>2. /\ commandActions # <<>> /\ n + m = last /\ m >= 1 /\ n + 1 <= last
      /\ Front = h.list[n + 1] /\ h.list[n + 1].kind = "transmit" /\ h.list[n + 1].size = 0
  <2>1. commandActions # <<>>
      BY DEF FrontKind
  <2>2. /\ n + m = last /\ m >= 1 /\ n + 1 <= last /\ Front = h.list[n + 1] /\ FrontKind = Front.kind
        /\ LegalAction(Front)
      BY <1>1, <2>1, Where DEF Aligned
  <2>3. h.list[n + 1].size = 0
      BY <2>2, Zenon DEF LegalAction
  <2> QED BY <2>1, <2>2, <2>3
<1>3. h.answered = n
  <2>1. n <= h.answered /\ h.answered \in Nat
      BY <1>1, HistoryTypes DEF Aligned, ListInv
  <2>2. ~ (h.answered > n)
      BY <1>1 DEF Aligned, PartsInv
  <2> QED BY <2>1, <2>2
<1>4. PICK next \in Nat : next = n + 1 /\ next - 1 = n
    OBVIOUS
<1> DEFINE ends == [h.ends EXCEPT ![next] = h.ends[n]]
           data == [h.data EXCEPT ![next] = h.data[n]]
           later == [list |-> h.list, stream |-> h.stream, ends |-> ends, data |-> data, answered |-> next]
<1>5. /\ ends \in [Nat -> Nat] /\ ends[next] = h.ends[n] /\ \A i \in 0 .. n : ends[i] = h.ends[i]
      /\ data \in [Nat -> Nat] /\ data[next] = h.data[n] /\ \A i \in 0 .. n : data[i] = h.data[i]
  <2>1. /\ h.ends \in [Nat -> Nat] /\ h.data \in [Nat -> Nat]
        /\ h.ends[n] \in Nat /\ h.data[n] \in Nat
      BY HistoryTypes
  <2>2. \A i \in 0 .. n : i \in Nat /\ i # next
      BY <1>4
  <2> QED BY <2>1, <2>2
<1> HIDE DEF ends, data
<1>6. later \in History
  <2>1. h.list \in Lists /\ h.stream \in Seq(Byte)
      BY DEF History
  <2> QED BY <1>5, <2>1 DEF History
<1>7. /\ later.list = h.list /\ later.stream = h.stream /\ later.answered = next
      /\ later.ends[next] = h.ends[n] /\ later.data[next] = h.data[n]
      /\ \A i \in 0 .. n : later.ends[i] = h.ends[i] /\ later.data[i] = h.data[i]
    BY <1>5
<1> HIDE DEF later
<1>8. Grown(h, later)
  <2>1. n <= next /\ Len(h.stream) <= Len(h.stream)
      BY <1>4, HistoryTypes
  <2> QED BY <1>3, <1>7, <2>1 DEF Grown
<1>9. /\ faults' \in Nat /\ faults' >= faults
      /\ sent' \in Seq(Byte) /\ Len(sent') \in Nat /\ Len(sent') >= Len(sent)
      /\ \A j \in 1 .. Len(sent) : sent'[j] = sent[j]
  <2>1. faults' \in Nat /\ faults' >= faults
      BY DEF Types
  <2>2. sent' \in Seq(Byte) /\ Len(sent') \in Nat /\ Len(sent') >= Len(sent)
      BY Lengths DEF Types
  <2> QED BY <2>1, <2>2
<1>10. FlightInv(later, taken)'
    BY <1>7 DEF Aligned, FlightInv
<1>11. HostInv(later, taken)'
  <2>1. ~ (FrontKind = "ack")
      OBVIOUS
  <2> QED BY <1>6, <1>8, <1>9, <2>1, HostGrown DEF Aligned
<1>12. /\ h.ends[0] = 0 /\ h.data[0] = 0 /\ h.data[n] = Len(sent) /\ h.ends[n] = Len(h.stream)
       /\ Len(h.stream) \in Nat
  <2>1. /\ h.ends[0] = 0 /\ h.data[0] = 0 /\ h.data[n] = Len(sent) /\ h.ends[n] <= Len(h.stream)
        /\ h.ends[n] < Len(h.stream) => h.list[n + 1].kind = "ack"
      BY <1>3 DEF Aligned, StreamInv
  <2>2. Len(h.stream) \in Nat /\ h.ends[n] \in Nat
      BY HistoryTypes
  <2>3. ~ (h.ends[n] < Len(h.stream))
      BY <1>2, <2>1
  <2> QED BY <2>1, <2>2, <2>3
<1>13. StreamInv(later)'
  <2>1. Sent(later, next)'
    <3>1. /\ later.ends[next] <= Len(later.stream) /\ later.data[next] <= Len(sent')
          /\ later.list[next].kind = "transmit" /\ later.list[next].size = 0
      <4>1. Len(sent) \in Nat
          BY Lengths
      <4> QED BY <1>2, <1>4, <1>7, <1>12, <4>1
    <3>2. later.ends[next] = later.ends[next - 1] /\ later.data[next] = later.data[next - 1]
      <4>1. n \in 0 .. n
          OBVIOUS
      <4> QED BY <1>4, <1>7, <4>1
    <3>3. later.data[next] = later.data[next - 1] + later.list[next].size
      <4>1. later.data[next] \in Nat
          BY <1>6, HistoryTypes
      <4> QED BY <3>1, <3>2, <4>1
    <3> QED BY <3>1, <3>2, <3>3 DEF Sent, Buffers
  <2>2. ASSUME NEW i \in 1 .. next
        PROVE  Sent(later, i)'
    <3>1. CASE i = next
        BY <2>1, <3>1
    <3>2. CASE i # next
      <4>1. i \in 1 .. h.answered /\ h.answered <= Len(h.list)
        <5>1. i \in 1 .. n /\ n <= last
            BY <1>2, <1>4, <3>2
        <5> QED BY <1>1, <1>3, <5>1
      <4> QED BY <1>6, <1>8, <1>9, <4>1, SentKept DEF Aligned
    <3> QED BY <3>1, <3>2
  <2>3. later.ends[0] = 0 /\ later.data[0] = 0
    <3>1. 0 \in 0 .. n
        OBVIOUS
    <3> QED BY <1>7, <1>12, <3>1
  <2>4. later.data[next] = Len(sent') /\ later.ends[next] = Len(later.stream) /\ Len(later.stream) \in Nat
      BY <1>7, <1>12
  <2> QED BY <1>7, <2>2, <2>3, <2>4 DEF StreamInv
<1>14. UNCHANGED <<commandActions, FrontKind>> /\ Executed(later)' = n
    BY <1>1, <1>7 DEF FrontKind, Front, Executed
<1>15. ListInv(later)'
  <2>1. /\ Len(commandActions) <= last
        /\ \A i \in 1 .. Len(commandActions) : commandActions[i] = h.list[n + i]
      BY <1>1 DEF Aligned, ListInv
  <2>2. n <= next /\ next <= last /\ \A i \in n + 2 .. next : FALSE
      BY <1>2, <1>4
  <2> QED BY <1>1, <1>7, <1>14, <2>1, <2>2 DEF ListInv
<1>16. PartsInv(later)'
  <2>1. next > n
      BY <1>4
  <2> QED BY <1>7, <1>14, <2>1 DEF PartsInv
<1>17. AnswerInv(later)'
  <2>1. PICK k \in Nat : k = Len(answer') /\ k <= m - 1
      BY <1>1 DEF FrameAnswer
  <2>2. \A i \in 1 .. m : commandActions[i] = h.list[n + i]
      BY <1>1 DEF Aligned, ListInv
  <2>3. next + k <= last
      BY <1>2, <1>4, <2>1
  <2>4. ASSUME NEW i \in 1 .. k
        PROVE  answer'[i] = h.list[next + i] /\ answer'[i].kind # "transmit"
    <3>1. i + 1 \in 1 .. m /\ n + (i + 1) = next + i
        BY <1>4, <2>1
    <3>2. answer'[i] = commandActions[i + 1] /\ commandActions[i + 1].kind # "transmit"
        BY <2>1 DEF FrameAnswer
    <3> QED BY <2>2, <3>1, <3>2
  <2>5. next + k = last \/ h.list[next + k + 1].kind = "transmit"
    <3>1. CASE k = m - 1
        BY <1>2, <1>4, <3>1
    <3>2. CASE k # m - 1
      <4>1. k + 2 \in 1 .. m /\ n + (k + 2) = next + k + 1
          BY <1>4, <2>1, <3>2
      <4>2. commandActions[k + 2].kind = "transmit"
          BY <1>1, <2>1, <3>2 DEF FrameAnswer
      <4> QED BY <2>2, <4>1, <4>2
    <3> QED BY <3>1, <3>2
  <2> QED BY <1>1, <1>7, <2>1, <2>3, <2>4, <2>5 DEF AnswerInv
<1> QED BY <1>6, <1>10, <1>11, <1>13, <1>15, <1>16, <1>17 DEF Aligned

-----------------------------------------------------------------------------
(* A step that executes an action keeps the invariant if what it takes     *)
(* from the queue is the answer to that action.                            *)

LEMMA AdvanceKeeps ==
    ASSUME Types, OutcomeInv, TriedInv, NEW h \in History,
           ListInv(h), PartsInv(h), AnswerInv(h), StreamInv(h),
           commandActions # <<>>, Executed(h) < h.answered, OnActionExecuted,
           UNCHANGED <<notified, listening, onError, line, faults, sent>>,
           internalRange' \in 2 .. 3, RangeInv', queue' \in Seq(Byte), got' \in Seq(Byte),
           Len(got') = h.data[Executed(h) + 1], \A j \in 1 .. Len(got') : got'[j] = sent[j],
           NEW taken \in Nat, taken = h.ends[Executed(h) + 1], FlightInv(h, taken)'
    PROVE  Inv'
<1>1. \A i \in 2 .. Len(commandActions) : commandActions[i].parts # 1
    BY Where
<1>2. /\ commandActions' \in Seq(Action) /\ parts' \in 0 .. 3
      /\ nBytesTotal' = Unknown /\ nBytesReceived' = 0 /\ answer' = answer /\ handling' \in BOOLEAN
      /\ commandActions' # <<>> => handling'
      /\ commandActions' = <<>> => timeoutTimer' = FALSE /\ outcomes' = Append(outcomes, "done")
      /\ commandActions' # <<>> => timeoutTimer' = timeoutTimer /\ outcomes' = outcomes
    BY <1>1, ExecutedIs
<1>3. timeoutTimer' \in BOOLEAN /\ notified' \in BOOLEAN /\ listening' \in BOOLEAN /\ onError' \in BOOLEAN
  <2>1. timeoutTimer' \in BOOLEAN
    <3>1. timeoutTimer' = FALSE \/ timeoutTimer' = timeoutTimer
        BY <1>2, Zenon
    <3> QED BY <3>1 DEF Types
  <2> QED BY <2>1 DEF Types
<1>4. Types'
  <2>1. /\ line' \in Seq(Byte) /\ faults' \in Nat /\ sent' \in Seq(Byte) /\ answer' \in Seq(Action)
      BY <1>2 DEF Types
  <2>2. nBytesTotal' \in Nat \union {Unknown} /\ nBytesReceived' \in Nat
      BY <1>2
  <2> QED BY <1>2, <1>3, <2>1, <2>2, Zenon DEF Types
<1>5. OutcomeInv'
  <2>1. outcomes = IF onError THEN <<>> ELSE <<"error">>
      BY DEF OutcomeInv
  <2>2. CASE commandActions' = <<>>
    <3>1. timeoutTimer' = FALSE /\ outcomes' = Append(outcomes, "done")
        BY <1>2, <2>2
    <3>2. outcomes' = IF onError THEN <<"done">> ELSE <<"error", "done">>
      <4>1. CASE onError
          BY <2>1, <3>1, <4>1
      <4>2. CASE ~onError
        <5>1. Append(<<"error">>, "done") = <<"error", "done">>
            BY AppendToOne
        <5> QED BY <2>1, <3>1, <4>2, <5>1
      <4> QED BY <4>1, <4>2
    <3> QED BY <2>2, <3>1, <3>2 DEF OutcomeInv
  <2>3. CASE commandActions' # <<>>
      BY <1>2, <2>1, <2>3 DEF OutcomeInv
  <2> QED BY <2>2, <2>3
<1>6. TriedInv'
  <2>1. commandActions' = <<>> => FrontKind' = "none"
      BY DEF FrontKind
  <2> QED BY <1>2, <2>1 DEF TriedInv
<1>7. ListInv(h)' /\ PartsInv(h)' /\ AnswerInv(h)' /\ StreamInv(h)' /\ HostInv(h, taken)'
    BY Advance
<1> QED BY <1>4, <1>5, <1>6, <1>7 DEF Inv, Aligned

LEMMA SendCompletedKeeps ==
    ASSUME Inv, SendCompleted
    PROVE  Inv'
<1>1. PICK h \in History, taken \in Nat : Aligned(h, taken)
    BY DEF Inv
<1>2. Types /\ OutcomeInv /\ RangeInv /\ TriedInv
    BY DEF Inv
<1>3. /\ parts > 0
      /\ UNCHANGED <<internalRange, queue, notified, listening, onError, line, faults, sent, got>>
    BY DEF SendCompleted
<1>4. PICK n \in Nat : n = Executed(h)
    BY <1>1, <1>2, Where DEF Aligned
<1>5. FrontKind = "transmit" /\ parts \in 1 .. 3 /\ (parts = 1 <=> h.answered > n)
  <2>1. FrontKind = "transmit"
      BY <1>1, <1>3 DEF Aligned, PartsInv
  <2> QED BY <1>1, <1>4, <2>1 DEF Aligned, PartsInv
<1>6. commandActions # <<>>
    BY <1>5 DEF FrontKind
<1>7. /\ n + 1 <= Len(h.list) /\ Front = h.list[n + 1] /\ h.list[n + 1].kind = "transmit"
      /\ h.list[n + 1].size = 0
  <2>1. /\ n + 1 <= Len(h.list) /\ Front = h.list[n + 1] /\ FrontKind = Front.kind /\ LegalAction(Front)
      BY <1>1, <1>2, <1>4, <1>6, Where DEF Aligned
  <2>2. Front.size = 0
      BY <1>5, <2>1, Zenon DEF LegalAction
  <2> QED BY <1>5, <2>1, <2>2
<1>8. taken = h.ends[n] /\ Len(got) = h.data[n] /\ \A j \in 1 .. Len(got) : got[j] = sent[j]
    BY <1>1, <1>4, <1>5 DEF Aligned, HostInv, Buffers
<1>9. CASE parts = 1
  <2>1. OnActionExecuted
      BY <1>9 DEF SendCompleted
  <2>2. h.answered > n /\ h.answered \in Nat
      BY <1>5, <1>9, HistoryTypes
  <2>3. n + 1 \in Nat /\ n + 1 <= h.answered /\ n + 1 > 0 /\ n + 1 - 1 = n
      BY <2>2
  <2>4. Sent(h, n + 1) /\ h.data[n] \in Nat
      BY <1>1, <1>2, <2>3, EndsIs, HistoryTypes DEF Aligned
  <2>5. h.ends[n + 1] = h.ends[n] /\ h.data[n + 1] = h.data[n]
      BY <1>7, <2>3, <2>4 DEF Sent
  <2>6. Executed(h) < h.answered /\ Len(got') = h.data[Executed(h) + 1] /\ taken = h.ends[Executed(h) + 1]
      BY <1>3, <1>4, <1>8, <2>2, <2>5
  <2>7. FlightInv(h, taken)'
      BY <1>1, <1>3 DEF Aligned, FlightInv
  <2>8. RangeInv'
      BY <1>2, <1>3 DEF RangeInv
  <2>9. internalRange' \in 2 .. 3 /\ queue' \in Seq(Byte) /\ got' \in Seq(Byte)
      BY <1>2, <1>3 DEF Types
  <2>10. \A j \in 1 .. Len(got') : got'[j] = sent[j]
      BY <1>3, <1>8
  <2> QED BY <1>1, <1>2, <1>3, <1>6, <2>1, <2>6, <2>7, <2>8, <2>9, <2>10, AdvanceKeeps DEF Aligned
<1>10. CASE parts # 1
  <2>1. /\ parts' = parts - 1
        /\ answer' = IF parts = 2 THEN Awaited(Tail(commandActions)) ELSE answer
        /\ UNCHANGED <<commandActions, nBytesTotal, nBytesReceived, handling, timeoutTimer, outcomes>>
      BY <1>10 DEF SendCompleted
  <2>2. parts' \in 1 .. 2
      BY <1>5, <1>10, <2>1
  <2>3. answer' \in Seq(Action) /\ (parts = 2 => FrameAnswer(answer'))
    <3>1. FrameAnswer(Awaited(Tail(commandActions)))
        BY <1>2, <1>6, FrameAnswerIs
    <3>2. CASE parts = 2
        BY <2>1, <3>1, <3>2 DEF FrameAnswer
    <3>3. CASE parts # 2
        BY <1>2, <2>1, <3>3 DEF Types
    <3> QED BY <3>2, <3>3
  <2>4. Types'
    <3>1. parts' \in 0 .. 3
        BY <2>2
    <3> QED BY <1>2, <1>3, <2>1, <2>3, <3>1 DEF Types
  <2>5. OutcomeInv' /\ RangeInv'
      BY <1>2, <1>3, <2>1 DEF OutcomeInv, RangeInv
  <2>6. TriedInv'
      BY <1>2, <1>3, <1>5, <2>1 DEF TriedInv, FrontKind, Front, SizeBytes
  <2>7. \E later \in History : Aligned(later, taken)'
    <3>1. CASE parts = 2
      <4>1. parts' = 1
          BY <2>1, <3>1
      <4> QED BY <1>1, <1>2, <1>3, <1>5, <2>1, <2>3, <3>1, <4>1, FrameSent
    <3>2. CASE parts # 2
      <4>1. answer' = answer /\ parts' = 2 /\ ~ (h.answered > n)
          BY <1>5, <1>10, <2>1, <3>2
      <4>2. UNCHANGED <<FrontKind, Front, RangeSize, Executed(h)>>
          BY <1>3, <2>1 DEF FrontKind, Front, RangeSize, Executed
      <4>3. PartsInv(h)'
          BY <1>4, <1>5, <4>1, <4>2 DEF PartsInv
      <4>4. ListInv(h)'
          BY <1>1, <2>1, <4>2 DEF Aligned, ListInv
      <4>5. faults' \in Nat /\ faults' >= faults
          BY <1>2, <1>3 DEF Types
      <4>6. AnswerInv(h)' /\ StreamInv(h)'
          BY <1>1, <1>2, <1>3, <4>1, <4>5, AnswerKept, StreamKept DEF Aligned
      <4>7. HostInv(h, taken)'
          BY <1>1, <1>3, <2>1, <4>2 DEF Aligned, HostInv
      <4>8. FlightInv(h, taken)'
          BY <1>1, <1>3 DEF Aligned, FlightInv
      <4> QED BY <4>3, <4>4, <4>6, <4>7, <4>8 DEF Aligned
    <3> QED BY <3>1, <3>2
  <2> QED BY <2>4, <2>5, <2>6, <2>7 DEF Inv
<1> QED BY <1>9, <1>10

(* When no command is going on, everything of the last one has arrived.    *)
LEMMA DoneIsEmpty ==
    ASSUME Types, NEW h \in History, NEW taken \in Nat, Aligned(h, taken), commandActions = <<>>
    PROVE  got = sent /\ queue = <<>> /\ line = <<>> /\ answer = <<>>
<1> DEFINE a == h.answered
           end == Len(h.stream)
<1>1. /\ a \in Nat /\ end \in Nat /\ Len(h.list) \in Nat /\ Len(queue) \in Nat /\ Len(line) \in Nat
      /\ Len(answer) \in Nat
    BY HistoryTypes, Lengths
<1>2. Executed(h) = a /\ a = Len(h.list) /\ FrontKind = "none"
  <2>1. Executed(h) = Len(h.list) /\ FrontKind = "none"
      BY Where DEF Aligned
  <2>2. Executed(h) <= a /\ a <= Len(h.list)
      BY DEF Aligned, ListInv
  <2> QED BY <1>1, <2>1, <2>2
<1>3. answer = <<>>
  <2>1. a + Len(answer) <= Len(h.list)
      BY DEF Aligned, AnswerInv
  <2>2. Len(answer) = 0
      BY <1>1, <1>2, <2>1
  <2> QED BY <2>2, Lengths
<1>4. taken = end
  <2>1. taken = h.ends[a]
      BY <1>2 DEF Aligned, HostInv
  <2>2. h.ends[a] <= end /\ ~ (h.ends[a] < end)
      BY <1>1, <1>2 DEF Aligned, StreamInv
  <2>3. h.ends[a] \in Nat
      BY HistoryTypes
  <2> QED BY <1>1, <2>1, <2>2, <2>3
<1>5. queue = <<>> /\ line = <<>>
  <2>1. taken + Len(queue) + Len(line) <= end
      BY DEF Aligned, FlightInv
  <2>2. Len(queue) = 0 /\ Len(line) = 0
      BY <1>1, <1>4, <2>1
  <2> QED BY <2>2, Lengths
<1>6. got = sent
  <2>1. Len(got) = h.data[a] /\ \A j \in 1 .. Len(got) : got[j] = sent[j]
      BY <1>2 DEF Aligned, HostInv, Buffers
  <2>2. h.data[a] = Len(sent)
      BY DEF Aligned, StreamInv
  <2>3. got \in Seq(Byte) /\ sent \in Seq(Byte) /\ Len(got) = Len(sent)
      BY <2>1, <2>2 DEF Types
  <2> QED BY <2>1, <2>3, SeqEqual
<1> QED BY <1>3, <1>5, <1>6

LEMMA ExecuteKeeps ==
    ASSUME NEW given \in Commands, Inv, Execute(given)
    PROVE  Inv'
<1>1. PICK h \in History, taken \in Nat : Aligned(h, taken)
    BY DEF Inv
<1>2. Types /\ OutcomeInv /\ RangeInv /\ TriedInv
    BY DEF Inv
<1>3. /\ commandActions = <<>> /\ onError /\ timeoutTimer' = TRUE
      /\ outcomes' = <<>> /\ sent' = <<>> /\ got' = <<>>
      /\ UNCHANGED <<internalRange, queue, notified, listening, onError, line, faults>>
    BY DEF Execute, CommandTimeout
<1>4. PICK list \in Actions(given) : StartCurrentAction(list)
    BY DEF Execute
<1>5. LegalList(list) /\ list[1].parts # 1 /\ list \in Lists
    BY CommandsLegal DEF Lists
<1>6. /\ list \in Seq(Action) /\ Len(list) \in Nat /\ Len(list) >= 2 /\ list # <<>> /\ Head(list) = list[1]
      /\ list[1] \in Action /\ list[1].kind = "transmit" /\ list[1].parts \in 2 .. 3
  <2>1. list \in Seq(Action) /\ Len(list) >= 2 /\ list[1].kind = "transmit"
      BY <1>5 DEF LegalList
  <2>2. Len(list) \in Nat /\ list # <<>> /\ Head(list) = list[1] /\ list[1] \in Action /\ 1 \in 1 .. Len(list)
      BY <2>1
  <2>3. LegalAction(list[1])
      BY <1>5, <2>2 DEF LegalList
  <2>4. list[1].parts \in 1 .. 3
      BY <2>1, <2>3, Zenon DEF LegalAction
  <2>5. list[1].parts \in 2 .. 3
      BY <1>5, <2>4
  <2> QED BY <2>1, <2>2, <2>5
<1>7. queue = <<>> /\ line = <<>> /\ answer = <<>>
    BY <1>1, <1>2, <1>3, DoneIsEmpty
<1>8. /\ commandActions' = list /\ parts' = list[1].parts /\ nBytesTotal' = Unknown /\ nBytesReceived' = 0
      /\ answer' = <<>> /\ handling' = TRUE
    BY <1>4, <1>5, <1>6, <1>7 DEF StartCurrentAction, TriesData
<1> DEFINE none == [i \in Nat |-> 0]
           later == [list |-> list, stream |-> <<>>, ends |-> none, data |-> none, answered |-> 0]
<1>9. none \in [Nat -> Nat] /\ none[0] = 0
    OBVIOUS
<1> HIDE DEF none
<1>10. later \in History
  <2>1. <<>> \in Seq(Byte) /\ 0 \in Nat
      OBVIOUS
  <2> QED BY <1>5, <1>9, <2>1 DEF History
<1>11. /\ later.list = list /\ later.stream = <<>> /\ later.ends = none /\ later.data = none
       /\ later.answered = 0
    OBVIOUS
<1> HIDE DEF later
<1>12. FrontKind' = "transmit" /\ Executed(later)' = 0
    BY <1>6, <1>8, <1>11 DEF FrontKind, Front, Executed
<1>13. Types'
  <2>1. parts' \in 0 .. 3 /\ nBytesTotal' \in Nat \union {Unknown} /\ nBytesReceived' \in Nat
      BY <1>6, <1>8
  <2>2. commandActions' \in Seq(Action) /\ answer' \in Seq(Action) /\ sent' \in Seq(Byte) /\ got' \in Seq(Byte)
      BY <1>3, <1>6, <1>8
  <2>3. handling' \in BOOLEAN /\ timeoutTimer' \in BOOLEAN
      BY <1>3, <1>8
  <2> QED BY <1>2, <1>3, <2>1, <2>2, <2>3 DEF Types
<1>14. OutcomeInv' /\ RangeInv' /\ TriedInv'
  <2>1. commandActions' # <<>>
      BY <1>6, <1>8
  <2>2. OutcomeInv'
      BY <1>3, <2>1 DEF OutcomeInv
  <2>3. RangeInv'
      BY <1>2, <1>3 DEF RangeInv
  <2>4. TriedInv'
      BY <1>2, <1>3, <1>12 DEF TriedInv
  <2> QED BY <2>2, <2>3, <2>4
<1>15. ListInv(later)' /\ PartsInv(later)'
  <2>1. \A i \in 1 .. Len(list) : list[i] = list[0 + i]
      BY <1>6
  <2>2. \A i \in 0 + 2 .. 0 : FALSE
      OBVIOUS
  <2>3. ListInv(later)'
      BY <1>6, <1>8, <1>11, <1>12, <2>1, <2>2 DEF ListInv
  <2>4. PartsInv(later)'
      BY <1>6, <1>8, <1>11, <1>12 DEF PartsInv
  <2> QED BY <2>3, <2>4
<1>16. AnswerInv(later)'
    BY <1>6, <1>8, <1>11 DEF AnswerInv
<1>17. StreamInv(later)'
    BY <1>3, <1>9, <1>11 DEF StreamInv
<1>18. HostInv(later, 0)'
  <2>1. Len(got') = 0 /\ Len(sent') = 0
      BY <1>3
  <2> QED BY <1>8, <1>9, <1>11, <1>12, <2>1 DEF HostInv, Buffers
<1>19. FlightInv(later, 0)'
    BY <1>3, <1>7, <1>11 DEF FlightInv
<1> QED BY <1>10, <1>13, <1>14, <1>15, <1>16, <1>17, <1>18, <1>19 DEF Inv, Aligned

-----------------------------------------------------------------------------
(* The host takes bytes from the queue.                                    *)

Dropped(shorter, q, count) ==
    /\ Len(shorter) = Len(q) - count
    /\ \A i \in 1 .. Len(q) - count : shorter[i] = q[count + i]

LEMMA FlightTaken ==
    ASSUME Types, NEW h \in History, NEW taken \in Nat, FlightInv(h, taken),
           NEW count \in Nat, count <= Len(queue), Dropped(queue', queue, count),
           line' = line, listening' => listening
    PROVE  FlightInv(h, taken + count)'
<1>1. PICK q \in Nat, m \in Nat, end \in Nat : q = Len(queue) /\ m = Len(line) /\ end = Len(h.stream)
    BY Lengths, HistoryTypes
<1>2. /\ taken + q + m <= end
      /\ listening => taken + q + m = end
      /\ \A i \in 1 .. q : queue[i] = h.stream[taken + i]
      /\ \A i \in 1 .. m : line[i] = h.stream[end - m + i]
    BY <1>1 DEF FlightInv
<1>3. Len(queue') = q - count /\ \A i \in 1 .. q - count : queue'[i] = queue[count + i]
    BY <1>1 DEF Dropped
<1>4. count <= q
    BY <1>1
<1>5. /\ taken + count + (q - count) + m = taken + q + m
      /\ \A i \in 1 .. q - count : count + i \in 1 .. q /\ taken + (count + i) = taken + count + i
    BY <1>4
<1>6. \A i \in 1 .. Len(queue') : queue'[i] = h.stream[taken + count + i]
    BY <1>2, <1>3, <1>5
<1>7. taken + count + Len(queue') + Len(line') = taken + q + m
    BY <1>1, <1>3, <1>5
<1>8. \A i \in 1 .. Len(line') : line'[i] = h.stream[Len(h.stream) - Len(line') + i]
    BY <1>1, <1>2
<1>9. /\ taken + count + Len(queue') + Len(line') <= Len(h.stream)
      /\ listening' => taken + count + Len(queue') + Len(line') = Len(h.stream)
    BY <1>1, <1>2, <1>7
<1> QED BY <1>6, <1>8, <1>9 DEF FlightInv

LEMMA TailDropped ==
    ASSUME Types, queue # <<>>, queue' = Tail(queue)
    PROVE  /\ queue' \in Seq(Byte) /\ Dropped(queue', queue, 1) /\ 1 <= Len(queue)
           /\ Head(queue) = queue[1] /\ queue[1] \in Byte
<1>1. /\ Len(queue) \in Nat /\ Len(queue) > 0
      /\ Tail(queue) \in Seq(Byte) /\ Len(Tail(queue)) = Len(queue) - 1
      /\ \A i \in 1 .. Len(queue) - 1 : Tail(queue)[i] = queue[i + 1]
      /\ Head(queue) = queue[1] /\ queue[1] \in Byte
  <2>1. queue \in Seq(Byte)
      BY DEF Types
  <2> QED BY <2>1, TailFacts
<1>2. \A i \in 1 .. Len(queue) - 1 : i + 1 = 1 + i
    OBVIOUS
<1>3. \A i \in 1 .. Len(queue) - 1 : queue'[i] = queue[1 + i]
    BY <1>1, <1>2
<1>4. Dropped(queue', queue, 1)
    BY <1>1, <1>3 DEF Dropped
<1> QED BY <1>1, <1>4

(* The first byte of the queue, when the host expects an acknowledgement:  *)
(* an acknowledgement is the one of this action, and another byte is not   *)
(* the last before it.                                                     *)
LEMMA AckFacts ==
    ASSUME Types, NEW h \in History, NEW taken \in Nat, Aligned(h, taken),
           FrontKind = "ack", queue # <<>>, NEW n \in Nat, n = Executed(h)
    PROVE  /\ queue[1] = ack =>
                n < h.answered /\ taken + 1 = h.ends[n + 1] /\ h.data[n + 1] = h.data[n]
           /\ queue[1] # ack => (n < h.answered => taken + 1 < h.ends[n + 1]) /\ faults # 0
<1>1. PICK q \in Nat, m \in Nat, end \in Nat, a \in Nat :
        q = Len(queue) /\ m = Len(line) /\ end = Len(h.stream) /\ a = h.answered
    BY Lengths, HistoryTypes
<1>2. commandActions # <<>> /\ n + 1 <= Len(h.list) /\ n <= a /\ Front = h.list[n + 1]
      /\ h.list[n + 1].kind = "ack" /\ h.list[n + 1].size = 0
  <2>1. commandActions # <<>>
      BY DEF FrontKind
  <2>2. n + 1 <= Len(h.list) /\ Front = h.list[n + 1] /\ FrontKind = Front.kind /\ LegalAction(Front)
      BY <2>1, Where DEF Aligned
  <2>3. n <= a
      BY <1>1 DEF Aligned, ListInv
  <2>4. Front.size = 0
      BY <2>2, Zenon DEF LegalAction
  <2> QED BY <2>1, <2>2, <2>3, <2>4
<1>3. taken + q + m <= end /\ q >= 1 /\ queue[1] = h.stream[taken + 1]
  <2>1. q >= 1
      BY <1>1, Lengths
  <2>2. 1 \in 1 .. q
      BY <2>1
  <2>3. taken + q + m <= end /\ queue[1] = h.stream[taken + 1]
      BY <1>1, <2>2 DEF Aligned, FlightInv
  <2> QED BY <2>1, <2>3
<1>4. taken + 1 <= end
    BY <1>3
<1>5. PICK start \in Nat : start = h.ends[n]
    BY HistoryTypes
<1>6. start <= taken /\ (n < a => taken < h.ends[n + 1]) /\ (faults = 0 => taken = start)
    BY <1>1, <1>5 DEF Aligned, HostInv
<1>7. CASE n < a
  <2>1. n + 1 \in Nat /\ n + 1 <= a /\ n + 1 > 0 /\ n + 1 - 1 = n
      BY <1>7
  <2>2. PICK stop \in Nat : stop = h.ends[n + 1]
      BY <2>1, HistoryTypes
  <2>3. Sent(h, n + 1)
      BY <1>1, <2>1, EndsIs DEF Aligned
  <2>4. h.data[n + 1] = h.data[n] /\ AckSent(h, n + 1)
    <3>1. h.data[n + 1] = h.data[n + 1 - 1] + h.list[n + 1].size
        BY <2>3 DEF Sent
    <3>2. h.data[n] \in Nat
        BY HistoryTypes
    <3>3. AckSent(h, n + 1)
        BY <1>2, <2>3 DEF Sent
    <3> QED BY <1>2, <2>1, <3>1, <3>2, <3>3
  <2>5. /\ h.stream[stop] = ack
        /\ \A j \in start + 1 .. stop - 1 : h.stream[j] # ack
        /\ faults = 0 => stop = start + 1
      BY <1>5, <2>1, <2>2, <2>4 DEF AckSent
  <2>6. taken < stop
      BY <1>6, <1>7, <2>2
  <2>7. ASSUME queue[1] = ack
        PROVE  taken + 1 = stop
    <3>1. CASE taken + 1 < stop
      <4>1. taken + 1 \in start + 1 .. stop - 1
          BY <1>6, <3>1
      <4> QED BY <1>3, <2>5, <2>7, <4>1
    <3> QED BY <2>6, <3>1
  <2>8. ASSUME queue[1] # ack
        PROVE  taken + 1 < stop /\ faults # 0
    <3>1. taken + 1 # stop
        BY <1>3, <2>5, <2>8
    <3>2. taken + 1 < stop
        BY <2>6, <3>1
    <3> QED BY <1>6, <2>5, <3>1, <3>2
  <2> QED BY <1>1, <1>7, <2>2, <2>4, <2>7, <2>8
<1>8. CASE n = a
  <2>1. /\ \A j \in h.ends[a] + 1 .. end : h.stream[j] # ack
        /\ h.ends[a] < end => faults > 0
      BY <1>1 DEF Aligned, StreamInv
  <2>2. taken + 1 \in start + 1 .. end /\ start < end
      BY <1>4, <1>6
  <2>3. h.stream[taken + 1] # ack /\ faults # 0
    <3>1. h.stream[taken + 1] # ack
        BY <1>5, <1>8, <2>1, <2>2
    <3>2. faults > 0 /\ faults \in Nat
        BY <1>5, <1>8, <2>1, <2>2 DEF Types
    <3> QED BY <3>1, <3>2
  <2> QED BY <1>1, <1>3, <1>8, <2>3
<1> QED BY <1>2, <1>7, <1>8

LEMMA HandleAckKeeps ==
    ASSUME Inv, HandleAck
    PROVE  Inv'
<1>1. PICK h \in History, taken \in Nat : Aligned(h, taken)
    BY DEF Inv
<1>2. Types /\ OutcomeInv /\ RangeInv /\ TriedInv
    BY DEF Inv
<1>3. /\ queue # <<>> /\ FrontKind = "ack" /\ queue' = Tail(queue)
      /\ UNCHANGED <<internalRange, notified, line, faults, sent, got>>
    BY DEF HandleAck
<1>4. PICK n \in Nat : n = Executed(h)
    BY <1>1, <1>2, Where DEF Aligned
<1>5. /\ queue' \in Seq(Byte) /\ Dropped(queue', queue, 1) /\ 1 <= Len(queue)
      /\ Head(queue) = queue[1] /\ queue[1] \in Byte
    BY <1>2, <1>3, TailDropped
<1>6. /\ queue[1] = ack =>
           n < h.answered /\ taken + 1 = h.ends[n + 1] /\ h.data[n + 1] = h.data[n]
      /\ queue[1] # ack => (n < h.answered => taken + 1 < h.ends[n + 1]) /\ faults # 0
    BY <1>1, <1>2, <1>3, <1>4, AckFacts
<1>7. commandActions # <<>> /\ taken + 1 \in Nat /\ 1 \in Nat
    BY <1>3 DEF FrontKind
<1>8. Len(got) = h.data[n] /\ \A j \in 1 .. Len(got) : got[j] = sent[j]
    BY <1>1, <1>3, <1>4 DEF Aligned, HostInv, Buffers
<1>9. CASE queue[1] = ack
  <2>1. OnActionExecuted /\ UNCHANGED <<listening, onError>>
    <3>1. Head(queue) = ack /\ ack # nack
        BY <1>5, <1>9 DEF ack, nack
    <3> QED BY <3>1 DEF HandleAck
  <2>2. Executed(h) < h.answered /\ Len(got') = h.data[Executed(h) + 1] /\ taken + 1 = h.ends[Executed(h) + 1]
      BY <1>3, <1>4, <1>6, <1>8, <1>9
  <2>3. FlightInv(h, taken + 1)'
      BY <1>1, <1>2, <1>3, <1>5, <1>7, <2>1, FlightTaken DEF Aligned
  <2>4. RangeInv'
      BY <1>2, <1>3 DEF RangeInv
  <2>5. internalRange' \in 2 .. 3 /\ got' \in Seq(Byte)
      BY <1>2, <1>3 DEF Types
  <2>6. \A j \in 1 .. Len(got') : got'[j] = sent[j]
      BY <1>3, <1>8
  <2> QED BY <1>1, <1>2, <1>3, <1>5, <1>7, <2>1, <2>2, <2>3, <2>4, <2>5, <2>6, AdvanceKeeps
             DEF Aligned
<1>10. CASE queue[1] # ack
  <2>1. UNCHANGED <<actions, answer>> /\ faults # 0 /\ (n < h.answered => taken + 1 < h.ends[n + 1])
    <3>1. Head(queue) # ack
        BY <1>5, <1>10
    <3> QED BY <1>6, <1>10, <3>1 DEF HandleAck
  <2>2. \/ /\ timeoutTimer' = FALSE /\ listening' = FALSE /\ onError' = FALSE /\ handling' = FALSE
           /\ outcomes' = IF onError THEN Append(outcomes, "error") ELSE outcomes
        \/ UNCHANGED <<handling, timeoutTimer, listening, onError, outcomes>>
    <3>1. Head(queue) # ack
        BY <1>5, <1>10
    <3>2. CASE Head(queue) = nack
      <4>1. OnError /\ handling' = FALSE
          BY <3>1, <3>2 DEF HandleAck
      <4> QED BY <4>1 DEF OnError
    <3>3. CASE Head(queue) # nack
      <4>1. UNCHANGED <<handling, timeoutTimer, listening, onError, outcomes>>
          BY <3>1, <3>3 DEF HandleAck
      <4> QED BY <4>1
    <3> QED BY <3>2, <3>3
  <2>3. listening' => listening
      BY <2>2
  <2>4. Types'
    <3>1. /\ handling' \in BOOLEAN /\ timeoutTimer' \in BOOLEAN /\ listening' \in BOOLEAN
          /\ onError' \in BOOLEAN
      <4>1. CASE UNCHANGED <<handling, timeoutTimer, listening, onError, outcomes>>
          BY <1>2, <4>1 DEF Types
      <4> QED BY <2>2, <4>1
    <3>2. UNCHANGED <<commandActions, parts, nBytesTotal, nBytesReceived, answer>>
        BY <2>1 DEF actions
    <3> QED BY <1>2, <1>3, <1>5, <3>1, <3>2 DEF Types
  <2>5. OutcomeInv'
    <3>1. commandActions' = commandActions
        BY <2>1 DEF actions
    <3>2. outcomes = (IF onError THEN <<>> ELSE <<"error">>) /\ (timeoutTimer <=> onError)
        BY <1>2, <1>7 DEF OutcomeInv
    <3>3. CASE UNCHANGED <<handling, timeoutTimer, listening, onError, outcomes>>
        BY <1>7, <3>1, <3>2, <3>3 DEF OutcomeInv
    <3>4. CASE /\ timeoutTimer' = FALSE /\ onError' = FALSE
               /\ outcomes' = IF onError THEN Append(outcomes, "error") ELSE outcomes
      <4>1. outcomes' = <<"error">>
        <5>1. CASE onError
            BY <3>2, <3>4, <5>1
        <5>2. CASE ~onError
            BY <3>2, <3>4, <5>2
        <5> QED BY <5>1, <5>2
      <4> QED BY <1>7, <3>1, <3>4, <4>1 DEF OutcomeInv
    <3> QED BY <2>2, <3>3, <3>4
  <2>6. RangeInv'
      BY <1>2, <1>3 DEF RangeInv
  <2>7. TriedInv'
      BY <1>3, <2>1 DEF TriedInv
  <2>8. faults' \in Nat /\ faults' >= faults
      BY <1>2, <1>3 DEF Types
  <2>9. ListInv(h)' /\ PartsInv(h)' /\ AnswerInv(h)' /\ StreamInv(h)'
      BY <1>1, <1>2, <1>3, <2>1, <2>8, ListKept, AnswerKept, StreamKept DEF Aligned
  <2>10. HostInv(h, taken + 1)'
    <3>1. HostInv(h, taken)
        BY <1>1 DEF Aligned
    <3>2. UNCHANGED <<FrontKind, Front, RangeSize, nBytesTotal, nBytesReceived, Executed(h)>>
        BY <1>3, <2>1 DEF actions, FrontKind, Front, RangeSize, Executed
    <3>3. h.ends[n] <= taken /\ h.ends[n] \in Nat
        BY <1>3, <1>4, <3>1, HistoryTypes DEF HostInv
    <3>4. h.ends[n] <= taken + 1
        BY <3>3
    <3>5. /\ FrontKind' = "ack" /\ Executed(h)' = n
          /\ nBytesTotal' = Unknown /\ nBytesReceived' = 0 /\ Len(got') = h.data[n]
          /\ Len(got') <= Len(sent') /\ \A j \in 1 .. Len(got') : got'[j] = sent'[j]
          /\ faults' # 0
      <4>1. /\ nBytesTotal = Unknown /\ nBytesReceived = 0 /\ Len(got) = h.data[n] /\ Len(got) <= Len(sent)
            /\ \A j \in 1 .. Len(got) : got[j] = sent[j]
          BY <1>3, <1>4, <3>1 DEF HostInv, Buffers
      <4> QED BY <1>3, <1>4, <2>1, <3>2, <4>1
    <3> QED BY <2>1, <3>4, <3>5 DEF HostInv, Buffers
  <2>11. FlightInv(h, taken + 1)'
      BY <1>1, <1>2, <1>3, <1>5, <1>7, <2>3, FlightTaken DEF Aligned
  <2> QED BY <1>7, <2>4, <2>5, <2>6, <2>7, <2>9, <2>10, <2>11 DEF Inv, Aligned
<1> QED BY <1>9, <1>10

-----------------------------------------------------------------------------
(* Where the first byte of the queue is in a buffer that the host expects: *)
(* the target has sent the whole buffer, behind its header.                *)

LEMMA BufferAnswered ==
    ASSUME Types, NEW h \in History, NEW taken \in Nat, Aligned(h, taken),
           FrontKind \in Buffers, queue # <<>>, NEW n \in Nat, n = Executed(h)
    PROVE  n < h.answered
<1>1. PICK q \in Nat, m \in Nat, end \in Nat, a \in Nat, last \in Nat :
        /\ q = Len(queue) /\ m = Len(line) /\ end = Len(h.stream) /\ a = h.answered
        /\ last = Len(h.list)
    BY Lengths, HistoryTypes
<1>2. n <= a
    BY <1>1 DEF Aligned, ListInv
<1>3. CASE n = a
  <2>1. nBytesTotal = Unknown /\ taken = h.ends[n]
      BY <1>1, <1>3 DEF Aligned, HostInv
  <2>2. PICK start \in Nat : start = h.ends[n]
      BY HistoryTypes
  <2>3. taken + q + m <= end /\ q >= 1
    <3>1. q >= 1
        BY <1>1, Lengths
    <3> QED BY <1>1, <3>1 DEF Aligned, FlightInv
  <2>4. h.ends[a] < end
      BY <1>3, <2>1, <2>2, <2>3
  <2>5. h.list[a + 1].kind = "ack"
      BY <1>1, <2>4 DEF Aligned, StreamInv
  <2>6. commandActions # <<>>
      BY DEF FrontKind, Buffers
  <2>7. FrontKind = h.list[n + 1].kind
      BY <2>6, Where DEF Aligned
  <2> QED BY <1>3, <2>5, <2>7 DEF Buffers
<1> QED BY <1>1, <1>2, <1>3

LEMMA BufferFacts ==
    ASSUME Types, NEW h \in History, NEW taken \in Nat, Aligned(h, taken),
           FrontKind \in Buffers, queue # <<>>, ~ (Len(queue) < SizeBytes),
           NEW n \in Nat, n = Executed(h)
    PROVE  /\ n < h.answered /\ commandActions # <<>>
           /\ Front = h.list[n + 1] /\ FrontKind = Front.kind
           /\ Front \in Action /\ LegalAction(Front) /\ Front.size \in Nat
           /\ Total = Front.size
           /\ SizeBytes \in Nat /\ SizeBytes <= Len(queue)
           /\ Header(FrontKind) \in Nat
           /\ taken + SizeBytes = h.ends[n] + Header(FrontKind) + nBytesReceived
           /\ nBytesReceived \in Nat /\ nBytesReceived <= Front.size
           /\ RangeSize \in Nat /\ nBytesReceived <= RangeSize
           /\ h.ends[n + 1] = h.ends[n] + Header(FrontKind) + Front.size
           /\ h.data[n + 1] = h.data[n] + Front.size /\ h.data[n + 1] <= Len(sent)
           /\ \A j \in 1 .. Front.size :
                h.stream[h.ends[n] + Header(FrontKind) + j] = sent[h.data[n] + j]
           /\ Len(got) = h.data[n] + nBytesReceived
           /\ \A j \in 1 .. Len(got) : got[j] = sent[j]
<1>1. n < h.answered
    BY BufferAnswered
<1>2. commandActions # <<>>
    BY DEF FrontKind, Buffers
<1>3. Front = h.list[n + 1] /\ FrontKind = Front.kind /\ Front \in Action /\ LegalAction(Front)
    BY <1>2, Where DEF Aligned
<1>4. Front.size \in Nat /\ Header(FrontKind) \in Nat /\ nBytesReceived \in Nat
    BY <1>3, Kinds DEF Header, Types
<1>5. n + 1 \in Nat /\ n + 1 <= h.answered /\ n + 1 > 0 /\ n + 1 - 1 = n
    BY <1>1, HistoryTypes
<1>6. Sent(h, n + 1)
    BY <1>5, EndsIs DEF Aligned
<1>7. /\ h.data[n + 1] = h.data[n] + Front.size /\ h.data[n + 1] <= Len(sent)
      /\ BufferSent(h, n + 1)
    BY <1>3, <1>5, <1>6 DEF Sent
<1>8. /\ h.ends[n + 1] = h.ends[n] + Header(FrontKind) + Front.size
      /\ FrontKind = "small" => h.stream[h.ends[n] + 1] = Front.size - 1
      /\ FrontKind = "big" => h.stream[h.ends[n] + 1] = 0 /\ h.stream[h.ends[n] + 2] = Front.size
      /\ \A j \in 1 .. Front.size :
           h.stream[h.ends[n] + Header(FrontKind) + j] = sent[h.data[n] + j]
  <2>1. FrontKind = h.list[n + 1].kind /\ Front.size = h.list[n + 1].size
      BY <1>3
  <2>2. h.ends[n + 1] = h.ends[n + 1 - 1] + Header(h.list[n + 1].kind) + h.list[n + 1].size
      BY <1>7 DEF BufferSent
  <2>3. h.list[n + 1].kind = "small" => h.stream[h.ends[n + 1 - 1] + 1] = h.list[n + 1].size - 1
      BY <1>7 DEF BufferSent
  <2>4. h.list[n + 1].kind = "big" =>
          h.stream[h.ends[n + 1 - 1] + 1] = 0 /\ h.stream[h.ends[n + 1 - 1] + 2] = h.list[n + 1].size
      BY <1>7 DEF BufferSent
  <2>5. \A j \in 1 .. h.list[n + 1].size :
          h.stream[h.ends[n + 1 - 1] + Header(h.list[n + 1].kind) + j] = sent[h.data[n + 1 - 1] + j]
      BY <1>7 DEF BufferSent
  <2>6. n + 1 - 1 = n
      BY <1>5
  <2> QED BY <2>1, <2>2, <2>3, <2>4, <2>5, <2>6
<1>9. PICK q \in Nat : q = Len(queue)
    BY Lengths
<1>10. q >= 1 /\ \A i \in 1 .. q : queue[i] = h.stream[taken + i]
    BY <1>9, Lengths DEF Aligned, FlightInv
<1>11. Len(got) = h.data[n] + nBytesReceived /\ \A j \in 1 .. Len(got) : got[j] = sent[j]
    BY DEF Aligned, HostInv
<1>12. RangeSize \in Nat
    BY <1>4 DEF RangeSize, Types
<1>13. PICK start \in Nat : start = h.ends[n]
    BY HistoryTypes
<1>14. CASE nBytesTotal = Unknown
  <2>1. nBytesReceived = 0 /\ taken = start
      BY <1>13, <1>14 DEF Aligned, HostInv
  <2>2. SizeBytes = Header(FrontKind)
      BY <1>3, <1>14 DEF SizeBytes, Header, Buffers
  <2>3. Total = Front.size
    <3>1. CASE FrontKind = "small"
      <4>1. Total = queue[1] + 1
          BY <1>3, <1>14, <3>1 DEF Total
      <4>2. 1 \in 1 .. q
          BY <1>10
      <4>3. queue[1] = Front.size - 1
          BY <1>8, <1>10, <1>13, <2>1, <3>1, <4>2
      <4> QED BY <1>4, <4>1, <4>3
    <3>2. CASE FrontKind = "big"
      <4>1. Total = queue[1] * 256 + queue[2]
          BY <1>3, <1>14, <3>2 DEF Total
      <4>2. q >= 2
          BY <1>9, <2>2, <3>2 DEF Header
      <4>3. 1 \in 1 .. q /\ 2 \in 1 .. q
          BY <4>2
      <4>4. queue[1] = 0 /\ queue[2] = Front.size
          BY <1>8, <1>10, <1>13, <2>1, <3>2, <4>3
      <4> QED BY <1>4, <4>1, <4>4
    <3>3. CASE FrontKind = "predefined"
        BY <1>3, <1>14, <3>3 DEF Total, PredefinedSize
    <3> QED BY <3>1, <3>2, <3>3 DEF Buffers
  <2>4. taken + SizeBytes = start + Header(FrontKind) + nBytesReceived
      BY <1>4, <2>1, <2>2
  <2>5. SizeBytes \in Nat /\ SizeBytes <= Len(queue)
      BY <1>4, <1>9, <2>2
  <2>6. nBytesReceived <= Front.size /\ nBytesReceived <= RangeSize
      BY <1>4, <1>12, <2>1
  <2> QED BY <1>1, <1>2, <1>3, <1>4, <1>7, <1>8, <1>11, <1>12, <1>13, <2>3, <2>4, <2>5, <2>6
<1>15. CASE nBytesTotal # Unknown
  <2>1. /\ nBytesTotal = Front.size
        /\ nBytesReceived < nBytesTotal /\ nBytesReceived <= RangeSize
        /\ taken = start + Header(FrontKind) + nBytesReceived
      BY <1>13, <1>15 DEF Aligned, HostInv
  <2>2. SizeBytes = 0 /\ Total = Front.size
      BY <1>15, <2>1 DEF SizeBytes, Total
  <2>3. taken + SizeBytes = start + Header(FrontKind) + nBytesReceived
      BY <1>4, <2>1, <2>2
  <2>4. SizeBytes \in Nat /\ SizeBytes <= Len(queue)
      BY <1>9, <2>2
  <2>5. nBytesReceived <= Front.size
      BY <1>4, <2>1
  <2> QED BY <1>1, <1>2, <1>3, <1>4, <1>7, <1>8, <1>11, <1>12, <1>13, <2>1, <2>2, <2>3, <2>4, <2>5
<1> QED BY <1>14, <1>15

(* The host takes the whole queue, unless the buffer or the range ends.    *)
LEMMA RetrievableIs ==
    ASSUME NEW available \in Nat, NEW size \in Nat, Total = size, RangeSize \in Nat,
           nBytesReceived \in Nat, nBytesReceived <= size, nBytesReceived <= RangeSize
    PROVE  /\ Retrievable(available) \in Nat /\ Retrievable(available) <= available
           /\ nBytesReceived + Retrievable(available) <= size
           /\ nBytesReceived + Retrievable(available) <= RangeSize
           /\ \/ Retrievable(available) = available
              \/ nBytesReceived + Retrievable(available) = size
              \/ nBytesReceived + Retrievable(available) = RangeSize
<1>1. PICK received \in Nat, range \in Nat : received = nBytesReceived /\ range = RangeSize
    OBVIOUS
<1>2. size - received \in Int /\ range - received \in Int /\ available \in Int
    OBVIOUS
<1> DEFINE least == Least({available, size - received, range - received})
<1>3. Retrievable(available) = least
    BY <1>1 DEF Retrievable
<1>4. /\ least \in {available, size - received, range - received}
      /\ least <= available /\ least <= size - received /\ least <= range - received
    BY <1>2, LeastOfThree
<1> HIDE DEF least
<1>5. least = available \/ least = size - received \/ least = range - received
    BY <1>4
<1>6. received <= size /\ received <= range
    BY <1>1
<1>7. least \in Int
    BY <1>2, <1>5
<1>8. /\ least \in Nat /\ received + least <= size /\ received + least <= range
      /\ least = available \/ received + least = size \/ received + least = range
    BY <1>4, <1>5, <1>6, <1>7
<1> QED BY <1>1, <1>3, <1>4, <1>8

-----------------------------------------------------------------------------
(* The host takes `size` bytes of data, behind the bytes of the header.    *)

TakesBytes(header, size) ==
    /\ queue' = SubSeq(queue, header + size + 1, Len(queue))
    /\ got' = got \o SubSeq(queue, header + 1, header + size)

LEMMA BytesTaken ==
    ASSUME Types, NEW header \in Nat, NEW size \in Nat, header + size <= Len(queue),
           TakesBytes(header, size)
    PROVE  /\ queue' \in Seq(Byte) /\ Dropped(queue', queue, header + size)
           /\ got' \in Seq(Byte) /\ Len(got') = Len(got) + size
           /\ \A j \in 1 .. Len(got) : got'[j] = got[j]
           /\ \A j \in 1 .. size : got'[Len(got) + j] = queue[header + j]
<1>1. PICK q \in Nat, count \in Nat : q = Len(queue) /\ count = header + size
    BY Lengths
<1>2. queue \in Seq(Byte) /\ got \in Seq(Byte)
    BY DEF Types
<1> DEFINE rest == SubSeq(queue, header + size + 1, Len(queue))
           part == SubSeq(queue, header + 1, header + size)
<1>3. /\ header + size <= q /\ header + size + 1 \in Nat /\ header + size + 1 >= 1
      /\ header + size + 1 <= q + 1
      /\ header + 1 \in Nat /\ header + 1 >= 1 /\ header + size \in Nat
      /\ header + 1 <= header + size + 1
    BY <1>1
<1>4. /\ rest \in Seq(Byte) /\ Len(rest) = q - (header + size + 1) + 1
      /\ \A i \in 1 .. q - (header + size + 1) + 1 : rest[i] = queue[header + size + 1 + i - 1]
    BY <1>1, <1>2, <1>3, SubSeqFacts
<1>5. /\ part \in Seq(Byte) /\ Len(part) = header + size - (header + 1) + 1
      /\ \A i \in 1 .. header + size - (header + 1) + 1 : part[i] = queue[header + 1 + i - 1]
    BY <1>1, <1>2, <1>3, SubSeqFacts
<1>6. queue' = rest /\ got' = got \o part
    BY DEF TakesBytes
<1> HIDE DEF rest, part
<1>7. Dropped(rest, queue, header + size)
  <2>1. q - (header + size + 1) + 1 = q - (header + size)
      OBVIOUS
  <2>2. \A i \in 1 .. q - (header + size) : header + size + 1 + i - 1 = header + size + i
      OBVIOUS
  <2>3. Len(rest) = q - (header + size) /\ \A i \in 1 .. q - (header + size) : rest[i] = queue[header + size + i]
      BY <1>4, <2>1, <2>2
  <2> QED BY <1>1, <2>3 DEF Dropped
<1>8. Len(part) = size /\ \A i \in 1 .. size : part[i] = queue[header + i]
  <2>1. header + size - (header + 1) + 1 = size
      OBVIOUS
  <2>2. \A i \in 1 .. size : header + 1 + i - 1 = header + i
      OBVIOUS
  <2> QED BY <1>5, <2>1, <2>2
<1>9. /\ got \o part \in Seq(Byte) /\ Len(got \o part) = Len(got) + size
      /\ \A j \in 1 .. Len(got) : (got \o part)[j] = got[j]
      /\ \A j \in 1 .. size : (got \o part)[Len(got) + j] = part[j]
  <2>1. /\ got \o part \in Seq(Byte) /\ Len(got \o part) = Len(got) + Len(part)
        /\ \A j \in 1 .. Len(got) : (got \o part)[j] = got[j]
        /\ \A j \in 1 .. Len(part) : (got \o part)[Len(got) + j] = part[j]
    <3>1. got \in Seq(Byte) /\ part \in Seq(Byte)
        BY <1>2, <1>5
    <3>2. \A before \in Seq(Byte), behind \in Seq(Byte) :
            /\ before \o behind \in Seq(Byte) /\ Len(before \o behind) = Len(before) + Len(behind)
            /\ \A i \in 1 .. Len(before) : (before \o behind)[i] = before[i]
            /\ \A i \in 1 .. Len(behind) : (before \o behind)[Len(before) + i] = behind[i]
        BY ConcatFacts
    <3> QED BY <3>1, <3>2, Zenon
  <2>2. Len(part) = size
      BY <1>8
  <2> QED BY <2>1, <2>2, Zenon
<1>10. /\ got' \in Seq(Byte) /\ Len(got') = Len(got) + size
       /\ \A j \in 1 .. Len(got) : got'[j] = got[j]
       /\ \A j \in 1 .. size : got'[Len(got) + j] = part[j]
    BY <1>6, <1>9
<1>11. queue' \in Seq(Byte) /\ Dropped(queue', queue, header + size)
    BY <1>4, <1>6, <1>7
<1> QED BY <1>8, <1>10, <1>11

(* The range of a buffer has room for all of it.                           *)
LEMMA RangeHasRoom ==
    ASSUME Types, RangeKept, RangeInv, Front \in Action, LegalAction(Front)
    PROVE  RangeSize >= Front.size
<1>1. Front.size \in Nat /\ internalRange \in 2 .. 3
    BY Kinds DEF Types
<1>2. CASE Front.range = "internal"
  <2>1. \/ Front.size = 3 /\ "GetVersion" \in Commands
        \/ Front.size = 2 /\ "GetId" \in Commands
    <3>1. Front.range = "internal" =>
            \/ Front.size = 3 /\ "GetVersion" \in Commands
            \/ Front.size = 2 /\ "GetId" \in Commands
        BY Zenon DEF LegalAction
    <3> QED BY <1>2, <3>1
  <2>2. RangeSize = internalRange
      BY <1>2 DEF RangeSize
  <2>3. "GetVersion" \in Commands => internalRange = 3
      BY DEF RangeInv
  <2> QED BY <1>1, <2>1, <2>2, <2>3
<1>3. CASE Front.range # "internal"
    BY <1>1, <1>3 DEF RangeSize
<1> QED BY <1>2, <1>3

LEMMA RangeStays ==
    ASSUME Types, RangeInv, Front \in Action, LegalAction(Front),
           internalRange' = IF Front.range = "internal" THEN Front.size ELSE internalRange
    PROVE  internalRange' \in 2 .. 3 /\ RangeInv'
<1>1. CASE Front.range = "internal"
  <2>1. \/ Front.size = 3 /\ "GetVersion" \in Commands
        \/ Front.size = 2 /\ "GetId" \in Commands
    <3>1. Front.range = "internal" =>
            \/ Front.size = 3 /\ "GetVersion" \in Commands
            \/ Front.size = 2 /\ "GetId" \in Commands
        BY Zenon DEF LegalAction
    <3> QED BY <1>1, <3>1
  <2>2. internalRange' = Front.size
      BY <1>1
  <2>3. RangeInv'
    <3>1. SUFFICES ASSUME RangeKept, "GetVersion" \in Commands
                   PROVE  internalRange' = 3
        BY DEF RangeInv, RangeKept
    <3>2. "GetId" \notin Commands
        BY <3>1 DEF RangeKept
    <3> QED BY <2>1, <2>2, <3>2
  <2>4. internalRange' \in 2 .. 3
      BY <2>1, <2>2
  <2> QED BY <2>3, <2>4
<1>2. CASE Front.range # "internal"
    BY <1>2 DEF Types, RangeInv
<1> QED BY <1>1, <1>2

LEMMA HandleBufferKeeps ==
    ASSUME Inv, HandleBuffer
    PROVE  Inv'
<1>1. PICK h \in History, taken \in Nat : Aligned(h, taken)
    BY DEF Inv
<1>2. Types /\ OutcomeInv /\ RangeInv /\ TriedInv
    BY DEF Inv
<1>3. /\ handling /\ queue # <<>> /\ FrontKind \in Buffers
      /\ UNCHANGED <<notified, listening, onError, line, faults, sent>>
    BY DEF HandleBuffer, Buffers
<1>4. PICK n \in Nat : n = Executed(h)
    BY <1>1, <1>2, Where DEF Aligned
<1>5. CASE Len(queue) < SizeBytes
  <2>1. handling' = FALSE /\ UNCHANGED <<actions, internalRange, queue, timeoutTimer, answer, outcomes, got>>
      BY <1>5 DEF HandleBuffer
  <2>2. Types'
      BY <1>2, <1>3, <2>1 DEF Types, actions
  <2>3. OutcomeInv' /\ RangeInv'
      BY <1>2, <1>3, <2>1 DEF OutcomeInv, RangeInv, actions
  <2>4. TriedInv'
    <3>1. UNCHANGED <<FrontKind, Front, SizeBytes, queue>>
        BY <2>1 DEF actions, FrontKind, Front, SizeBytes
    <3> QED BY <1>2, <1>3, <1>5, <2>1, <3>1 DEF TriedInv
  <2>5. faults' \in Nat /\ faults' >= faults
      BY <1>2, <1>3 DEF Types
  <2>6. Aligned(h, taken)'
      BY <1>1, <1>2, <1>3, <2>1, <2>5, AlignedKept
  <2> QED BY <2>2, <2>3, <2>4, <2>6 DEF Inv
<1>6. CASE ~ (Len(queue) < SizeBytes)
  <2>1. /\ n < h.answered /\ commandActions # <<>>
        /\ Front = h.list[n + 1] /\ FrontKind = Front.kind
        /\ Front \in Action /\ LegalAction(Front) /\ Front.size \in Nat
        /\ Total = Front.size
        /\ SizeBytes \in Nat /\ SizeBytes <= Len(queue)
        /\ Header(FrontKind) \in Nat
        /\ taken + SizeBytes = h.ends[n] + Header(FrontKind) + nBytesReceived
        /\ nBytesReceived \in Nat /\ nBytesReceived <= Front.size
        /\ RangeSize \in Nat /\ nBytesReceived <= RangeSize
        /\ h.ends[n + 1] = h.ends[n] + Header(FrontKind) + Front.size
        /\ h.data[n + 1] = h.data[n] + Front.size /\ h.data[n + 1] <= Len(sent)
        /\ \A j \in 1 .. Front.size :
             h.stream[h.ends[n] + Header(FrontKind) + j] = sent[h.data[n] + j]
        /\ Len(got) = h.data[n] + nBytesReceived
        /\ \A j \in 1 .. Len(got) : got[j] = sent[j]
      BY <1>1, <1>2, <1>3, <1>4, <1>6, BufferFacts
  <2>2. PICK q \in Nat, header \in Nat, total \in Nat, received \in Nat, range \in Nat, begin \in Nat, all \in Nat :
          /\ q = Len(queue) /\ header = SizeBytes /\ total = Front.size /\ received = nBytesReceived
          /\ range = RangeSize /\ begin = h.ends[n] + Header(FrontKind) /\ all = h.data[n]
    <3>1. Len(queue) \in Nat
        BY <1>2, Lengths
    <3>2. h.ends[n] \in Nat /\ h.data[n] \in Nat
        BY HistoryTypes
    <3>3. h.ends[n] + Header(FrontKind) \in Nat
        BY <2>1, <3>2
    <3> QED BY <2>1, <3>1, <3>2, <3>3
  <2>3. /\ header <= q /\ taken + header = begin + received /\ received <= total /\ received <= range
        /\ h.ends[n + 1] = begin + total /\ h.data[n + 1] = all + total
        /\ Len(got) = all + received
        /\ \A j \in 1 .. total : h.stream[begin + j] = sent[all + j]
      BY <2>1, <2>2
  <2>4. q - header \in Nat
      BY <2>3
  <2>5. PICK size \in Nat :
          /\ size = Retrievable(Len(queue) - SizeBytes) /\ size <= q - header
          /\ received + size <= total /\ received + size <= range
          /\ size = q - header \/ received + size = total \/ received + size = range
    <3>1. /\ Retrievable(q - header) \in Nat /\ Retrievable(q - header) <= q - header
          /\ nBytesReceived + Retrievable(q - header) <= total
          /\ nBytesReceived + Retrievable(q - header) <= RangeSize
          /\ \/ Retrievable(q - header) = q - header
             \/ nBytesReceived + Retrievable(q - header) = total
             \/ nBytesReceived + Retrievable(q - header) = RangeSize
        BY <2>1, <2>2, <2>4, RetrievableIs
    <3>2. Retrievable(q - header) = Retrievable(Len(queue) - SizeBytes)
        BY <2>2
    <3> QED BY <2>2, <3>1, <3>2
  <2>6. /\ TakesBytes(header, size)
        /\ IF received + size = Total
           THEN /\ internalRange' = IF Front.range = "internal" THEN received + size ELSE internalRange
                /\ OnActionExecuted
           ELSE /\ nBytesTotal' = Total
                /\ nBytesReceived' = received + size
                /\ handling' = FALSE
                /\ UNCHANGED <<commandActions, parts, internalRange, timeoutTimer, answer, outcomes>>
      BY <1>6, <2>2, <2>5 DEF HandleBuffer, TakesBytes
  <2>7. PICK count \in Nat, later \in Nat : count = header + size /\ later = taken + count
      OBVIOUS
  <2>8. header + size <= Len(queue) /\ later = begin + (received + size) /\ count <= Len(queue)
    <3>1. header + size <= q
        BY <2>4, <2>5
    <3>2. later = begin + (received + size)
      <4>1. taken + header = begin + received
          BY <2>3
      <4>2. later = taken + (header + size)
          BY <2>7
      <4> QED BY <4>1, <4>2
    <3> QED BY <2>2, <2>7, <3>1, <3>2
  <2>9. /\ queue' \in Seq(Byte) /\ Dropped(queue', queue, header + size)
        /\ got' \in Seq(Byte) /\ Len(got') = Len(got) + size
        /\ \A j \in 1 .. Len(got) : got'[j] = got[j]
        /\ \A j \in 1 .. size : got'[Len(got) + j] = queue[header + j]
      BY <1>2, <2>6, <2>8, BytesTaken
  <2>10. FlightInv(h, later)'
    <3>1. Dropped(queue', queue, count)
        BY <2>7, <2>9
    <3>2. FlightInv(h, taken + count)'
        BY <1>1, <1>2, <1>3, <2>8, <3>1, FlightTaken DEF Aligned
    <3> QED BY <2>7, <3>2
  <2>11. Len(got') = all + (received + size) /\ all + (received + size) <= all + total
    <3>1. Len(got') = all + received + size
        BY <2>3, <2>9
    <3> QED BY <2>5, <3>1
  <2>12. \A j \in 1 .. Len(got') : got'[j] = sent[j]
    <3>1. ASSUME NEW j \in 1 .. Len(got')
          PROVE  got'[j] = sent[j]
      <4>1. CASE j <= Len(got)
        <5>1. j \in 1 .. Len(got)
            BY <2>3, <2>11, <4>1
        <5> QED BY <2>1, <2>9, <5>1
      <4>2. CASE ~ (j <= Len(got))
        <5>1. PICK k \in 1 .. size : j = all + received + k
          <6>1. j - (all + received) \in 1 .. size /\ j = all + received + (j - (all + received))
              BY <2>3, <2>11, <4>2
          <6> QED BY <6>1
        <5>2. got'[Len(got) + k] = queue[header + k] /\ Len(got) + k = j
            BY <2>3, <2>9, <5>1
        <5>3. header + k \in 1 .. q /\ taken + (header + k) = begin + (received + k)
              /\ received + k \in 1 .. total /\ all + (received + k) = j
            BY <2>3, <2>4, <2>5, <5>1
        <5>4. queue[header + k] = h.stream[taken + (header + k)]
            BY <1>1, <2>2, <5>3 DEF Aligned, FlightInv
        <5>5. h.stream[begin + (received + k)] = sent[all + (received + k)]
            BY <2>3, <5>3
        <5> QED BY <5>2, <5>3, <5>4, <5>5
      <4> QED BY <4>1, <4>2
    <3> QED BY <3>1
  <2>13. CASE received + size = total
    <3>1. /\ internalRange' = IF Front.range = "internal" THEN Front.size ELSE internalRange
          /\ OnActionExecuted
        BY <2>1, <2>2, <2>6, <2>13
    <3>2. internalRange' \in 2 .. 3 /\ RangeInv'
        BY <1>2, <2>1, <3>1, RangeStays
    <3>3. Executed(h) < h.answered /\ Len(got') = h.data[Executed(h) + 1] /\ later = h.ends[Executed(h) + 1]
        BY <1>4, <2>1, <2>3, <2>8, <2>11, <2>13
    <3> QED BY <1>1, <1>2, <1>3, <2>1, <2>9, <2>10, <2>12, <3>1, <3>2, <3>3, AdvanceKeeps
               DEF Aligned
  <2>14. CASE received + size # total
    <3>1. /\ nBytesTotal' = total /\ nBytesReceived' = received + size /\ handling' = FALSE
          /\ UNCHANGED <<commandActions, parts, internalRange, timeoutTimer, answer, outcomes>>
        BY <2>1, <2>2, <2>6, <2>14
    <3>2. Types'
      <4>1. nBytesTotal' \in Nat \union {Unknown} /\ nBytesReceived' \in Nat /\ handling' \in BOOLEAN
        <5>1. nBytesTotal' = total /\ nBytesReceived' = received + size /\ handling' = FALSE
            BY <3>1
        <5>2. received + size \in Nat
            OBVIOUS
        <5> QED BY <5>1, <5>2
      <4> QED BY <1>2, <1>3, <2>9, <3>1, <4>1 DEF Types
    <3>3. OutcomeInv' /\ RangeInv'
        BY <1>2, <1>3, <3>1 DEF OutcomeInv, RangeInv
    <3>4. UNCHANGED <<FrontKind, Front, RangeSize, Executed(h)>>
        BY <3>1 DEF FrontKind, Front, RangeSize, Executed
    <3>5. TriedInv'
      <4>1. SUFFICES ASSUME faults = 0, RangeKept
                     PROVE  queue' = <<>>
        <5>1. faults' = 0 => faults = 0
            BY <1>3
        <5> QED BY <1>2, <1>3, <3>1, <5>1 DEF TriedInv, RangeKept
      <4>2. range >= total
          BY <1>2, <2>1, <2>2, <4>1, RangeHasRoom
      <4>3. received + size # range
          BY <2>5, <2>14, <4>2
      <4>4. size = q - header
          BY <2>5, <2>14, <4>3
      <4>5. q - (header + size) = 0
          BY <2>3, <4>4
      <4>6. Len(queue') = 0
          BY <2>2, <2>9, <4>5 DEF Dropped
      <4> QED BY <3>2, <4>6, Lengths DEF Types
    <3>6. faults' \in Nat /\ faults' >= faults
        BY <1>2, <1>3 DEF Types
    <3>7. AnswerInv(h)' /\ StreamInv(h)'
        BY <1>1, <1>2, <1>3, <3>1, <3>6, AnswerKept, StreamKept DEF Aligned
    <3>8. ListInv(h)' /\ PartsInv(h)'
        BY <1>1, <3>1, <3>4 DEF Aligned, ListInv, PartsInv
    <3>9. HostInv(h, later)'
      <4>1. FrontKind' \in Buffers /\ Executed(h)' = n /\ Front'.size = total /\ RangeSize' = range
          BY <1>3, <1>4, <2>2, <3>4
      <4>2. Len(got') <= Len(sent')
        <5>1. Len(got') <= all + total /\ all + total <= Len(sent)
            BY <2>1, <2>3, <2>11
        <5>2. Len(got') \in Nat /\ Len(sent) \in Nat /\ sent' = sent
            BY <1>2, <1>3, <2>11, Lengths
        <5> QED BY <5>1, <5>2
      <4>3. \A j \in 1 .. Len(got') : got'[j] = sent'[j]
          BY <1>3, <2>12
      <4>4. FrontKind' \notin {"none", "transmit", "ack"}
          BY <4>1 DEF Buffers
      <4>5. nBytesTotal' # Unknown
          BY <3>1 DEF Unknown
      <4>6. received + size < total /\ received + size <= range
          BY <2>5, <2>14
      <4>7. later = h.ends[n] + Header(FrontKind') + nBytesReceived'
          BY <2>2, <2>8, <3>1, <3>4
      <4>8. Len(got') = h.data[n] + nBytesReceived'
          BY <2>2, <2>11, <3>1
      <4> QED BY <2>1, <3>1, <4>1, <4>2, <4>3, <4>4, <4>5, <4>6, <4>7, <4>8 DEF HostInv
    <3> QED BY <2>10, <3>2, <3>3, <3>5, <3>7, <3>8, <3>9 DEF Inv, Aligned
  <2> QED BY <2>13, <2>14
<1> QED BY <1>5, <1>6

-----------------------------------------------------------------------------
(* The invariant holds. *)

LEMMA InitInv ==
    ASSUME Init
    PROVE  Inv
<1> DEFINE none == [i \in Nat |-> 0]
           h == [list |-> InitializeUartBootloader, stream |-> <<>>, ends |-> none, data |-> none,
                 answered |-> 1]
<1>1. none \in [Nat -> Nat] /\ \A i \in Nat : none[i] = 0
    OBVIOUS
<1> HIDE DEF none
<1>2. h \in History
  <2>1. InitializeUartBootloader \in Lists /\ <<>> \in Seq(Byte) /\ 1 \in Nat
      BY DEF Lists
  <2> QED BY <1>1, <2>1 DEF History
<1>3. /\ h.list = InitializeUartBootloader /\ h.stream = <<>> /\ h.ends = none /\ h.data = none
      /\ h.answered = 1
    OBVIOUS
<1> HIDE DEF h
<1>4. /\ Len(h.list) = 2 /\ h.list[1] = Transmit(1) /\ h.list[2] = ReceiveAck /\ commandActions = h.list
      /\ h.list \in Seq(Action)
  <2>1. Len(h.list) = 2 /\ h.list[1] = Transmit(1) /\ h.list[2] = ReceiveAck
      BY <1>3 DEF InitializeUartBootloader, TransmitRaw
  <2>2. commandActions = h.list
      BY <1>3 DEF Init
  <2> QED BY <1>2, <2>1, <2>2, HistoryTypes
<1>5. /\ Transmit(1).kind = "transmit" /\ Transmit(1).size = 0 /\ Transmit(1).parts = 1
      /\ ReceiveAck.kind = "ack" /\ ReceiveAck \in Action
    BY DEF Transmit, ReceiveAck, Receive, Action
<1>6. /\ parts = 1 /\ nBytesTotal = Unknown /\ nBytesReceived = 0 /\ internalRange = 3
      /\ queue = <<>> /\ notified = FALSE /\ handling = FALSE
      /\ timeoutTimer = TRUE /\ listening = TRUE /\ onError = TRUE
      /\ answer = <<ReceiveAck>> /\ line = <<>> /\ faults = 0
      /\ outcomes = <<>> /\ sent = <<>> /\ got = <<>>
    BY DEF Init, InternalBufferSize
<1>7. commandActions # <<>> /\ Front = Transmit(1) /\ FrontKind = "transmit" /\ Executed(h) = 0
    BY <1>4, <1>5 DEF Front, FrontKind, Executed
<1>8. Types
  <2>1. commandActions \in Seq(Action) /\ answer \in Seq(Action)
      BY <1>4, <1>5, <1>6
  <2>2. /\ parts \in 0 .. 3 /\ nBytesTotal \in Nat \union {Unknown} /\ nBytesReceived \in Nat
        /\ internalRange \in 2 .. 3 /\ faults \in Nat
      BY <1>6
  <2>3. queue \in Seq(Byte) /\ line \in Seq(Byte) /\ sent \in Seq(Byte) /\ got \in Seq(Byte)
      BY <1>6
  <2>4. /\ notified \in BOOLEAN /\ handling \in BOOLEAN /\ timeoutTimer \in BOOLEAN
        /\ listening \in BOOLEAN /\ onError \in BOOLEAN
      BY <1>6
  <2> QED BY <2>1, <2>2, <2>3, <2>4, Zenon DEF Types
<1>9. OutcomeInv /\ RangeInv /\ TriedInv
    BY <1>6, <1>7 DEF OutcomeInv, RangeInv, TriedInv
<1>10. ListInv(h) /\ PartsInv(h)
  <2>1. \A i \in 1 .. Len(commandActions) : commandActions[i] = h.list[0 + i]
      BY <1>4
  <2>2. \A i \in 0 + 2 .. 1 : FALSE
      OBVIOUS
  <2>3. ListInv(h)
    <3>1. Len(commandActions) <= Len(h.list) /\ Executed(h) <= h.answered /\ h.answered <= Len(h.list)
      <4>1. Len(commandActions) = 2 /\ Len(h.list) = 2 /\ h.answered = 1 /\ Executed(h) = 0
          BY <1>3, <1>4, <1>7
      <4> QED BY <4>1
    <3>2. \A i \in 1 .. Len(commandActions) : commandActions[i] = h.list[Executed(h) + i]
        BY <1>7, <2>1
    <3>3. \A i \in Executed(h) + 2 .. h.answered : h.list[i].kind # "transmit"
        BY <1>3, <1>7, <2>2
    <3> QED BY <3>1, <3>2, <3>3, Zenon DEF ListInv
  <2> QED BY <1>3, <1>6, <1>7, <2>3 DEF PartsInv
<1>11. AnswerInv(h)
  <2>1. Len(answer) = 1 /\ answer[1] = ReceiveAck
      BY <1>6
  <2>2. \A i \in 1 .. Len(answer) : i = 1
      BY <2>1
  <2>3. 1 + 1 = 2
      OBVIOUS
  <2>4. \A i \in 1 .. Len(answer) : answer[i] = h.list[h.answered + i] /\ answer[i].kind # "transmit"
      BY <1>3, <1>4, <1>5, <2>1, <2>2, <2>3
  <2> QED BY <1>3, <1>4, <2>1, <2>3, <2>4 DEF AnswerInv
<1>12. StreamInv(h)
  <2>1. /\ \A i \in Nat : h.ends[i] = 0 /\ h.data[i] = 0
        /\ Len(h.stream) = 0 /\ Len(sent) = 0
      BY <1>1, <1>3, <1>6
  <2>2. h.list[1].kind = "transmit" /\ h.list[1].size = 0
      BY <1>4, <1>5
  <2>3. Sent(h, 1)
    <3>1. 1 - 1 = 0 /\ 0 \in Nat /\ 1 \in Nat
        OBVIOUS
    <3> QED BY <2>1, <2>2, <3>1 DEF Sent, Buffers
  <2>4. \A i \in 1 .. 1 : Sent(h, i)
    <3>1. \A i \in 1 .. 1 : i = 1
        OBVIOUS
    <3> QED BY <2>3, <3>1
  <2>5. \A j \in 0 + 1 .. 0 : FALSE
      OBVIOUS
  <2> QED BY <1>3, <2>1, <2>4, <2>5 DEF StreamInv
<1>13. HostInv(h, 0)
  <2>1. Len(got) = 0 /\ Len(sent) = 0 /\ h.ends[0] = 0 /\ h.data[0] = 0
      BY <1>1, <1>3, <1>6
  <2> QED BY <1>6, <1>7, <2>1 DEF HostInv, Buffers
<1>14. FlightInv(h, 0)
    BY <1>3, <1>6 DEF FlightInv
<1> QED BY <1>2, <1>8, <1>9, <1>10, <1>11, <1>12, <1>13, <1>14 DEF Inv, Aligned

LEMMA StutterKeeps ==
    ASSUME Inv, UNCHANGED vars
    PROVE  Inv'
<1>1. PICK h \in History, taken \in Nat : Aligned(h, taken)
    BY DEF Inv
<1>2. Types /\ OutcomeInv /\ RangeInv /\ TriedInv
    BY DEF Inv
<1>3. UNCHANGED <<actions, internalRange, queue, notified, handling, timeoutTimer, listening, onError,
                  answer, line, faults, outcomes, sent, got>>
    BY DEF vars, target
<1>4. Types'
    BY <1>2, <1>3 DEF Types, actions
<1>5. OutcomeInv' /\ RangeInv'
    BY <1>2, <1>3 DEF OutcomeInv, RangeInv, actions
<1>6. TriedInv'
  <2>1. UNCHANGED <<FrontKind, SizeBytes, queue>>
      BY <1>3 DEF actions, FrontKind, Front, SizeBytes
  <2> QED BY <1>2, <1>3, <2>1 DEF TriedInv
<1>7. Aligned(h, taken)'
  <2>1. faults' \in Nat /\ faults' >= faults
      BY <1>2, <1>3 DEF Types
  <2> QED BY <1>1, <1>2, <1>3, <2>1, AlignedKept
<1> QED BY <1>4, <1>5, <1>6, <1>7 DEF Inv

LEMMA NextKeeps ==
    ASSUME Inv, [Next]_vars
    PROVE  Inv'
<1>1. CASE \E given \in Commands : Execute(given)
    BY <1>1, ExecuteKeeps
<1>2. CASE Stop
    BY <1>2, StopKeeps
<1>3. CASE SendCompleted
    BY <1>3, SendCompletedKeeps
<1>4. CASE DataReceived
    BY <1>4, DataReceivedKeeps
<1>5. CASE Timeout
    BY <1>5, TimeoutKeeps
<1>6. CASE NothingToHandle
    BY <1>6, NothingToHandleKeeps
<1>7. CASE HandleAck
    BY <1>7, HandleAckKeeps
<1>8. CASE HandleBuffer
    BY <1>8, HandleBufferKeeps
<1>9. CASE BytesReceived
    BY <1>9, BytesReceivedKeeps
<1>10. CASE Answers
    BY <1>10, AnswersKeeps
<1>11. CASE Fault
    BY <1>11, FaultKeeps
<1>12. CASE UNCHANGED vars
    BY <1>12, StutterKeeps
<1> QED BY <1>1, <1>2, <1>3, <1>4, <1>5, <1>6, <1>7, <1>8, <1>9, <1>10, <1>11, <1>12, Zenon
        DEF Next, Dispatch, Handle

(* Host and target carry out the same list of actions, and what the host   *)
(* takes from the queue is the answer to its first action.                 *)
THEOREM Invariant == Spec => []Inv
<1>1. Init => Inv
    BY InitInv
<1>2. Inv /\ [Next]_vars => Inv'
    BY NextKeeps
<1> QED BY <1>1, <1>2, PTL DEF Spec

-----------------------------------------------------------------------------
(* The properties. *)

(* The list, the sizes of what is received and of its ranges, and the      *)
(* bytes of the queue and of the line stay in their ranges: nothing is     *)
(* received beyond the size of the buffer.                                 *)
THEOREM TypeCorrect == Spec => []TypeOK
<1>1. ASSUME Inv
      PROVE  TypeOK
  <2>1. Types /\ OutcomeInv
      BY <1>1 DEF Inv
  <2>2. PICK h \in History, taken \in Nat : Aligned(h, taken)
      BY <1>1 DEF Inv
  <2>3. Len(commandActions) <= 12
    <3>1. Len(h.list) <= 12 /\ Len(h.list) \in Nat /\ Len(commandActions) \in Nat
        BY <2>1, HistoryTypes, Lengths DEF LegalList
    <3>2. Len(commandActions) <= Len(h.list)
        BY <2>2 DEF Aligned, ListInv
    <3> QED BY <3>1, <3>2
  <2>4. nBytesReceived \in 0 .. (IF nBytesTotal = Unknown THEN 0 ELSE nBytesTotal)
    <3>1. nBytesReceived \in Nat /\ nBytesTotal \in Nat \union {Unknown}
        BY <2>1 DEF Types
    <3>2. nBytesTotal = Unknown => nBytesReceived = 0
        BY <2>2 DEF Aligned, HostInv
    <3>3. nBytesTotal # Unknown => nBytesReceived < nBytesTotal
        BY <2>2 DEF Aligned, HostInv
    <3> QED BY <3>1, <3>2, <3>3
  <2>5. outcomes \in Seq({"done", "error"})
    <3>1. \/ outcomes = <<>> \/ outcomes = <<"done">> \/ outcomes = <<"error">>
          \/ outcomes = <<"error", "done">>
        BY <2>1 DEF OutcomeInv
    <3>2. /\ <<>> \in Seq({"done", "error"}) /\ <<"done">> \in Seq({"done", "error"})
          /\ <<"error">> \in Seq({"done", "error"}) /\ <<"error", "done">> \in Seq({"done", "error"})
        OBVIOUS
    <3> QED BY <3>1, <3>2, Zenon
  <2>6. {notified, handling, timeoutTimer, listening, onError} \subseteq BOOLEAN
      BY <2>1 DEF Types
  <2>7. {queue, line, sent, got} \subseteq Seq(Byte)
      BY <2>1 DEF Types
  <2>8. /\ commandActions \in Seq(Action) /\ parts \in 0 .. 3
        /\ nBytesTotal \in Nat \cup {Unknown} /\ answer \in Seq(Action) /\ faults \in Nat
      BY <2>1 DEF Types
  <2>9. internalRange \in 0 .. InternalBufferSize
    <3>1. internalRange \in 2 .. 3
        BY <2>1 DEF Types
    <3> QED BY <3>1 DEF InternalBufferSize
  <2> QED BY <2>3, <2>4, <2>5, <2>6, <2>7, <2>8, <2>9, Zenon DEF TypeOK
<1> QED BY <1>1, Invariant, PTL

(* A command is done with all of its answer and nothing but its answer,    *)
(* and no error is reported of it any more.                                *)
THEOREM AnsweredInStep == Spec => []DoneInStep
<1>1. ASSUME Inv
      PROVE  DoneInStep
  <2>1. Types /\ OutcomeInv
      BY <1>1 DEF Inv
  <2>2. PICK h \in History, taken \in Nat : Aligned(h, taken)
      BY <1>1 DEF Inv
  <2>3. outcomes = <<"done">> /\ commandActions = <<>> =>
            got = sent /\ queue = <<>> /\ line = <<>> /\ answer = <<>>
      BY <2>1, <2>2, DoneIsEmpty
  <2>4. \/ outcomes = <<>> \/ outcomes = <<"done">> \/ outcomes = <<"error">>
        \/ outcomes = <<"error", "done">>
      BY <2>1 DEF OutcomeInv
  <2>5. \A i \in 2 .. Len(outcomes) : outcomes[i - 1] # "done"
    <3>1. CASE outcomes = <<"error", "done">>
      <4>1. \A i \in 2 .. 2 : i - 1 = 1
          OBVIOUS
      <4>2. Len(outcomes) = 2 /\ outcomes[1] = "error"
          BY <3>1
      <4> QED BY <4>1, <4>2
    <3>2. CASE outcomes = <<>> \/ outcomes = <<"done">> \/ outcomes = <<"error">>
      <4>1. PICK last \in 0 .. 1 : last = Len(outcomes)
          BY <3>2
      <4>2. \A i \in 2 .. last : FALSE
          OBVIOUS
      <4> QED BY <4>1, <4>2
    <3> QED BY <2>4, <3>1, <3>2
  <2> QED BY <2>3, <2>5 DEF DoneInStep
<1> QED BY <1>1, Invariant, PTL

(* A target that answers is never given up, when the application does not  *)
(* give both GetId and GetVersion: GetId leaves them an internal range     *)
(* that is too small for the answer to GetVersion.                         *)
THEOREM NeverGivenUp ==
    ASSUME RangeKept
    PROVE  Spec => []AnsweredIsDone
<1>1. ASSUME Inv
      PROVE  AnsweredIsDone
    BY <1>1 DEF Inv, TriedInv, AnsweredIsDone
<1> QED BY <1>1, Invariant, PTL

(* The ends of the answers of ReadMemory: a frame takes no byte and is     *)
(* answered only when the host has executed what is before it, an          *)
(* acknowledgement takes one byte.                                         *)
LEMMA EndsOfReadMemory ==
    ASSUME NEW end \in [Nat -> Nat], NEW n \in Nat, NEW a \in Nat, NEW data \in Nat, n <= a, a <= 7,
           \A i \in {1, 3, 5} : i <= a => end[i] = end[i - 1] /\ n >= i - 1,
           \A i \in {2, 4, 6} : i <= a => end[i] = end[i - 1] + 1,
           7 <= a => end[7] <= end[6] + data
    PROVE  end[a] <= end[n] + 1 + data
<1>1. PICK e1 \in Nat, e2 \in Nat, e3 \in Nat, e4 \in Nat, e5 \in Nat, e6 \in Nat, e7 \in Nat, e0 \in Nat :
        /\ e0 = end[0] /\ e1 = end[1] /\ e2 = end[2] /\ e3 = end[3]
        /\ e4 = end[4] /\ e5 = end[5] /\ e6 = end[6] /\ e7 = end[7]
    OBVIOUS
<1>2. /\ 1 <= a => e1 = e0 /\ n >= 0
      /\ 3 <= a => e3 = e2 /\ n >= 2
      /\ 5 <= a => e5 = e4 /\ n >= 4
  <2>1. 1 - 1 = 0 /\ 3 - 1 = 2 /\ 5 - 1 = 4 /\ 1 \in {1, 3, 5} /\ 3 \in {1, 3, 5} /\ 5 \in {1, 3, 5}
      OBVIOUS
  <2> QED BY <1>1, <2>1
<1>3. /\ 2 <= a => e2 = e1 + 1
      /\ 4 <= a => e4 = e3 + 1
      /\ 6 <= a => e6 = e5 + 1
  <2>1. 2 - 1 = 1 /\ 4 - 1 = 3 /\ 6 - 1 = 5 /\ 2 \in {2, 4, 6} /\ 4 \in {2, 4, 6} /\ 6 \in {2, 4, 6}
      OBVIOUS
  <2> QED BY <1>1, <2>1
<1>4. 7 <= a => e7 <= e6 + data
    BY <1>1
<1>5. /\ n = 0 \/ n = 1 \/ n = 2 \/ n = 3 \/ n = 4 \/ n = 5 \/ n = 6 \/ n = 7
      /\ a = 0 \/ a = 1 \/ a = 2 \/ a = 3 \/ a = 4 \/ a = 5 \/ a = 6 \/ a = 7
    OBVIOUS
<1>6. CASE a = n
    BY <1>6
<1>7. CASE a # n /\ (a = 1 \/ a = 3 \/ a = 5)
    BY <1>1, <1>2, <1>5, <1>7
<1>8. CASE a # n /\ (a = 2 \/ a = 4 \/ a = 6)
    BY <1>1, <1>2, <1>3, <1>5, <1>8
<1>9. CASE a # n /\ a = 7
    BY <1>1, <1>2, <1>3, <1>4, <1>5, <1>9
<1> QED BY <1>5, <1>6, <1>7, <1>8, <1>9

(* Only the list of ReadMemory ends in data. *)
ReadsMemory(h) == h.list[Len(h.list)].kind = "predefined"

(* The bytes that a target which answers sends ahead of the host are at    *)
(* most an acknowledgement and the memory: it gets the next frame only     *)
(* when the host has taken the acknowledgement before.                     *)
LEMMA ReadMemoryFits ==
    ASSUME Types, NEW h \in History, NEW taken \in Nat, Aligned(h, taken), faults = 0,
           ReadsMemory(h), NEW n \in Nat, n = Executed(h)
    PROVE  h.ends[h.answered] <= h.ends[n] + 1 + MaxData
<1>1. PICK a \in Nat, end \in [Nat -> Nat] : a = h.answered /\ end = h.ends
    BY HistoryTypes
<1>2. /\ Len(h.list) = 7
      /\ \A i \in {1, 3, 5} : h.list[i].kind = "transmit"
      /\ \A i \in {2, 4, 6} : h.list[i].kind = "ack"
      /\ h.list[7].kind = "predefined" /\ h.list[7].size <= MaxData /\ h.list[7].size \in Nat
  <2>1. LegalList(h.list)
      BY HistoryTypes
  <2>2. /\ Len(h.list) = 7
        /\ \A i \in {1, 3, 5} : h.list[i].kind = "transmit"
        /\ \A i \in {2, 4, 6} : h.list[i].kind = "ack"
        /\ h.list[7].size <= MaxData
      BY <2>1, Zenon DEF LegalList, ReadsMemory
  <2>3. h.list[7].kind = "predefined"
      BY <2>2 DEF ReadsMemory
  <2>4. h.list[7] \in Action
    <3>1. 7 \in 1 .. Len(h.list)
        BY <2>2
    <3> QED BY <3>1, HistoryTypes
  <2> QED BY <2>2, <2>3, <2>4, Kinds
<1>3. n <= a /\ a <= 7
    BY <1>1, <1>2 DEF Aligned, ListInv
<1>5. MaxData \in Nat
    BY MaxDataAssumption
<1>6. ASSUME NEW i \in 1 .. 7, i <= a
      PROVE  Sent(h, i)
  <2>1. i \in 1 .. a
      BY <1>6
  <2>2. \A j \in 1 .. a : Sent(h, j)
      BY <1>1 DEF Aligned, StreamInv
  <2> QED BY <2>1, <2>2, Zenon
<1>7. ASSUME NEW i \in {1, 3, 5}, i <= a
      PROVE  end[i] = end[i - 1] /\ n >= i - 1
  <2>1. h.list[i].kind = "transmit" /\ i \in 1 .. 7
      BY <1>2
  <2>2. end[i] = end[i - 1]
    <3>1. Sent(h, i)
        BY <1>6, <1>7, <2>1
    <3> QED BY <1>1, <2>1, <3>1 DEF Sent
  <2>3. i \notin n + 2 .. a
      BY <1>1, <2>1 DEF Aligned, ListInv
  <2>4. n >= i - 1
    <3>1. i < n + 2
        BY <1>7, <2>3
    <3> QED BY <3>1
  <2> QED BY <2>2, <2>4
<1>8. ASSUME NEW i \in {2, 4, 6}, i <= a
      PROVE  end[i] = end[i - 1] + 1
  <2>1. h.list[i].kind = "ack" /\ i \in 1 .. 7
      BY <1>2
  <2>2. Sent(h, i)
      BY <1>6, <1>8, <2>1
  <2>3. AckSent(h, i)
      BY <2>1, <2>2 DEF Sent
  <2> QED BY <1>1, <2>3 DEF AckSent
<1>9. ASSUME 7 <= a
      PROVE  end[7] <= end[6] + MaxData
  <2>1. Sent(h, 7)
    <3>1. 7 \in 1 .. 7
        OBVIOUS
    <3> QED BY <1>6, <1>9, <3>1
  <2>2. BufferSent(h, 7)
      BY <1>2, <2>1 DEF Sent, Buffers
  <2>3. h.ends[7] = h.ends[7 - 1] + 0 + h.list[7].size
      BY <1>2, <2>2 DEF BufferSent, Header
  <2>4. PICK size \in Nat, before \in Nat : size = h.list[7].size /\ before = end[6]
    <3>1. end[6] \in Nat
        OBVIOUS
    <3> QED BY <1>2, <3>1
  <2>5. end[7] = before + 0 + size /\ size <= MaxData
    <3>1. 7 - 1 = 6
        OBVIOUS
    <3> QED BY <1>1, <1>2, <2>3, <2>4, <3>1
  <2>6. before + 0 + size <= before + MaxData
      BY <1>5, <2>5
  <2> QED BY <2>4, <2>5, <2>6
<1>10. end[a] <= end[n] + 1 + MaxData
    BY <1>3, <1>5, <1>7, <1>8, <1>9, EndsOfReadMemory
<1> QED BY <1>1, <1>10

(* The memory that ReadMemory reads fits in the queue with the             *)
(* acknowledgement before it, also when the dispatcher is busy until all   *)
(* of it came.                                                             *)
THEOREM MemoryFits == Spec => []QueueHasRoom
<1>1. ASSUME Inv
      PROVE  QueueHasRoom
  <2>1. SUFFICES ASSUME faults = 0, commandActions # <<>>,
                        commandActions[Len(commandActions)].kind = "predefined"
                 PROVE  Len(queue) <= QueueSize
      BY DEF QueueHasRoom
  <2>2. Types
      BY <1>1 DEF Inv
  <2>3. PICK h \in History, taken \in Nat : Aligned(h, taken)
      BY <1>1 DEF Inv
  <2>4. PICK n \in Nat, q \in Nat, m \in Nat, end \in Nat :
          n = Executed(h) /\ q = Len(queue) /\ m = Len(line) /\ end = Len(h.stream)
      BY <2>2, <2>3, Lengths, HistoryTypes, Where DEF Aligned
  <2>5. ReadsMemory(h)
    <3>1. Len(commandActions) \in 1 .. Len(commandActions) /\ n + Len(commandActions) = Len(h.list)
      <4>1. n + Len(commandActions) = Len(h.list) /\ Len(commandActions) >= 1
          BY <2>1, <2>2, <2>3, <2>4, Where DEF Aligned
      <4> QED BY <2>2, <4>1, Lengths
    <3>2. commandActions[Len(commandActions)] = h.list[n + Len(commandActions)]
        BY <2>3, <2>4, <3>1 DEF Aligned, ListInv
    <3> QED BY <2>1, <3>1, <3>2 DEF ReadsMemory
  <2>6. h.ends[h.answered] <= h.ends[n] + 1 + MaxData
      BY <2>1, <2>2, <2>3, <2>4, <2>5, ReadMemoryFits
  <2>7. PICK start \in Nat, stop \in Nat : start = h.ends[n] /\ stop = h.ends[h.answered]
      BY HistoryTypes
  <2>8. stop = end
    <3>1. stop <= end /\ (stop < end => faults > 0)
        BY <2>3, <2>4, <2>7 DEF Aligned, StreamInv
    <3> QED BY <2>1, <3>1
  <2>9. start <= taken
    <3>1. \/ taken = start \/ start <= taken
          \/ \E more \in Nat, received \in Nat : taken = start + more + received
      <4>1. FrontKind \in {"transmit", "ack"} \union Buffers
          BY <2>1, <2>2, <2>3, Where DEF Aligned
      <4>2. FrontKind \in {"transmit", "ack"} => taken = start \/ start <= taken
          BY <2>3, <2>4, <2>7 DEF Aligned, HostInv
      <4>3. FrontKind \in Buffers =>
              taken = start \/ taken = start + Header(FrontKind) + nBytesReceived
          BY <2>3, <2>4, <2>7 DEF Aligned, HostInv
      <4>4. Header(FrontKind) \in Nat /\ nBytesReceived \in Nat
          BY <2>2 DEF Header, Types
      <4> QED BY <4>1, <4>2, <4>3, <4>4
    <3> QED BY <3>1
  <2>10. taken + q + m <= end
      BY <2>3, <2>4 DEF Aligned, FlightInv
  <2>11. MaxData \in Nat
      BY MaxDataAssumption
  <2>12. q <= MaxData + 1
      BY <2>6, <2>7, <2>8, <2>9, <2>10, <2>11
  <2> QED BY <2>4, <2>12 DEF QueueSize
<1> QED BY <1>1, Invariant, PTL

-----------------------------------------------------------------------------
(* FlashOnStBootloader: the inductive invariant. *)

(* Where a transfer is: the command is the part between what is done and   *)
(* the tail, and the tail ends where the request does.  A write has given  *)
(* the addresses before the command their bytes.                           *)
TransferInv ==
    command.kind \in {"WriteMemory", "ReadMemory"} =>
        /\ onDone
        /\ request.kind = IF command.kind = "WriteMemory" THEN "write" ELSE "read"
        /\ request.first <= command.first
        /\ command.size \in 1 .. BlockSize
        /\ tailAddress = command.first + command.size
        /\ tailAddress + tail = request.last
        /\ request.last <= FlashSize
        /\ command.kind = "WriteMemory" =>
            /\ command.size % Word = 0
            /\ tail % Word = 0
            /\ \A address \in Address :
                written[address] = IF address \in request.first .. command.first - 1
                                   THEN <<address - request.first>> ELSE <<>>

(* Where an erase is: the sectors before the command's are erased once.    *)
EraseInv ==
    /\ command.kind = "ExtendedErase" =>
        /\ onDone
        /\ request.kind = "erase"
        /\ command.first = beginIndex
        /\ endIndex = request.last
        /\ request.first <= beginIndex /\ beginIndex < endIndex
        /\ \A sector \in Sector :
            erased[sector] = IF sector \in request.first .. beginIndex - 1 THEN 1 ELSE 0
    /\ command.kind = "ExtendedMassErase" =>
        /\ onDone
        /\ request.kind = "erase"
        /\ request.first = 0 /\ request.last = NumberOfSectors
        /\ \A sector \in Sector : erased[sector] = 0

WrittenExactly ==
    ~onDone /\ request.kind = "write" =>
        \A address \in Address :
            written[address] = IF address \in request.first .. request.last - 1
                               THEN <<address - request.first>> ELSE <<>>

ErasedExactly ==
    request.kind = "erase" =>
        \A sector \in Sector :
            IF sector \in request.first .. request.last - 1
            THEN erased[sector] \in 0 .. 1 /\ (~onDone => erased[sector] = 1)
            ELSE erased[sector] = 0

FlashInv == FlashTypeOK /\ TransferInv /\ EraseInv /\ WrittenExactly /\ ErasedExactly

-----------------------------------------------------------------------------
(* What is left of whole words, when a whole block of them is taken, is    *)
(* whole words.                                                            *)
LEMMA WholeWords ==
    ASSUME NEW size \in Nat, size % Word = 0
    PROVE  HeadSize(size) % Word = 0 /\ (size - HeadSize(size)) % Word = 0
<1>1. ASSUME NEW bytes \in Nat, bytes % Word = 0
      PROVE  bytes = Word * (bytes \div Word) /\ bytes \div Word \in Nat
    BY <1>1, WordAssumption, SMTT(30)
<1>2. \A words \in Int : (Word * words) % Word = 0
    BY WordAssumption, SMTT(30)
<1>3. CASE size < BlockSize
  <2>1. size - size = Word * 0
      BY WordAssumption
  <2> QED BY <1>2, <1>3, <2>1, BlockSizeAssumption DEF HeadSize
<1>4. CASE ~(size < BlockSize)
  <2> DEFINE words == size \div Word
             block == BlockSize \div Word
  <2>1. /\ size = Word * words /\ words \in Nat
        /\ BlockSize = Word * block /\ block \in Nat
      BY <1>1, BlockSizeAssumption, WordAssumption
  <2> HIDE DEF words, block
  <2>2. size - BlockSize = Word * (words - block)
      BY <2>1, WordAssumption, SMTT(30)
  <2> QED BY <1>2, <1>4, <2>1, <2>2, WordAssumption DEF HeadSize
<1> QED BY <1>3, <1>4, BlockSizeAssumption

(* A head is not empty and no longer than what remains. *)
LEMMA HeadFits ==
    ASSUME NEW size \in Nat, size # 0
    PROVE  HeadSize(size) \in 1 .. BlockSize /\ HeadSize(size) <= size
BY BlockSizeAssumption DEF HeadSize

(* A transfer of a range of the flash begins with its head, or is done.    *)
LEMMA TransferBegins ==
    ASSUME FlashTypeOK,
           NEW kind \in {"WriteMemory", "ReadMemory"},
           NEW size \in 0 .. FlashSize, NEW address \in 0 .. FlashSize,
           address + size <= FlashSize,
           Transfer(kind, size, address)
    PROVE  /\ onDone' \in BOOLEAN
           /\ {tail', tailAddress'} \subseteq 0 .. FlashSize
           /\ {beginIndex', endIndex'} \subseteq 0 .. NumberOfSectors
           /\ command' \in [kind : {"none", "WriteMemory", "ReadMemory", "ExtendedErase", "ExtendedMassErase"},
                            first : Nat, size : Nat]
           /\ size = 0 => ~onDone' /\ command'.kind = "none"
           /\ size # 0 => /\ onDone'
                          /\ command'.kind = kind
                          /\ command'.first = address
                          /\ command'.size \in 1 .. BlockSize
                          /\ tailAddress' = address + command'.size
                          /\ tailAddress' + tail' = address + size
                          /\ command'.size = HeadSize(size)
                          /\ tail' = size - HeadSize(size)
<1>1. CASE size = 0
  <2>1. onDone' = FALSE /\ command' = NoCommand
        /\ tail' = tail /\ tailAddress' = tailAddress
        /\ beginIndex' = beginIndex /\ endIndex' = endIndex
      BY <1>1 DEF Transfer, Done, progress
  <2> QED BY <1>1, <2>1 DEF NoCommand, FlashTypeOK
<1>2. CASE size # 0
  <2>1. HeadSize(size) \in 1 .. BlockSize /\ HeadSize(size) <= size
      BY <1>2, HeadFits, FlashSizeAssumption
  <2>2. /\ onDone' = TRUE
        /\ tail' = size - HeadSize(size)
        /\ tailAddress' = address + HeadSize(size)
        /\ command' = [kind |-> kind, first |-> address, size |-> HeadSize(size)]
        /\ UNCHANGED <<beginIndex, endIndex>>
      BY <1>2 DEF Transfer, TailAddress
  <2> DEFINE head == HeadSize(size)
  <2>3. head \in 1 .. BlockSize /\ head <= size /\ head \in Nat
      BY <2>1, BlockSizeAssumption
  <2>4. /\ onDone' = TRUE /\ tail' = size - head /\ tailAddress' = address + head
        /\ command' = [kind |-> kind, first |-> address, size |-> head]
        /\ beginIndex' = beginIndex /\ endIndex' = endIndex
      BY <2>2
  <2> HIDE DEF head
  <2>5. size - head \in 0 .. FlashSize /\ address + head \in 0 .. FlashSize
        /\ address + head + (size - head) = address + size
      BY <2>3, FlashSizeAssumption
  <2> QED BY <1>2, <2>3, <2>4, <2>5, FlashSizeAssumption, BlockSizeAssumption DEF FlashTypeOK, head
<1> QED BY <1>1, <1>2

(* An erase begins with its first sector or all of them, or is done.       *)
LEMMA EraseBegins ==
    ASSUME FlashTypeOK,
           NEW begin \in 0 .. NumberOfSectors, NEW end \in 0 .. NumberOfSectors,
           begin <= end,
           Erase(begin, end)
    PROVE  /\ onDone' \in BOOLEAN
           /\ {tail', tailAddress'} \subseteq 0 .. FlashSize
           /\ {beginIndex', endIndex'} \subseteq 0 .. NumberOfSectors
           /\ command' \in [kind : {"none", "WriteMemory", "ReadMemory", "ExtendedErase", "ExtendedMassErase"},
                            first : Nat, size : Nat]
           /\ begin = end => ~onDone' /\ command'.kind = "none"
           /\ begin # end => /\ onDone'
                             /\ \/ /\ command'.kind = "ExtendedMassErase"
                                   /\ begin = 0 /\ end = NumberOfSectors
                                \/ /\ command'.kind = "ExtendedErase"
                                   /\ command'.first = begin
                                   /\ beginIndex' = begin /\ endIndex' = end
<1>1. CASE begin = end
  <2>1. onDone' = FALSE /\ command' = NoCommand
        /\ tail' = tail /\ tailAddress' = tailAddress
        /\ beginIndex' = beginIndex /\ endIndex' = endIndex
      BY <1>1 DEF Erase, Done, progress
  <2> QED BY <1>1, <2>1 DEF NoCommand, FlashTypeOK
<1>2. CASE begin # end
    BY <1>2, NumberOfSectorsAssumption DEF Erase, FlashTypeOK, progress
<1> QED BY <1>1, <1>2

-----------------------------------------------------------------------------
(* The invariant holds in every reachable state. *)
THEOREM FlashInvariant == FlashSpec => []FlashInv
<1>1. ASSUME FlashInit PROVE FlashInv
  <2>1. FlashTypeOK
    <3>1. written \in [Address -> Seq(Int)] /\ erased \in [Sector -> Nat] /\ buffer \in [Address -> Seq(Int)]
        BY <1>1 DEF FlashInit
    <3>2. /\ onDone = FALSE /\ tail = 0 /\ tailAddress = 0 /\ beginIndex = 0 /\ endIndex = 0
          /\ request = [kind |-> "none", first |-> 0, last |-> 0]
          /\ command = [kind |-> "none", first |-> 0, size |-> 0]
          /\ failures = 0
        BY <1>1 DEF FlashInit, NoCommand
    <3>3. /\ request \in [kind : {"none", "write", "read", "erase"}, first : Nat, last : Nat]
          /\ command \in [kind : {"none", "WriteMemory", "ReadMemory", "ExtendedErase", "ExtendedMassErase"},
                          first : Nat, size : Nat]
        BY <3>2
    <3>4. /\ {tail, tailAddress} \subseteq 0 .. FlashSize
          /\ {beginIndex, endIndex} \subseteq 0 .. NumberOfSectors
          /\ failures \in 0 .. MaxFailures
        BY <3>2, FlashSizeAssumption, NumberOfSectorsAssumption, MaxFailuresAssumption
    <3>5. onDone \in BOOLEAN
        BY <3>2
    <3> QED BY <3>1, <3>3, <3>4, <3>5 DEF FlashTypeOK
  <2>2. TransferInv /\ EraseInv /\ WrittenExactly /\ ErasedExactly
    <3>1. command.kind = "none" /\ request.kind = "none"
        BY <1>1 DEF FlashInit, NoCommand
    <3> QED BY <3>1 DEF TransferInv, EraseInv, WrittenExactly, ErasedExactly
  <2> QED BY <2>1, <2>2 DEF FlashInv
<1>2. FlashInv /\ [FlashNext]_flashVars => FlashInv'
  <2> SUFFICES ASSUME FlashInv, [FlashNext]_flashVars PROVE FlashInv'
      OBVIOUS
  <2>1. FlashTypeOK /\ TransferInv /\ EraseInv /\ WrittenExactly /\ ErasedExactly
      BY DEF FlashInv
  <2>2. ASSUME NEW size \in 0 .. FlashSize, NEW address \in 0 .. FlashSize,
               WriteBuffer(size, address)
        PROVE  FlashInv'
    <3>1. /\ address + size <= FlashSize /\ size % Word = 0
          /\ request' = [kind |-> "write", first |-> address, last |-> address + size]
          /\ Transfer("WriteMemory", size, address)
          /\ written' = [byte \in Address |-> <<>>]
          /\ erased' = [sector \in Sector |-> 0]
          /\ buffer' = [byte \in Address |-> <<>>]
          /\ UNCHANGED failures
        BY <2>2 DEF WriteBuffer, NothingDone
    <3>2. FlashTypeOK'
        BY <2>1, <3>1, TransferBegins, FlashSizeAssumption, MaxFailuresAssumption DEF FlashTypeOK
    <3>3. TransferInv'
        BY <2>1, <3>1, TransferBegins, WholeWords, FlashSizeAssumption, BlockSizeAssumption
           DEF TransferInv, Address
    <3>4. EraseInv' /\ WrittenExactly' /\ ErasedExactly'
        BY <2>1, <3>1, TransferBegins, FlashSizeAssumption
           DEF EraseInv, WrittenExactly, ErasedExactly, Address
    <3> QED BY <3>2, <3>3, <3>4 DEF FlashInv
  <2>3. ASSUME NEW size \in 0 .. FlashSize, NEW address \in 0 .. FlashSize,
               ReadBuffer(size, address)
        PROVE  FlashInv'
    <3>1. /\ address + size <= FlashSize
          /\ request' = [kind |-> "read", first |-> address, last |-> address + size]
          /\ Transfer("ReadMemory", size, address)
          /\ written' = [byte \in Address |-> <<>>]
          /\ erased' = [sector \in Sector |-> 0]
          /\ buffer' = [byte \in Address |-> <<>>]
          /\ UNCHANGED failures
        BY <2>3 DEF ReadBuffer, NothingDone
    <3>2. FlashTypeOK'
        BY <2>1, <3>1, TransferBegins, FlashSizeAssumption, MaxFailuresAssumption DEF FlashTypeOK
    <3>3. TransferInv' /\ EraseInv' /\ WrittenExactly' /\ ErasedExactly'
        BY <2>1, <3>1, TransferBegins, FlashSizeAssumption, BlockSizeAssumption
           DEF TransferInv, EraseInv, WrittenExactly, ErasedExactly
    <3> QED BY <3>2, <3>3 DEF FlashInv
  <2>4. ASSUME NEW begin \in 0 .. NumberOfSectors, NEW end \in 0 .. NumberOfSectors,
               EraseSectors(begin, end)
        PROVE  FlashInv'
    <3>1. /\ begin <= end
          /\ request' = [kind |-> "erase", first |-> begin, last |-> end]
          /\ Erase(begin, end)
          /\ written' = [byte \in Address |-> <<>>]
          /\ erased' = [sector \in Sector |-> 0]
          /\ buffer' = [byte \in Address |-> <<>>]
          /\ UNCHANGED failures
        BY <2>4 DEF EraseSectors, NothingDone
    <3>2. FlashTypeOK'
        BY <2>1, <3>1, EraseBegins, NumberOfSectorsAssumption, MaxFailuresAssumption DEF FlashTypeOK
    <3>3. TransferInv' /\ EraseInv' /\ WrittenExactly' /\ ErasedExactly'
        BY <2>1, <3>1, EraseBegins, NumberOfSectorsAssumption
           DEF TransferInv, EraseInv, WrittenExactly, ErasedExactly, Sector
    <3> QED BY <3>2, <3>3 DEF FlashInv
  <2>5. CASE BlockWritten
    <3>1. /\ command.kind = "WriteMemory"
          /\ written' = [address \in Address |->
                IF Covers(address) THEN Append(written[address], address - request.first) ELSE written[address]]
          /\ Transfer("WriteMemory", tail, tailAddress)
          /\ UNCHANGED <<request, failures, erased, buffer>>
        BY <2>5 DEF BlockWritten
    <3>2. /\ onDone
          /\ request.kind = "write"
          /\ request.first <= command.first
          /\ command.size \in 1 .. BlockSize
          /\ tailAddress = command.first + command.size
          /\ tailAddress + tail = request.last
          /\ request.last <= FlashSize
          /\ tail % Word = 0
          /\ \A address \in Address :
                written[address] = IF address \in request.first .. command.first - 1
                                   THEN <<address - request.first>> ELSE <<>>
        BY <2>1, <3>1 DEF TransferInv
    <3>3. /\ tail \in 0 .. FlashSize /\ tailAddress \in 0 .. FlashSize
          /\ request.first \in Nat /\ request.last \in Nat /\ command.first \in Nat
        BY <2>1 DEF FlashTypeOK
    <3>4. \A address \in Address :
             written'[address] = IF address \in request.first .. tailAddress - 1
                                 THEN <<address - request.first>> ELSE <<>>
      <4>1. SUFFICES ASSUME NEW address \in Address
                     PROVE  written'[address] = IF address \in request.first .. tailAddress - 1
                                                THEN <<address - request.first>> ELSE <<>>
          OBVIOUS
      <4>2. CASE Covers(address)
        <5>1. /\ address \in request.first .. tailAddress - 1
              /\ address \notin request.first .. command.first - 1
            BY <3>2, <3>3, <4>2, FlashSizeAssumption, BlockSizeAssumption DEF Covers, Address
        <5>2. written[address] = <<>>
            BY <3>2, <5>1
        <5>3. written'[address] = Append(<<>>, address - request.first)
            BY <3>1, <4>2, <5>2
        <5> QED BY <5>1, <5>3
      <4>3. CASE ~Covers(address)
        <5>1. address \in request.first .. tailAddress - 1 <=> address \in request.first .. command.first - 1
            BY <3>2, <3>3, <4>3, FlashSizeAssumption, BlockSizeAssumption DEF Covers, Address
        <5>2. written'[address] = written[address]
            BY <3>1, <4>3
        <5> QED BY <3>2, <5>1, <5>2
      <4> QED BY <4>2, <4>3
    <3>5. written' \in [Address -> Seq(Int)]
      <4>1. SUFFICES ASSUME NEW address \in Address
                     PROVE  (IF Covers(address) THEN Append(written[address], address - request.first)
                             ELSE written[address]) \in Seq(Int)
          BY <3>1
      <4>2. written[address] \in Seq(Int) /\ address - request.first \in Int
          BY <2>1, <3>3, FlashSizeAssumption DEF FlashTypeOK, Address
      <4> QED BY <4>2
    <3>6. FlashTypeOK'
        BY <2>1, <3>1, <3>2, <3>3, <3>5, TransferBegins, FlashSizeAssumption DEF FlashTypeOK
    <3>7. TransferInv'
      <4>1. CASE tail = 0
          BY <2>1, <3>1, <3>2, <3>3, <4>1, TransferBegins DEF TransferInv
      <4>2. CASE tail # 0
        <5>1. /\ onDone' /\ command'.kind = "WriteMemory"
              /\ command'.first = tailAddress
              /\ command'.size \in 1 .. BlockSize
              /\ tailAddress' = tailAddress + command'.size
              /\ tailAddress' + tail' = tailAddress + tail
              /\ command'.size = HeadSize(tail)
              /\ tail' = tail - HeadSize(tail)
            BY <2>1, <3>1, <3>2, <3>3, <4>2, TransferBegins
        <5>2. command'.size % Word = 0 /\ tail' % Word = 0
            BY <3>2, <3>3, <5>1, WholeWords, FlashSizeAssumption
        <5>3. request' = request /\ request.first <= tailAddress
            BY <3>1, <3>2, <3>3, BlockSizeAssumption
        <5> QED BY <3>2, <3>4, <5>1, <5>2, <5>3 DEF TransferInv
      <4> QED BY <4>1, <4>2
    <3>8. EraseInv' /\ WrittenExactly' /\ ErasedExactly'
        BY <2>1, <3>1, <3>2, <3>3, <3>4, TransferBegins, FlashSizeAssumption, SMTT(30)
           DEF EraseInv, WrittenExactly, ErasedExactly, Address
    <3> QED BY <3>6, <3>7, <3>8 DEF FlashInv
  <2>6. CASE BlockRead
    <3>1. /\ command.kind = "ReadMemory"
          /\ Transfer("ReadMemory", tail, tailAddress)
          /\ UNCHANGED <<request, failures, written, erased>>
        BY <2>6 DEF BlockRead
    <3>2. PICK intact \in BOOLEAN :
             buffer' = [byte \in Address |->
                IF intact /\ Covers(request.first + byte)
                THEN Append(buffer[byte], request.first + byte) ELSE buffer[byte]]
        BY <2>6 DEF BlockRead
    <3>3. buffer' \in [Address -> Seq(Int)]
      <4>1. SUFFICES ASSUME NEW byte \in Address
                     PROVE  (IF intact /\ Covers(request.first + byte)
                             THEN Append(buffer[byte], request.first + byte) ELSE buffer[byte]) \in Seq(Int)
          BY <3>2
      <4>2. buffer[byte] \in Seq(Int) /\ request.first + byte \in Int
          BY <2>1, FlashSizeAssumption DEF FlashTypeOK, Address
      <4> QED BY <4>2
    <3>4. /\ onDone
          /\ request.kind = "read"
          /\ request.first <= command.first
          /\ command.size \in 1 .. BlockSize
          /\ tailAddress = command.first + command.size
          /\ tailAddress + tail = request.last
          /\ request.last <= FlashSize
        BY <2>1, <3>1 DEF TransferInv
    <3>5. /\ tail \in 0 .. FlashSize /\ tailAddress \in 0 .. FlashSize
          /\ request.first \in Nat /\ request.last \in Nat /\ command.first \in Nat
        BY <2>1 DEF FlashTypeOK
    <3>6. FlashTypeOK'
        BY <2>1, <3>1, <3>3, <3>4, <3>5, TransferBegins, FlashSizeAssumption DEF FlashTypeOK
    <3>7. TransferInv'
      <4>1. CASE tail = 0
          BY <2>1, <3>1, <3>4, <3>5, <4>1, TransferBegins DEF TransferInv
      <4>2. CASE tail # 0
        <5>1. /\ onDone' /\ command'.kind = "ReadMemory"
              /\ command'.first = tailAddress
              /\ command'.size \in 1 .. BlockSize
              /\ tailAddress' = tailAddress + command'.size
              /\ tailAddress' + tail' = tailAddress + tail
            BY <2>1, <3>1, <3>4, <3>5, <4>2, TransferBegins
        <5>2. request' = request /\ request.first <= tailAddress
            BY <3>1, <3>4, <3>5, BlockSizeAssumption
        <5> QED BY <3>4, <5>1, <5>2 DEF TransferInv
      <4> QED BY <4>1, <4>2
    <3>8. EraseInv' /\ WrittenExactly' /\ ErasedExactly'
        BY <2>1, <3>1, <3>4, <3>5, TransferBegins, FlashSizeAssumption
           DEF EraseInv, WrittenExactly, ErasedExactly
    <3> QED BY <3>6, <3>7, <3>8 DEF FlashInv
  <2>7. CASE SectorErased
    <3>1. /\ command.kind = "ExtendedErase"
          /\ erased' = [erased EXCEPT ![command.first] = @ + 1]
          /\ Erase(beginIndex + 1, endIndex)
          /\ UNCHANGED <<request, failures, written, buffer>>
        BY <2>7 DEF SectorErased
    <3>2. /\ onDone
          /\ request.kind = "erase"
          /\ command.first = beginIndex
          /\ endIndex = request.last
          /\ request.first <= beginIndex /\ beginIndex < endIndex
          /\ \A sector \in Sector :
                erased[sector] = IF sector \in request.first .. beginIndex - 1 THEN 1 ELSE 0
        BY <2>1, <3>1 DEF EraseInv
    <3>3. /\ beginIndex \in 0 .. NumberOfSectors /\ endIndex \in 0 .. NumberOfSectors
          /\ request.first \in Nat
          /\ erased \in [Sector -> Nat]
        BY <2>1 DEF FlashTypeOK
    <3>4. /\ beginIndex + 1 \in 0 .. NumberOfSectors /\ beginIndex \in Sector
          /\ beginIndex + 1 <= endIndex
        BY <3>2, <3>3, NumberOfSectorsAssumption DEF Sector
    <3>5. \A sector \in Sector :
             erased'[sector] = IF sector \in request.first .. beginIndex THEN 1 ELSE 0
        BY <3>1, <3>2, <3>3, <3>4, NumberOfSectorsAssumption DEF Sector
    <3>6. FlashTypeOK'
        BY <2>1, <3>1, <3>2, <3>3, <3>4, EraseBegins DEF FlashTypeOK
    <3>7. /\ beginIndex + 1 = endIndex => ~onDone' /\ command'.kind = "none"
          /\ beginIndex + 1 # endIndex => /\ onDone'
                                          /\ command'.kind = "ExtendedErase"
                                          /\ command'.first = beginIndex + 1
                                          /\ beginIndex' = beginIndex + 1 /\ endIndex' = endIndex
          /\ request' = request
        BY <2>1, <3>1, <3>3, <3>4, EraseBegins
    <3>8. TransferInv' /\ WrittenExactly'
        BY <3>2, <3>7 DEF TransferInv, WrittenExactly
    <3>9. EraseInv'
        BY <3>2, <3>3, <3>4, <3>5, <3>7 DEF EraseInv
    <3>10. ErasedExactly'
        BY <3>2, <3>3, <3>4, <3>5, <3>7, NumberOfSectorsAssumption DEF ErasedExactly, Sector
    <3> QED BY <3>6, <3>8, <3>9, <3>10 DEF FlashInv
  <2>8. CASE AllErased
    <3>1. /\ command.kind = "ExtendedMassErase"
          /\ erased' = [sector \in Sector |-> erased[sector] + 1]
          /\ onDone' = FALSE /\ command' = NoCommand
          /\ UNCHANGED <<request, failures, written, buffer, tail, tailAddress, beginIndex, endIndex>>
        BY <2>8 DEF AllErased, Done, progress
    <3>2. FlashTypeOK'
      <4>1. erased' \in [Sector -> Nat]
          BY <2>1, <3>1 DEF FlashTypeOK
      <4>2. NoCommand \in [kind : {"none", "WriteMemory", "ReadMemory", "ExtendedErase", "ExtendedMassErase"},
                           first : Nat, size : Nat]
          BY DEF NoCommand
      <4> QED BY <2>1, <3>1, <4>1, <4>2 DEF FlashTypeOK
    <3>3. /\ request.kind = "erase"
          /\ request.first = 0 /\ request.last = NumberOfSectors
          /\ \A sector \in Sector : erased[sector] = 0
        BY <2>1, <3>1 DEF EraseInv
    <3>4. TransferInv' /\ EraseInv' /\ WrittenExactly' /\ ErasedExactly'
        BY <3>1, <3>3, NumberOfSectorsAssumption
           DEF TransferInv, EraseInv, WrittenExactly, ErasedExactly, Sector, NoCommand
    <3> QED BY <3>2, <3>4 DEF FlashInv
  <2>9. CASE CommandFails
    <3>1. /\ failures < MaxFailures /\ failures' = failures + 1
          /\ command' = NoCommand
          /\ UNCHANGED <<onDone, request, tail, tailAddress, beginIndex, endIndex, written, erased, buffer>>
        BY <2>9 DEF CommandFails, progress, effect
    <3>2. FlashTypeOK'
        BY <2>1, <3>1, MaxFailuresAssumption DEF FlashTypeOK, NoCommand
    <3>3. TransferInv' /\ EraseInv' /\ WrittenExactly' /\ ErasedExactly'
        BY <2>1, <3>1 DEF TransferInv, EraseInv, WrittenExactly, ErasedExactly, NoCommand
    <3> QED BY <3>2, <3>3 DEF FlashInv
  <2>10. CASE UNCHANGED flashVars
    <3>1. UNCHANGED <<onDone, request, tail, tailAddress, beginIndex, endIndex, command, failures,
                      written, erased, buffer>>
        BY <2>10 DEF flashVars, progress, effect
    <3> QED BY <2>1, <3>1 DEF FlashInv, FlashTypeOK, TransferInv, EraseInv, WrittenExactly, ErasedExactly
  <2> QED BY <2>2, <2>3, <2>4, <2>5, <2>6, <2>7, <2>8, <2>9, <2>10 DEF FlashNext, Callback
<1> QED BY <1>1, <1>2, PTL DEF FlashSpec

(* Every variable keeps its type. *)
THEOREM FlashTypeCorrect == FlashSpec => []FlashTypeOK
<1>1. FlashInv => FlashTypeOK
    BY DEF FlashInv
<1> QED BY <1>1, FlashInvariant, PTL

(* A write or an erase that is done was carried out exactly, by commands   *)
(* the bootloader takes.                                                   *)
THEOREM RequestsDoneExactly == FlashSpec => []DoneExactly
<1>1. FlashInv => DoneExactly
    BY DEF FlashInv, DoneExactly, BlocksLegal, TransferInv, WrittenExactly, ErasedExactly
<1> QED BY <1>1, FlashInvariant, PTL
=============================================================================

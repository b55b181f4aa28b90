----------------------------- MODULE FdCanProofs -----------------------------
(***************************************************************************)
(* What the application is told of its frames is true, and neither a frame *)
(* nor an error is forgotten on its way, for FIFOs and a queue of any size *)
(* and any number of frames.                                               *)
(***************************************************************************)
EXTENDS FdCan, SequenceTheorems, TLAPS

Has(s, e) == \E i \in DOMAIN s : s[i] = e
Once(s, e) == \A i, j \in DOMAIN s : s[i] = e /\ s[j] = e => i = j
Ascends(s) == \A i, j \in DOMAIN s : i < j => s[i] < s[j]
Precedes(s, t) == \A i \in DOMAIN s, j \in DOMAIN t : s[i] < t[j]

Entries == Errors \union {"send", "rx"}

FlagTypes ==
    /\ sending \in BOOLEAN /\ adding \in BOOLEAN /\ started \in BOOLEAN /\ notified \in BOOLEAN
    /\ previousWarning \in BOOLEAN /\ previousPassive \in BOOLEAN /\ busOff \in BOOLEAN
    /\ autoBusOffRecovery \in BOOLEAN /\ lastErrorCode \in BOOLEAN /\ protocolErrors \in BOOLEAN
    /\ recovering \in BOOLEAN /\ raced \in BOOLEAN

SendTypes ==
    /\ sent \in 0 .. MaxSends
    /\ sendCompletions \in Seq([frame : Frames, success : BOOLEAN])
    /\ txFifo \in Seq(Frames) /\ Len(txFifo) <= TxFifoSize
    /\ outcome \in [Frames -> {"none", "sent", "failed"}]

FrameTypes ==
    /\ rxFifo \in Seq(1 .. MaxFrames) /\ Len(rxFifo) <= RxFifoSize
    /\ rxQueue \in Seq(1 .. MaxFrames) /\ Len(rxQueue) <= RxQueueSize
    /\ delivered \in Seq(1 .. MaxFrames)
    /\ arrived \in 0 .. MaxFrames

EventTypes ==
    /\ pendingErrors \subseteq Errors /\ owed \subseteq Errors
    /\ level \in {"active", "warning", "passive", "off"}
    /\ flags \subseteq {"rx", "lost", "tx", "status"}
    /\ queue \in Seq(Entries)
    /\ running \in Errors \union {"nothing", "rx"}

Types == FlagTypes /\ SendTypes /\ FrameTypes /\ EventTypes

(* One frame at a time: it is under way, then its completion waits, then   *)
(* the application knows.                                                  *)
SendInv ==
    /\ onSendComplete = sent
    /\ \A frame \in Frames : frame > sent => outcome[frame] = "none"
    /\ sending \/ adding => sent > 0
    /\ sending => outcome[sent] = "none" /\ sendCompletions = <<>>
    /\ sendCompletions # <<>> =>
        /\ sent > 0 /\ outcome[sent] = "none"
        /\ \E success \in BOOLEAN : sendCompletions = <<[frame |-> sent, success |-> success]>>
    /\ Has(queue, "send") => sendCompletions # <<>>
    /\ Once(queue, "send")

(* Until bus-off comes amid SendData, the FIFO holds the frame that is     *)
(* under way or nothing, and the interrupt that it was sent is its own.    *)
OwnInv ==
    ~raced =>
        /\ txFifo # <<>> => txFifo = <<sent>> /\ sending /\ ~adding
        /\ "tx" \in flags => txFifo = <<>> /\ sending /\ ~adding /\ sent \in transmitted
        /\ adding => sending
        /\ sending /\ "tx" \notin flags => sent \notin transmitted
        /\ \A success \in BOOLEAN :
             sendCompletions = <<[frame |-> sent,
             success |-> success]>> => (success <=> sent \in transmitted)
        /\ \A frame \in Frames : /\ outcome[frame] = "sent" => frame \in transmitted
                                 /\ outcome[frame] = "failed" => frame \notin transmitted
        /\ \A frame \in transmitted : frame \in 1 .. sent

(* Where the frames that arrived are. *)
FramesInv ==
    /\ Ascends(delivered) /\ Ascends(rxQueue) /\ Ascends(rxFifo)
    /\ Precedes(delivered, rxQueue) /\ Precedes(delivered, rxFifo) /\ Precedes(rxQueue, rxFifo)
    /\ \A frame \in 1 .. MaxFrames :
         frame <= arrived /\ frame \notin lost <=>
            Has(delivered, frame) \/ Has(rxQueue, frame) \/ Has(rxFifo, frame)
    /\ \A frame \in lost : frame \in 1 .. arrived
    /\ rxFifo # <<>> => "rx" \in flags
    /\ rxQueue # <<>> => running = "rx" \/ notified
    /\ notified => Has(queue, "rx")

(* An error that waits is in the dispatcher's queue, and a bus-off that    *)
(* was not handled yet does not end.                                       *)
ErrorsInv ==
    /\ \A error \in pendingErrors : Has(queue, error)
    /\ recovering => busOff /\ level = "off"
    /\ \A error \in owed :
        \/ Has(queue, error)
        \/ error = "messageLost" /\ "lost" \in flags
        \/ error = "busOff" /\ "status" \in flags /\ level = "off" /\ ~busOff

Inv == Types /\ SendInv /\ OwnInv /\ FramesInv /\ ErrorsInv

-----------------------------------------------------------------------------
(* Sequences. *)

(* What a sequence has, by its indices. *)
LEMMA HasIndex ==
    ASSUME NEW S, NEW s \in Seq(S), NEW e
    PROVE  Has(s, e) <=> \E i \in 1 .. Len(s) : s[i] = e
<1>1. DOMAIN s = 1 .. Len(s)
    BY LenProperties
<1> QED BY <1>1 DEF Has

(* What a sequence has is of its kind. *)
LEMMA HasInRange ==
    ASSUME NEW S, NEW s \in Seq(S), NEW e, Has(s, e)
    PROVE  e \in S
<1>1. s \in [1 .. Len(s) -> S] /\ DOMAIN s = 1 .. Len(s)
    BY LenProperties
<1> QED BY <1>1 DEF Has

(* One sequence after another has what either has. *)
LEMMA HasConcat ==
    ASSUME NEW S, NEW s \in Seq(S), NEW t \in Seq(S), NEW e
    PROVE  Has(s \o t, e) <=> Has(s, e) \/ Has(t, e)
<1>1. /\ s \o t \in Seq(S) /\ Len(s) \in Nat /\ Len(t) \in Nat
      /\ Len(s \o t) = Len(s) + Len(t)
      /\ \A i \in 1 .. Len(s) + Len(t) : (s \o t)[i] = IF i <= Len(s) THEN s[i] ELSE t[i - Len(s)]
    BY ConcatProperties, LenProperties
<1>2. /\ Has(s \o t, e) <=> \E i \in 1 .. Len(s) + Len(t) : (s \o t)[i] = e
      /\ Has(s, e) <=> \E i \in 1 .. Len(s) : s[i] = e
      /\ Has(t, e) <=> \E i \in 1 .. Len(t) : t[i] = e
    BY <1>1, HasIndex
<1>3. ASSUME NEW i \in 1 .. Len(s) + Len(t), (s \o t)[i] = e
      PROVE  Has(s, e) \/ Has(t, e)
  <2>1. CASE i <= Len(s)
      BY <1>1, <1>2, <1>3, <2>1
  <2>2. CASE ~(i <= Len(s))
    <3>1. i - Len(s) \in 1 .. Len(t)
        BY <1>1, <2>2
    <3> QED BY <1>1, <1>2, <1>3, <2>2, <3>1
  <2> QED BY <2>1, <2>2
<1>4. ASSUME NEW i \in 1 .. Len(s), s[i] = e
      PROVE  Has(s \o t, e)
  <2>1. i \in 1 .. Len(s) + Len(t) /\ i <= Len(s)
      BY <1>1
  <2> QED BY <1>1, <1>2, <1>4, <2>1
<1>5. ASSUME NEW i \in 1 .. Len(t), t[i] = e
      PROVE  Has(s \o t, e)
  <2>1. /\ i + Len(s) \in 1 .. Len(s) + Len(t) /\ ~(i + Len(s) <= Len(s))
        /\ i + Len(s) - Len(s) = i
      BY <1>1
  <2> QED BY <1>1, <1>2, <1>5, <2>1
<1> QED BY <1>2, <1>3, <1>4, <1>5

(* What a sequence has is its head or in its tail. *)
LEMMA HasTail ==
    ASSUME NEW S, NEW s \in Seq(S), s # <<>>, NEW e
    PROVE  Has(s, e) <=> Head(s) = e \/ Has(Tail(s), e)
<1>1. /\ Len(s) \in Nat /\ Len(s) > 0 /\ Head(s) = s[1]
      /\ Tail(s) \in Seq(S) /\ Len(Tail(s)) = Len(s) - 1
      /\ \A i \in 1 .. Len(s) - 1 : Tail(s)[i] = s[i + 1]
    BY HeadTailProperties, LenProperties
<1>2. /\ Has(s, e) <=> \E i \in 1 .. Len(s) : s[i] = e
      /\ Has(Tail(s), e) <=> \E i \in 1 .. Len(s) - 1 : Tail(s)[i] = e
  <2>1. Has(s, e) <=> \E i \in 1 .. Len(s) : s[i] = e
      BY HasIndex
  <2>2. Has(Tail(s), e) <=> \E i \in 1 .. Len(Tail(s)) : Tail(s)[i] = e
      BY <1>1, HasIndex
  <2> QED BY <1>1, <2>1, <2>2
<1>3. ASSUME NEW i \in 1 .. Len(s), s[i] = e
      PROVE  Head(s) = e \/ Has(Tail(s), e)
  <2>1. CASE i = 1
      BY <1>1, <1>3, <2>1
  <2>2. CASE i # 1
    <3>1. i - 1 \in 1 .. Len(s) - 1 /\ i - 1 + 1 = i
        BY <1>1, <2>2
    <3> QED BY <1>1, <1>2, <1>3, <3>1
  <2> QED BY <2>1, <2>2
<1>4. Head(s) = e => Has(s, e)
    BY <1>1, <1>2
<1>5. ASSUME NEW i \in 1 .. Len(s) - 1, Tail(s)[i] = e
      PROVE  Has(s, e)
  <2>1. i + 1 \in 1 .. Len(s)
      BY <1>1
  <2> QED BY <1>1, <1>2, <1>5, <2>1
<1> QED BY <1>2, <1>3, <1>4, <1>5

(* A sequence with one more at its end. *)
LEMMA HasAppend ==
    ASSUME NEW S, NEW s \in Seq(S), NEW last \in S, NEW e
    PROVE  Has(Append(s, last), e) <=> Has(s, e) \/ e = last
<1>1. Append(s, last) = s \o <<last>> /\ <<last>> \in Seq(S)
    BY AppendIsConcat
<1>2. Has(<<last>>, e) <=> e = last
    BY DEF Has
<1>3. Has(s \o <<last>>, e) <=> Has(s, e) \/ Has(<<last>>, e)
    BY <1>1, HasConcat
<1> QED BY <1>1, <1>2, <1>3

(* The empty sequence. *)
LEMMA HasNothing == \A e : ~Has(<<>>, e)
BY DEF Has

(* A sequence of one. *)
LEMMA HasOne == \A one, e : Has(<<one>>, e) <=> e = one
BY DEF Has

(* There is still one when what has none is put before or after. *)
LEMMA OnceConcat ==
    ASSUME NEW S, NEW s \in Seq(S), NEW t \in Seq(S), NEW e,
           Once(s, e), Once(t, e), ~Has(s, e) \/ ~Has(t, e)
    PROVE  Once(s \o t, e)
<1>1. /\ s \o t \in Seq(S) /\ Len(s) \in Nat /\ Len(t) \in Nat
      /\ DOMAIN (s \o t) = 1 .. Len(s) + Len(t)
      /\ DOMAIN s = 1 .. Len(s) /\ DOMAIN t = 1 .. Len(t)
      /\ \A i \in 1 .. Len(s) + Len(t) : (s \o t)[i] = IF i <= Len(s) THEN s[i] ELSE t[i - Len(s)]
    BY ConcatProperties, LenProperties
<1>2. SUFFICES ASSUME NEW i \in 1 .. Len(s) + Len(t), NEW j \in 1 .. Len(s) + Len(t),
                      (s \o t)[i] = e, (s \o t)[j] = e
               PROVE  i = j
    BY <1>1 DEF Once
<1>3. /\ i <= Len(s) => i \in 1 .. Len(s) /\ s[i] = e
      /\ ~(i <= Len(s)) => i - Len(s) \in 1 .. Len(t) /\ t[i - Len(s)] = e
    BY <1>1, <1>2
<1>4. /\ j <= Len(s) => j \in 1 .. Len(s) /\ s[j] = e
      /\ ~(j <= Len(s)) => j - Len(s) \in 1 .. Len(t) /\ t[j - Len(s)] = e
    BY <1>1, <1>2
<1>5. CASE i <= Len(s) /\ j <= Len(s)
    BY <1>1, <1>3, <1>4, <1>5 DEF Once
<1>6. CASE ~(i <= Len(s)) /\ ~(j <= Len(s))
  <2>1. i - Len(s) = j - Len(s)
      BY <1>1, <1>3, <1>4, <1>6 DEF Once
  <2> QED BY <1>1, <2>1
<1>7. CASE (i <= Len(s) /\ ~(j <= Len(s))) \/ (~(i <= Len(s)) /\ j <= Len(s))
  <2>1. Has(s, e) /\ Has(t, e)
      BY <1>1, <1>3, <1>4, <1>7 DEF Has
  <2> QED BY <2>1
<1> QED BY <1>5, <1>6, <1>7

(* There is still one in the tail, and none when it was the head. *)
LEMMA OnceTail ==
    ASSUME NEW S, NEW s \in Seq(S), s # <<>>, NEW e, Once(s, e)
    PROVE  Once(Tail(s), e) /\ (Head(s) = e => ~Has(Tail(s), e))
<1>1. /\ Len(s) \in Nat /\ Len(s) > 0 /\ Head(s) = s[1]
      /\ DOMAIN s = 1 .. Len(s) /\ DOMAIN Tail(s) = 1 .. Len(s) - 1
      /\ \A i \in 1 .. Len(s) - 1 : i + 1 \in 1 .. Len(s) /\ i + 1 # 1 /\ Tail(s)[i] = s[i + 1]
    BY HeadTailProperties, LenProperties
<1>2. ASSUME NEW i \in 1 .. Len(s) - 1, NEW j \in 1 .. Len(s) - 1, Tail(s)[i] = e, Tail(s)[j] = e
      PROVE  i = j
  <2>1. i + 1 = j + 1
      BY <1>1, <1>2 DEF Once
  <2> QED BY <2>1
<1>3. ASSUME NEW i \in 1 .. Len(s) - 1, Tail(s)[i] = e, Head(s) = e
      PROVE  FALSE
  <2>1. i + 1 = 1
      BY <1>1, <1>3 DEF Once
  <2> QED BY <1>1, <2>1
<1> QED BY <1>1, <1>2, <1>3 DEF Once, Has

(* One sequence precedes another when all it has is less. *)
LEMMA PrecedesIs ==
    \A s, t : Precedes(s, t) <=> \A a, b : Has(s, a) /\ Has(t, b) => a < b
BY DEF Precedes, Has

(* An ascending sequence and another it precedes ascend together. *)
LEMMA AscendsConcat ==
    ASSUME NEW S, NEW s \in Seq(S), NEW t \in Seq(S), Ascends(s), Ascends(t), Precedes(s, t)
    PROVE  Ascends(s \o t)
<1>1. /\ Len(s) \in Nat /\ Len(t) \in Nat
      /\ DOMAIN (s \o t) = 1 .. Len(s) + Len(t)
      /\ DOMAIN s = 1 .. Len(s) /\ DOMAIN t = 1 .. Len(t)
      /\ \A i \in 1 .. Len(s) + Len(t) : (s \o t)[i] = IF i <= Len(s) THEN s[i] ELSE t[i - Len(s)]
    BY ConcatProperties, LenProperties
<1>2. SUFFICES ASSUME NEW i \in 1 .. Len(s) + Len(t), NEW j \in 1 .. Len(s) + Len(t), i < j
               PROVE  (s \o t)[i] < (s \o t)[j]
    BY <1>1 DEF Ascends
<1>3. CASE j <= Len(s)
  <2>1. i \in 1 .. Len(s) /\ j \in 1 .. Len(s) /\ i <= Len(s)
      BY <1>1, <1>2, <1>3
  <2> QED BY <1>1, <1>2, <1>3, <2>1 DEF Ascends
<1>4. CASE i <= Len(s) /\ ~(j <= Len(s))
  <2>1. i \in 1 .. Len(s) /\ j - Len(s) \in 1 .. Len(t)
      BY <1>1, <1>2, <1>4
  <2> QED BY <1>1, <1>4, <2>1 DEF Precedes
<1>5. CASE ~(i <= Len(s)) /\ ~(j <= Len(s))
  <2>1. i - Len(s) \in 1 .. Len(t) /\ j - Len(s) \in 1 .. Len(t) /\ i - Len(s) < j - Len(s)
      BY <1>1, <1>2, <1>5
  <2> QED BY <1>1, <1>5, <2>1 DEF Ascends
<1> QED BY <1>1, <1>2, <1>3, <1>4, <1>5

(* The head of an ascending sequence is less than all in its tail. *)
LEMMA AscendsTail ==
    ASSUME NEW S, NEW s \in Seq(S), s # <<>>, Ascends(s)
    PROVE  Ascends(Tail(s)) /\ \A e : Has(Tail(s), e) => Head(s) < e
<1>1. /\ Len(s) \in Nat /\ Len(s) > 0 /\ Head(s) = s[1] /\ 1 \in 1 .. Len(s)
      /\ DOMAIN s = 1 .. Len(s) /\ DOMAIN Tail(s) = 1 .. Len(s) - 1
      /\ \A i \in 1 .. Len(s) - 1 : i + 1 \in 1 .. Len(s) /\ 1 < i + 1 /\ Tail(s)[i] = s[i + 1]
    BY HeadTailProperties, LenProperties
<1>2. ASSUME NEW i \in 1 .. Len(s) - 1, NEW j \in 1 .. Len(s) - 1, i < j
      PROVE  Tail(s)[i] < Tail(s)[j]
  <2>1. i + 1 < j + 1
      BY <1>2
  <2> QED BY <1>1, <2>1 DEF Ascends
<1>3. ASSUME NEW i \in 1 .. Len(s) - 1
      PROVE  Head(s) < Tail(s)[i]
    BY <1>1 DEF Ascends
<1> QED BY <1>1, <1>2, <1>3 DEF Ascends, Has

-----------------------------------------------------------------------------
(* The operators of the interrupt. *)

(* ScheduleError's entries are the errors that did not wait already. *)
LEMMA ScheduledIs ==
    ASSUME NEW errors \in SUBSET Errors
    PROVE  /\ Scheduled(errors) \in Seq(Entries)
           /\ \A e : Has(Scheduled(errors), e) <=> e \in errors \ pendingErrors
           /\ Once(Scheduled(errors), "send")
<1> DEFINE Entry(error) == IF error \in errors \ pendingErrors THEN <<error>> ELSE <<>>
<1>1. \A error \in Errors :
        /\ Entry(error) \in Seq(Entries)
        /\ \A e : Has(Entry(error), e) <=> e = error /\ error \in errors \ pendingErrors
    BY HasNothing, HasOne DEF Entries
<1>2. Scheduled(errors) = Entry("messageLost") \o Entry("protocol")
            \o Entry("errorWarning") \o Entry("errorPassive") \o Entry("busOff")
    BY DEF Scheduled, InOrder
<1>3. Errors = {"messageLost", "protocol", "errorWarning", "errorPassive", "busOff"}
    BY DEF Errors
<1> HIDE DEF Entry
<1> DEFINE s2 == Entry("messageLost") \o Entry("protocol")
           s3 == s2 \o Entry("errorWarning")
           s4 == s3 \o Entry("errorPassive")
<1>4. s2 \in Seq(Entries) /\ \A e : Has(s2, e) <=> Has(Entry("messageLost"),
      e) \/ Has(Entry("protocol"), e)
    BY <1>1, <1>3, HasConcat, ConcatProperties
<1> HIDE DEF s2
<1>5. s3 \in Seq(Entries) /\ \A e : Has(s3, e) <=> Has(s2, e) \/ Has(Entry("errorWarning"), e)
    BY <1>1, <1>3, <1>4, HasConcat, ConcatProperties
<1> HIDE DEF s3
<1>6. s4 \in Seq(Entries) /\ \A e : Has(s4, e) <=> Has(s3, e) \/ Has(Entry("errorPassive"), e)
    BY <1>1, <1>3, <1>5, HasConcat, ConcatProperties
<1> HIDE DEF s4
<1>7. Scheduled(errors) = s4 \o Entry("busOff")
    BY <1>2 DEF s2, s3, s4
<1>8. /\ Scheduled(errors) \in Seq(Entries)
      /\ \A e : Has(Scheduled(errors), e) <=> Has(s4, e) \/ Has(Entry("busOff"), e)
    BY <1>1, <1>3, <1>6, <1>7, HasConcat, ConcatProperties
<1>9. \A e : Has(Scheduled(errors), e) <=> e \in errors \ pendingErrors
    BY <1>1, <1>3, <1>4, <1>5, <1>6, <1>8
<1>10. ~Has(Scheduled(errors), "send")
    BY <1>3, <1>9
<1> QED BY <1>8, <1>9, <1>10 DEF Has, Once

(* Accepted is the beginning of the frames, as many as there is room for. *)
LEMMA AcceptedIs ==
    ASSUME FrameTypes
    PROVE  /\ Accepted \in Seq(1 .. MaxFrames)
           /\ Len(Accepted) <= Len(rxFifo)
           /\ Len(Accepted) + Len(rxQueue) <= RxQueueSize
           /\ \A i \in 1 .. Len(Accepted) : Accepted[i] = rxFifo[i]
           /\ Dropped = {rxFifo[i] : i \in Len(Accepted) + 1 .. Len(rxFifo)}
<1>1. /\ Len(rxFifo) \in Nat /\ Len(rxQueue) \in Nat /\ RxQueueSize \in Nat
      /\ rxFifo \in [1 .. Len(rxFifo) -> 1 .. MaxFrames]
    BY SizesAssumption, LenProperties DEF FrameTypes
<1> DEFINE room == RxQueueSize - Len(rxQueue)
<1>2. room \in Nat
    BY <1>1 DEF FrameTypes
<1> HIDE DEF room
<1>3. CASE Len(rxFifo) < room
  <2>1. Accepted = rxFifo
      BY <1>3 DEF Accepted, room
  <2> QED BY <1>1, <1>2, <1>3, <2>1 DEF FrameTypes, Dropped, room
<1>4. CASE ~(Len(rxFifo) < room)
  <2>1. Accepted = SubSeq(rxFifo, 1, room)
      BY <1>4 DEF Accepted, room
  <2>2. \A i \in 1 .. room : rxFifo[i] \in 1 .. MaxFrames
      BY <1>1, <1>2, <1>4
  <2>3. /\ Accepted \in Seq(1 .. MaxFrames)
        /\ Len(Accepted) = room
        /\ \A i \in 1 .. room : Accepted[i] = rxFifo[i]
    <3>1. /\ SubSeq(rxFifo, 1, room) \in Seq(1 .. MaxFrames)
          /\ Len(SubSeq(rxFifo, 1, room)) = IF 1 <= room THEN room - 1 + 1 ELSE 0
          /\ \A i \in 1 .. room - 1 + 1 : SubSeq(rxFifo, 1, room)[i] = rxFifo[1 + i - 1]
        BY <1>2, <2>2, SubSeqProperties
    <3>2. \A i \in 1 .. room : i \in 1 .. room - 1 + 1 /\ 1 + i - 1 = i
        BY <1>2
    <3> QED BY <1>2, <2>1, <3>1, <3>2
  <2> QED BY <1>1, <1>2, <1>4, <2>3 DEF Dropped, room
<1> QED BY <1>3, <1>4

(* Only bus-off has no worse state, and none is as good as active. *)
LEMMA AboveIs ==
    /\ \A one : Above(one) \subseteq {"warning", "passive", "off"}
    /\ Above("off") = {}
BY DEF Above, Levels

(* What the interrupt puts in the dispatcher's queue. *)
LEMMA InvokeQueues ==
    ASSUME EventTypes, FrameTypes, Invoke
    PROVE  /\ queue' \in Seq(Entries)
           /\ \A e : Has(queue, e) => Has(queue', e)
           /\ Has(queue', "send") => Has(queue, "send") \/ Completed # <<>>
           /\ Once(queue, "send") /\ (Has(queue, "send") => Completed = <<>>) => Once(queue',
              "send")
           /\ \A e \in RxErrors \union StatusErrors : e \in pendingErrors \/ Has(queue', e)
           /\ "rx" \in flags /\ Accepted # <<>> /\ ~notified => Has(queue', "rx")
<1> DEFINE send == IF Completed = <<>> THEN <<>> ELSE <<"send">>
           rx == Scheduled(RxErrors)
           st == Scheduled(StatusErrors)
           before == Notification \o rx
           after == IF "tx" \in flags THEN send \o st ELSE st \o send
<1>1. queue' = queue \o before \o after
    BY DEF Invoke
<1>2. RxErrors \in SUBSET Errors /\ StatusErrors \in SUBSET Errors
    BY DEF RxErrors, StatusErrors, Errors
<1>3. /\ Notification \in Seq(Entries)
      /\ \A e : Has(Notification, e) => e = "rx"
      /\ "rx" \in flags /\ Accepted # <<>> /\ ~notified => Has(Notification, "rx")
  <2>1. <<"rx">> \in Seq(Entries) /\ <<>> \in Seq(Entries)
      BY DEF Entries
  <2>2. CASE Notification = <<"rx">>
      BY <2>1, <2>2, HasOne
  <2>3. CASE Notification = <<>> /\ ~("rx" \in flags /\ Accepted # <<>> /\ ~notified)
      BY <2>1, <2>3, HasNothing
  <2> QED BY <2>2, <2>3 DEF Notification
<1>4. /\ rx \in Seq(Entries)
      /\ \A e : Has(rx, e) <=> e \in RxErrors \ pendingErrors
    BY <1>2, ScheduledIs
<1>5. /\ st \in Seq(Entries)
      /\ \A e : Has(st, e) <=> e \in StatusErrors \ pendingErrors
    BY <1>2, ScheduledIs
<1>6. /\ send \in Seq(Entries)
      /\ \A e : Has(send, e) <=> e = "send" /\ Completed # <<>>
      /\ Once(send, "send")
    BY HasNothing, HasOne DEF Entries, Once
<1>7. "send" \notin Errors /\ "rx" # "send"
    BY DEF Errors
<1> HIDE DEF send, rx, st
<1>8. /\ before \in Seq(Entries)
      /\ \A e : Has(before, e) <=> Has(Notification, e) \/ Has(rx, e)
    BY <1>3, <1>4, HasConcat, ConcatProperties
<1>9. ~Has(before, "send")
    BY <1>2, <1>3, <1>4, <1>7, <1>8
<1>10. /\ after \in Seq(Entries)
       /\ \A e : Has(after, e) <=> Has(send, e) \/ Has(st, e)
    BY <1>5, <1>6, HasConcat, ConcatProperties
<1>11. Once(after, "send")
  <2>1. ~Has(st, "send") /\ Once(st, "send")
      BY <1>2, <1>5, <1>7 DEF Has, Once
  <2>2. Once(send \o st, "send") /\ Once(st \o send, "send")
      BY <1>5, <1>6, <2>1, OnceConcat
  <2> QED BY <2>2
<1> HIDE DEF before, after
<1>12. queue \in Seq(Entries)
    BY DEF EventTypes
<1> DEFINE first == queue \o before
<1>13. /\ first \in Seq(Entries)
       /\ \A e : Has(first, e) <=> Has(queue, e) \/ Has(before, e)
    BY <1>8, <1>12, HasConcat, ConcatProperties
<1>14. Once(queue, "send") => Once(first, "send")
  <2>1. Once(before, "send")
      BY <1>9 DEF Has, Once
  <2> QED BY <1>8, <1>9, <1>12, <2>1, OnceConcat
<1> HIDE DEF first
<1>15. queue' = first \o after
    BY <1>1 DEF first
<1>16. /\ queue' \in Seq(Entries)
       /\ \A e : Has(queue', e) <=> Has(first, e) \/ Has(after, e)
    BY <1>10, <1>13, <1>15, HasConcat, ConcatProperties
<1>17. Has(queue', "send") => Has(queue, "send") \/ Completed # <<>>
    BY <1>2, <1>5, <1>6, <1>7, <1>9, <1>10, <1>13, <1>16
<1>18. Once(queue, "send") /\ (Has(queue, "send") => Completed = <<>>) => Once(queue', "send")
  <2>1. SUFFICES ASSUME Once(queue, "send"), Has(queue, "send") => Completed = <<>>
                 PROVE  Once(queue', "send")
      OBVIOUS
  <2>2. ~Has(first, "send") \/ ~Has(after, "send")
      BY <1>2, <1>5, <1>6, <1>7, <1>9, <1>10, <1>13, <2>1
  <2> QED BY <1>10, <1>11, <1>13, <1>14, <1>15, <2>1, <2>2, OnceConcat
<1>19. \A e \in RxErrors \union StatusErrors : e \in pendingErrors \/ Has(queue', e)
    BY <1>4, <1>5, <1>8, <1>10, <1>13, <1>16
<1>20. "rx" \in flags /\ Accepted # <<>> /\ ~notified => Has(queue', "rx")
    BY <1>3, <1>8, <1>13, <1>16
<1> QED BY <1>13, <1>16, <1>17, <1>18, <1>19, <1>20

(* A bus-off that the interrupt has not handled yet.                       *)
BusOffNow == "status" \in flags /\ level = "off" /\ ~busOff

(* What the interrupt does with the peripheral's state and its FIFO. *)
LEMMA InvokeStatus ==
    ASSUME FlagTypes, EventTypes, Invoke
    PROVE  /\ BusOffNow => /\ txFifo' = <<>>
                           /\ raced' = (raced \/ adding)
                           /\ busOff' = TRUE /\ protocolErrors' = FALSE
                           /\ started' \in BOOLEAN /\ recovering' \in BOOLEAN
           /\ ~BusOffNow => UNCHANGED <<txFifo, started, recovering, raced>>
           /\ ~BusOffNow /\ "status" \in flags =>
                /\ busOff' = (busOff /\ level = "off")
                /\ protocolErrors' = (protocolErrors \/ (busOff /\ level # "off"))
           /\ "status" \in flags => /\ lastErrorCode' = FALSE
                                    /\ previousWarning' = Warning /\ previousPassive' = Passive
           /\ "status" \notin flags =>
                UNCHANGED <<previousWarning, previousPassive, busOff, lastErrorCode,
                            protocolErrors>>
           /\ UNCHANGED autoBusOffRecovery
           /\ "busOff" \in StatusErrors <=> BusOffNow
<1>1. HandleStatusInterrupt
    BY DEF Invoke
<1>2. "busOff" \in StatusErrors <=> BusOffNow
    BY DEF StatusErrors, BusOffNow
<1>3. CASE BusOffNow
  <2>1. HandleBusOff
      BY <1>1, <1>3 DEF HandleStatusInterrupt, BusOffNow
  <2>2. /\ txFifo' = <<>> /\ raced' = (raced \/ adding)
        /\ busOff' = TRUE /\ protocolErrors' = FALSE
        /\ recovering' = (autoBusOffRecovery /\ started')
      BY <2>1 DEF HandleBusOff, AbortTxRequest
  <2>3. started' \in BOOLEAN
      BY <2>1 DEF HandleBusOff, FlagTypes
  <2>4. /\ lastErrorCode' = FALSE /\ previousWarning' = Warning /\ previousPassive' = Passive
        /\ UNCHANGED autoBusOffRecovery
      BY <1>1, <1>3 DEF HandleStatusInterrupt, BusOffNow
  <2> QED BY <1>2, <1>3, <2>2, <2>3, <2>4 DEF BusOffNow
<1>4. CASE ~BusOffNow
    BY <1>1, <1>2, <1>4 DEF HandleStatusInterrupt, BusOffNow, status
<1> QED BY <1>3, <1>4

(* The frames in the FIFO are accepted or dropped, and none is both. *)
LEMMA AcceptedOrDropped ==
    ASSUME FrameTypes, Ascends(rxFifo)
    PROVE  /\ Ascends(Accepted)
           /\ \A frame : Has(rxFifo, frame) <=> Has(Accepted, frame) \/ frame \in Dropped
           /\ \A frame : ~(Has(Accepted, frame) /\ frame \in Dropped)
<1> DEFINE taken == Len(Accepted)
<1>1. /\ taken \in Nat /\ Len(rxFifo) \in Nat /\ taken <= Len(rxFifo)
      /\ DOMAIN Accepted = 1 .. taken /\ DOMAIN rxFifo = 1 .. Len(rxFifo)
      /\ \A i \in 1 .. Len(rxFifo) : rxFifo[i] \in 1 .. MaxFrames
    BY AcceptedIs, LenProperties DEF FrameTypes
<1>2. /\ \A i \in 1 .. taken : Accepted[i] = rxFifo[i]
      /\ Dropped = {rxFifo[i] : i \in taken + 1 .. Len(rxFifo)}
    BY AcceptedIs
<1> HIDE DEF taken
<1>3. \A i \in 1 .. taken : i \in 1 .. Len(rxFifo)
    BY <1>1
<1>4. Ascends(Accepted)
    BY <1>1, <1>2, <1>3 DEF Ascends
<1>5. ASSUME NEW frame, Has(rxFifo, frame)
      PROVE  Has(Accepted, frame) \/ frame \in Dropped
  <2>1. PICK i \in 1 .. Len(rxFifo) : rxFifo[i] = frame
      BY <1>1, <1>5 DEF Has
  <2>2. i \in 1 .. taken \/ i \in taken + 1 .. Len(rxFifo)
      BY <1>1
  <2> QED BY <1>1, <1>2, <2>1, <2>2 DEF Has
<1>6. ASSUME NEW frame, Has(Accepted, frame) \/ frame \in Dropped
      PROVE  Has(rxFifo, frame)
  <2>1. CASE Has(Accepted, frame)
      BY <1>1, <1>2, <1>3, <2>1 DEF Has
  <2>2. CASE frame \in Dropped
    <3>1. PICK i \in taken + 1 .. Len(rxFifo) : rxFifo[i] = frame
        BY <1>2, <2>2
    <3>2. i \in 1 .. Len(rxFifo)
        BY <1>1
    <3> QED BY <1>1, <3>1, <3>2 DEF Has
  <2> QED BY <1>6, <2>1, <2>2
<1>7. ASSUME NEW frame, Has(Accepted, frame), frame \in Dropped
      PROVE  FALSE
  <2>1. PICK i \in 1 .. taken : rxFifo[i] = frame
      BY <1>1, <1>2, <1>7 DEF Has
  <2>2. PICK j \in taken + 1 .. Len(rxFifo) : rxFifo[j] = frame
      BY <1>2, <1>7
  <2>3. i \in 1 .. Len(rxFifo) /\ j \in 1 .. Len(rxFifo) /\ i < j
      BY <1>1
  <2>4. rxFifo[i] < rxFifo[j] /\ rxFifo[i] \in Int
      BY <1>1, <2>3 DEF Ascends
  <2> QED BY <2>1, <2>2, <2>4
<1> QED BY <1>4, <1>5, <1>6, <1>7

(* The dispatcher takes the first entry of its queue. *)
LEMMA TakeIs ==
    ASSUME NEW entries, EventTypes, Take(entries)
    PROVE  /\ Head(queue) \in entries
           /\ \A e : Has(queue, e) <=> Head(queue) = e \/ Has(queue', e)
           /\ Once(queue, "send") => Once(queue', "send") /\ (Head(queue) = "send" => ~Has(queue',
              "send"))
<1>1. queue \in Seq(Entries) /\ queue # <<>> /\ Head(queue) \in entries /\ queue' = Tail(queue)
    BY DEF EventTypes, Take
<1>2. \A e : Has(queue, e) <=> Head(queue) = e \/ Has(Tail(queue), e)
    BY <1>1, HasTail
<1>3. Once(queue, "send") =>
        Once(Tail(queue), "send") /\ (Head(queue) = "send" => ~Has(Tail(queue), "send"))
    BY <1>1, OnceTail
<1> QED BY <1>1, <1>2, <1>3

(* SendData leaves a frame in the FIFO or completes it at once. *)
LEMMA AddIs ==
    ASSUME Types, SendInv, AddMessageToTxFifoQ
    PROVE  \/ /\ txFifo' = Append(txFifo, sent)
              /\ UNCHANGED <<sending, sendCompletions, queue>>
           \/ /\ sending /\ ~sending' /\ UNCHANGED txFifo
              /\ sendCompletions' = <<[frame |-> sent, success |-> FALSE]>>
              /\ queue' = queue \o <<"send">>
           \/ /\ ~sending /\ ~sending' /\ UNCHANGED <<txFifo, sendCompletions, queue>>
<1>1. sendCompletions \in Seq([frame : Frames, success : BOOLEAN]) /\ queue \in Seq(Entries)
    BY DEF Types, SendTypes, EventTypes
<1>2. sendCompletions \o <<>> = sendCompletions /\ queue \o <<>> = queue
    BY <1>1, ConcatEmptySeq
<1>3. CASE started /\ Len(txFifo) < TxFifoSize
    BY <1>3 DEF AddMessageToTxFifoQ
<1>4. CASE ~(started /\ Len(txFifo) < TxFifoSize)
  <2>1. CASE sending
    <3>1. sendCompletions' = <<>> \o <<[frame |-> sent, success |-> FALSE]>>
        BY <1>4, <2>1 DEF AddMessageToTxFifoQ, SendInv, Completion
    <3>2. <<>> \o <<[frame |-> sent, success |-> FALSE]>> = <<[frame |-> sent, success |-> FALSE]>>
        OBVIOUS
    <3> QED BY <1>4, <2>1, <3>1, <3>2 DEF AddMessageToTxFifoQ
  <2>2. CASE ~sending
      BY <1>2, <1>4, <2>2 DEF AddMessageToTxFifoQ
  <2> QED BY <2>1, <2>2
<1> QED BY <1>3, <1>4

(* What the interrupt makes of the frame under way. *)
LEMMA CompletedIs ==
    ASSUME Types, SendInv, Invoke
    PROVE  \/ /\ sending /\ ~sending' /\ Completed # <<>>
              /\ "tx" \in flags
              /\ sendCompletions' = <<[frame |-> sent, success |-> TRUE]>>
           \/ /\ sending /\ ~sending' /\ Completed # <<>>
              /\ "tx" \notin flags /\ BusOffNow
              /\ sendCompletions' = <<[frame |-> sent, success |-> FALSE]>>
           \/ /\ Completed = <<>> /\ UNCHANGED <<sending, sendCompletions>>
              /\ sending => "tx" \notin flags /\ ~BusOffNow
<1>1. sendCompletions \in Seq([frame : Frames, success : BOOLEAN])
    BY DEF Types, SendTypes
<1>2. sendCompletions \o <<>> = sendCompletions
    BY <1>1, ConcatEmptySeq
<1>3. "busOff" \in StatusErrors <=> BusOffNow
    BY InvokeStatus DEF Types
<1>4. sending' = (sending /\ Completed = <<>>) /\ sendCompletions' = sendCompletions \o Completed
    BY DEF Invoke, StillSending
<1>5. \A success : <<Completion(success)>> # <<>> /\ Completion(success) = [frame |-> sent,
      success |-> success]
    BY DEF Completion, SendInv
<1>6. \A one : <<>> \o <<one>> = <<one>>
    OBVIOUS
<1>7. CASE sending /\ "tx" \in flags
    BY <1>4, <1>5, <1>6, <1>7 DEF Completed, SendInv
<1>8. CASE sending /\ "tx" \notin flags /\ BusOffNow
    BY <1>3, <1>4, <1>5, <1>6, <1>8 DEF Completed, SendInv
<1>9. CASE ~sending \/ ("tx" \notin flags /\ ~BusOffNow)
  <2>1. Completed = <<>>
      BY <1>3, <1>9 DEF Completed
  <2>2. sending' <=> sending
      BY <1>4, <2>1
  <2> QED BY <1>2, <1>4, <1>9, <2>1, <2>2 DEF Types, FlagTypes
<1> QED BY <1>7, <1>8, <1>9

-----------------------------------------------------------------------------
(* Every step keeps the types. *)
LEMMA TypesStep ==
    ASSUME Inv, [Next]_vars
    PROVE  Types'
<1>1. FlagTypes /\ SendTypes /\ FrameTypes /\ EventTypes /\ SendInv /\ OwnInv /\ FramesInv /\ ErrorsInv
    BY DEF Inv, Types
<1>2. CASE SendData
  <2>1. FlagTypes'
      BY <1>1, <1>2 DEF SendData, reception, status, bus, dispatcher, FlagTypes
  <2>2. SendTypes'
      BY <1>1, <1>2, BoundsAssumption DEF SendData, SendTypes, SendInv
  <2>3. FrameTypes'
      BY <1>1, <1>2 DEF SendData, reception, status, bus, dispatcher, FrameTypes
  <2>4. EventTypes'
      BY <1>1, <1>2 DEF SendData, reception, status, bus, dispatcher, EventTypes
  <2> QED BY <2>1, <2>2, <2>3, <2>4 DEF Types
<1>3. CASE AddMessageToTxFifoQ
  <2>1. FlagTypes'
      BY <1>1, <1>3 DEF AddMessageToTxFifoQ, reception, status, bus, FlagTypes
  <2>2. SendTypes'
    <3>1. sent \in Frames /\ TxFifoSize \in Nat
        BY <1>1, <1>3, BoundsAssumption, SizesAssumption
           DEF AddMessageToTxFifoQ, SendInv, SendTypes, Frames
    <3>2. txFifo' \in Seq(Frames) /\ Len(txFifo') <= TxFifoSize
      <4>1. CASE started /\ Len(txFifo) < TxFifoSize
        <5>1. /\ Append(txFifo, sent) \in Seq(Frames) /\ Len(Append(txFifo, sent)) = Len(txFifo) + 1
              /\ Len(txFifo) \in Nat
            BY <1>1, <3>1, AppendProperties, LenProperties DEF SendTypes
        <5> QED BY <1>3, <3>1, <4>1, <5>1 DEF AddMessageToTxFifoQ
      <4>2. CASE ~(started /\ Len(txFifo) < TxFifoSize)
          BY <1>1, <1>3, <4>2 DEF AddMessageToTxFifoQ, SendTypes
      <4> QED BY <4>1, <4>2
    <3>3. sendCompletions' \in Seq([frame : Frames, success : BOOLEAN])
      <4>1. <<Completion(FALSE)>> \in Seq([frame : Frames, success : BOOLEAN])
          BY <1>1, <3>1 DEF Completion, SendInv
      <4>2. \/ sendCompletions' = sendCompletions
            \/ sendCompletions' = sendCompletions \o <<>>
            \/ sendCompletions' = sendCompletions \o <<Completion(FALSE)>>
          BY <1>3 DEF AddMessageToTxFifoQ
      <4>3. <<>> \in Seq([frame : Frames, success : BOOLEAN])
          OBVIOUS
      <4> QED BY <1>1, <4>1, <4>2, <4>3, ConcatProperties DEF SendTypes
    <3> QED BY <1>1, <1>3, <3>2, <3>3 DEF AddMessageToTxFifoQ, SendTypes
  <2>3. FrameTypes'
      BY <1>1, <1>3 DEF AddMessageToTxFifoQ, reception, status, bus, FrameTypes
  <2>4. EventTypes'
    <3>1. <<"send">> \in Seq(Entries) /\ <<>> \in Seq(Entries)
        BY DEF Entries
    <3>2. queue' \in Seq(Entries)
      <4>1. \/ queue' = queue
            \/ queue' = queue \o <<>>
            \/ queue' = queue \o <<"send">>
          BY <1>3 DEF AddMessageToTxFifoQ
      <4> QED BY <1>1, <3>1, <4>1, ConcatProperties DEF EventTypes
    <3> QED BY <1>1, <1>3, <3>2 DEF AddMessageToTxFifoQ, reception, status, bus, EventTypes
  <2> QED BY <2>1, <2>2, <2>3, <2>4 DEF Types
<1>4. CASE Invoke
  <2>1. FlagTypes'
    <3>1. sending' \in BOOLEAN /\ adding' \in BOOLEAN /\ notified' \in BOOLEAN
        BY <1>1, <1>4 DEF Invoke, StillSending, HandleRxInterrupt, reception, FlagTypes
    <3>2. /\ started' \in BOOLEAN /\ recovering' \in BOOLEAN /\ raced' \in BOOLEAN
          /\ busOff' \in BOOLEAN /\ protocolErrors' \in BOOLEAN
      <4>1. CASE BusOffNow
          BY <1>1, <1>4, <4>1, InvokeStatus DEF FlagTypes
      <4>2. CASE ~BusOffNow
          BY <1>1, <1>4, <4>2, InvokeStatus DEF FlagTypes
      <4> QED BY <4>1, <4>2
    <3>3. /\ previousWarning' \in BOOLEAN /\ previousPassive' \in BOOLEAN
          /\ lastErrorCode' \in BOOLEAN /\ autoBusOffRecovery' \in BOOLEAN
      <4>1. CASE "status" \in flags
        <5>1. /\ previousWarning' = Warning /\ previousPassive' = Passive
              /\ lastErrorCode' = FALSE /\ autoBusOffRecovery' = autoBusOffRecovery
            BY <1>4, <4>1 DEF Invoke, HandleStatusInterrupt
        <5>2. Warning \in BOOLEAN /\ Passive \in BOOLEAN
            BY DEF Warning, Passive
        <5> QED BY <1>1, <5>1, <5>2 DEF FlagTypes
      <4>2. CASE "status" \notin flags
          BY <1>1, <1>4, <4>2 DEF Invoke, HandleStatusInterrupt, status, FlagTypes
      <4> QED BY <4>1, <4>2
    <3> QED BY <3>1, <3>2, <3>3 DEF FlagTypes
  <2>2. SendTypes'
    <3>1. txFifo' \in Seq(Frames) /\ Len(txFifo') <= TxFifoSize
      <4>1. TxFifoSize \in Nat /\ <<>> \in Seq(Frames) /\ Len(<<>>) = 0
          BY SizesAssumption
      <4>2. CASE BusOffNow
          BY <1>1, <1>4, <4>1, <4>2, InvokeStatus DEF SendTypes
      <4>3. CASE ~BusOffNow
          BY <1>1, <1>4, <4>3, InvokeStatus DEF SendTypes
      <4> QED BY <4>2, <4>3
    <3>2. Completed \in Seq([frame : Frames, success : BOOLEAN])
      <4>1. CASE sending
        <5>1. Completion(TRUE) \in [frame : Frames, success : BOOLEAN]
              /\ Completion(FALSE) \in [frame : Frames, success : BOOLEAN]
            BY <1>1, <4>1, BoundsAssumption DEF Completion, SendInv, SendTypes, Frames
        <5>2. /\ <<Completion(TRUE)>> \in Seq([frame : Frames, success : BOOLEAN])
              /\ <<Completion(FALSE)>> \in Seq([frame : Frames, success : BOOLEAN])
          <6>1. \A S : \A x \in S : <<x>> \in Seq(S)
              OBVIOUS
          <6> QED BY <5>1, <6>1, Zenon
        <5>3. <<>> \in Seq([frame : Frames, success : BOOLEAN])
            OBVIOUS
        <5>4. Completed = <<Completion(TRUE)>> \/ Completed = <<Completion(FALSE)>> \/ Completed = <<>>
            BY DEF Completed
        <5> QED BY <5>2, <5>3, <5>4
      <4>2. CASE ~sending
          BY <4>2 DEF Completed
      <4> QED BY <4>1, <4>2
    <3>3. sendCompletions' \in Seq([frame : Frames, success : BOOLEAN])
        BY <1>1, <1>4, <3>2, ConcatProperties DEF Invoke, SendTypes
    <3> QED BY <1>1, <1>4, <3>1, <3>3 DEF Invoke, SendTypes
  <2>3. FrameTypes'
    <3>1. CASE "rx" \in flags
      <4>1. rxFifo' = <<>> /\ rxQueue' = rxQueue \o Accepted /\ UNCHANGED <<arrived, delivered>>
          BY <1>4, <3>1 DEF Invoke, HandleRxInterrupt
      <4>2. /\ rxQueue' \in Seq(1 .. MaxFrames)
            /\ Len(rxQueue') = Len(rxQueue) + Len(Accepted)
            /\ Len(Accepted) \in Nat /\ Len(rxQueue) \in Nat
            /\ Len(Accepted) + Len(rxQueue) <= RxQueueSize
          BY <1>1, <4>1, AcceptedIs, ConcatProperties, LenProperties DEF FrameTypes
      <4>3. RxFifoSize \in Nat
          BY SizesAssumption
      <4> QED BY <1>1, <4>1, <4>2, <4>3 DEF FrameTypes
    <3>2. CASE "rx" \notin flags
        BY <1>1, <1>4, <3>2 DEF Invoke, HandleRxInterrupt, reception, FrameTypes
    <3> QED BY <3>1, <3>2
  <2>4. EventTypes'
    <3>1. RxErrors \subseteq Errors /\ StatusErrors \subseteq Errors
        BY DEF RxErrors, StatusErrors, Errors
    <3>2. queue' \in Seq(Entries)
        BY <1>1, <1>4, InvokeQueues
    <3> QED BY <1>1, <1>4, <3>1, <3>2 DEF Invoke, bus, EventTypes
  <2> QED BY <2>1, <2>2, <2>3, <2>4 DEF Types
<1>5. CASE DispatchSendCompletion
  <2>1. FlagTypes'
      BY <1>1, <1>5 DEF DispatchSendCompletion, reception, status, bus, FlagTypes
  <2>2. SendTypes'
    <3>1. Head(queue) = "send" /\ queue # <<>>
        BY <1>5 DEF DispatchSendCompletion, Take
    <3>2. sendCompletions # <<>>
        BY <1>1, <3>1, HasTail DEF SendInv, EventTypes
    <3>3. sendCompletions' \in Seq([frame : Frames, success : BOOLEAN])
        BY <1>1, <1>5, <3>2, HeadTailProperties DEF DispatchSendCompletion, SendTypes
    <3>4. outcome' \in [Frames -> {"none", "sent", "failed"}]
        BY <1>1, <1>5 DEF DispatchSendCompletion, SendTypes
    <3> QED BY <1>1, <1>5, <3>3, <3>4 DEF DispatchSendCompletion, SendTypes
  <2>3. FrameTypes'
      BY <1>1, <1>5 DEF DispatchSendCompletion, reception, status, bus, FrameTypes
  <2>4. EventTypes'
    <3>1. queue # <<>> /\ queue' = Tail(queue)
        BY <1>5 DEF DispatchSendCompletion, Take
    <3>2. queue' \in Seq(Entries)
        BY <1>1, <3>1, HeadTailProperties DEF EventTypes
    <3> QED BY <1>1, <1>5, <3>2 DEF DispatchSendCompletion, reception, status, bus, EventTypes
  <2> QED BY <2>1, <2>2, <2>3, <2>4 DEF Types
<1>6. CASE DispatchError
  <2>1. FlagTypes'
      BY <1>1, <1>6 DEF DispatchError, transmission, reception, status, bus, FlagTypes
  <2>2. SendTypes'
      BY <1>1, <1>6 DEF DispatchError, transmission, reception, status, bus, SendTypes
  <2>3. FrameTypes'
      BY <1>1, <1>6 DEF DispatchError, transmission, reception, status, bus, FrameTypes
  <2>4. EventTypes'
    <3>1. queue # <<>> /\ queue' = Tail(queue)
        BY <1>6 DEF DispatchError, Take
    <3>2. queue' \in Seq(Entries)
        BY <1>1, <3>1, HeadTailProperties DEF EventTypes
    <3>3. Head(queue) \in Errors
        BY <1>6 DEF DispatchError, Take
    <3> QED BY <1>1, <1>6, <3>2, <3>3
               DEF DispatchError, transmission, reception, status, bus, EventTypes
  <2> QED BY <2>1, <2>2, <2>3, <2>4 DEF Types
<1>7. CASE OnError
  <2>1. FlagTypes'
      BY <1>1, <1>7 DEF OnError, transmission, reception, status, bus, FlagTypes
  <2>2. SendTypes'
      BY <1>1, <1>7 DEF OnError, transmission, reception, status, bus, SendTypes
  <2>3. FrameTypes'
      BY <1>1, <1>7 DEF OnError, transmission, reception, status, bus, FrameTypes
  <2>4. EventTypes'
      BY <1>1, <1>7 DEF OnError, transmission, reception, status, bus, EventTypes
  <2> QED BY <2>1, <2>2, <2>3, <2>4 DEF Types
<1>8. CASE DispatchReceived
  <2>1. FlagTypes'
      BY <1>1, <1>8 DEF DispatchReceived, transmission, status, bus, FlagTypes
  <2>2. SendTypes'
      BY <1>1, <1>8 DEF DispatchReceived, transmission, status, bus, SendTypes
  <2>3. FrameTypes'
      BY <1>1, <1>8 DEF DispatchReceived, transmission, status, bus, FrameTypes
  <2>4. EventTypes'
    <3>1. queue # <<>> /\ queue' = Tail(queue)
        BY <1>8 DEF DispatchReceived, Take
    <3>2. queue' \in Seq(Entries)
        BY <1>1, <3>1, HeadTailProperties DEF EventTypes
    <3> QED BY <1>1, <1>8, <3>2 DEF DispatchReceived, transmission, status, bus, EventTypes
  <2> QED BY <2>1, <2>2, <2>3, <2>4 DEF Types
<1>9. CASE ProcessRxBuffer
  <2>1. FlagTypes'
      BY <1>1, <1>9 DEF ProcessRxBuffer, transmission, status, bus, FlagTypes
  <2>2. SendTypes'
      BY <1>1, <1>9 DEF ProcessRxBuffer, transmission, status, bus, SendTypes
  <2>3. FrameTypes'
    <3>1. CASE rxQueue = <<>>
        BY <1>1, <1>9, <3>1 DEF ProcessRxBuffer, FrameTypes
    <3>2. CASE rxQueue # <<>>
      <4>1. delivered' = Append(delivered, Head(rxQueue)) /\ rxQueue' = Tail(rxQueue)
          BY <1>9, <3>2 DEF ProcessRxBuffer
      <4>2. /\ Head(rxQueue) \in 1 .. MaxFrames /\ rxQueue' \in Seq(1 .. MaxFrames)
            /\ Len(rxQueue') = Len(rxQueue) - 1 /\ Len(rxQueue) \in Nat
          BY <1>1, <3>2, <4>1, HeadTailProperties, LenProperties DEF FrameTypes
      <4>3. delivered' \in Seq(1 .. MaxFrames)
          BY <1>1, <4>1, <4>2, AppendProperties DEF FrameTypes
      <4>4. Len(rxQueue') <= RxQueueSize
          BY <1>1, <4>2, SizesAssumption DEF FrameTypes
      <4> QED BY <1>1, <1>9, <4>2, <4>3, <4>4 DEF ProcessRxBuffer, FrameTypes
    <3> QED BY <3>1, <3>2
  <2>4. EventTypes'
    <3>1. running' \in {running, "nothing"} /\ UNCHANGED <<queue, pendingErrors, flags, owed,
          level>>
      <4>1. CASE rxQueue = <<>>
          BY <1>9, <4>1 DEF ProcessRxBuffer, bus
      <4>2. CASE rxQueue # <<>>
          BY <1>9, <4>2 DEF ProcessRxBuffer, NextFrame, bus
      <4> QED BY <4>1, <4>2
    <3> QED BY <1>1, <3>1 DEF EventTypes
  <2> QED BY <2>1, <2>2, <2>3, <2>4 DEF Types
<1>10. CASE Transmit
  <2>1. FlagTypes'
      BY <1>1, <1>10 DEF Transmit, reception, status, bus, dispatcher, FlagTypes
  <2>2. SendTypes'
    <3>1. txFifo # <<>> /\ txFifo' = Tail(txFifo)
        BY <1>10 DEF Transmit
    <3>2. txFifo' \in Seq(Frames) /\ Len(txFifo') = Len(txFifo) - 1 /\ Len(txFifo) \in Nat
        BY <1>1, <3>1, HeadTailProperties, LenProperties DEF SendTypes
    <3>3. Len(txFifo') <= TxFifoSize
        BY <1>1, <3>2, SizesAssumption DEF SendTypes
    <3> QED BY <1>1, <1>10, <3>2, <3>3 DEF Transmit, SendTypes
  <2>3. FrameTypes'
      BY <1>1, <1>10 DEF Transmit, reception, status, bus, dispatcher, FrameTypes
  <2>4. EventTypes'
      BY <1>1, <1>10 DEF Transmit, reception, status, bus, dispatcher, EventTypes
  <2> QED BY <2>1, <2>2, <2>3, <2>4 DEF Types
<1>11. CASE Arrive
  <2>1. FlagTypes'
      BY <1>1, <1>11 DEF Arrive, transmission, status, bus, dispatcher, FlagTypes
  <2>2. SendTypes'
      BY <1>1, <1>11 DEF Arrive, transmission, status, bus, dispatcher, SendTypes
  <2>3. FrameTypes'
    <3>1. arrived' \in 1 .. MaxFrames /\ Len(rxFifo) \in Nat /\ RxFifoSize \in Nat
        BY <1>1, <1>11, BoundsAssumption, SizesAssumption, LenProperties DEF Arrive, FrameTypes
    <3>2. rxFifo' \in Seq(1 .. MaxFrames) /\ Len(rxFifo') <= RxFifoSize
      <4>1. CASE Len(rxFifo) < RxFifoSize
        <5>1. rxFifo' = Append(rxFifo, arrived')
            BY <1>11, <4>1 DEF Arrive
        <5>2. rxFifo' \in Seq(1 .. MaxFrames) /\ Len(rxFifo') = Len(rxFifo) + 1
            BY <1>1, <3>1, <5>1, AppendProperties DEF FrameTypes
        <5> QED BY <3>1, <4>1, <5>2
      <4>2. CASE ~(Len(rxFifo) < RxFifoSize)
          BY <1>1, <1>11, <4>2 DEF Arrive, FrameTypes
      <4> QED BY <4>1, <4>2
    <3> QED BY <1>1, <1>11, <3>1, <3>2 DEF Arrive, FrameTypes
  <2>4. EventTypes'
    <3>1. flags' \subseteq {"rx", "lost", "tx", "status"} /\ owed' \subseteq Errors
        BY <1>1, <1>11 DEF Arrive, EventTypes, Errors
    <3> QED BY <1>1, <1>11, <3>1 DEF Arrive, bus, dispatcher, EventTypes
  <2> QED BY <2>1, <2>2, <2>3, <2>4 DEF Types
<1>12. CASE BusError
  <2>1. FlagTypes'
      BY <1>1, <1>12 DEF BusError, transmission, reception, dispatcher, FlagTypes
  <2>2. SendTypes'
      BY <1>1, <1>12 DEF BusError, transmission, reception, dispatcher, SendTypes
  <2>3. FrameTypes'
      BY <1>1, <1>12 DEF BusError, transmission, reception, dispatcher, FrameTypes
  <2>4. EventTypes'
    <3>1. level' \in {"active", "warning", "passive", "off"}
        BY <1>1, <1>12, AboveIs DEF BusError, EventTypes
    <3>2. flags' \subseteq {"rx", "lost", "tx", "status"} /\ owed' \subseteq Errors
        BY <1>1, <1>12 DEF BusError, EventTypes, Errors
    <3> QED BY <1>1, <1>12, <3>1, <3>2 DEF BusError, dispatcher, EventTypes
  <2> QED BY <2>1, <2>2, <2>3, <2>4 DEF Types
<1>13. CASE BusRecovers
  <2>1. FlagTypes'
      BY <1>1, <1>13 DEF BusRecovers, transmission, reception, dispatcher, FlagTypes
  <2>2. SendTypes'
      BY <1>1, <1>13 DEF BusRecovers, transmission, reception, dispatcher, SendTypes
  <2>3. FrameTypes'
      BY <1>1, <1>13 DEF BusRecovers, transmission, reception, dispatcher, FrameTypes
  <2>4. EventTypes'
      BY <1>1, <1>13 DEF BusRecovers, transmission, reception, dispatcher, EventTypes
  <2> QED BY <2>1, <2>2, <2>3, <2>4 DEF Types
<1>14. CASE UNCHANGED vars
    BY <1>1, <1>14
       DEF vars, transmission, reception, status, bus, dispatcher, FlagTypes, SendTypes,
           FrameTypes, EventTypes, Types
<1> QED BY <1>2, <1>3, <1>4, <1>5, <1>6, <1>7, <1>8, <1>9, <1>10, <1>11, <1>12, <1>13, <1>14
           DEF Next, Dispatch

(* Every step keeps to one frame at a time. *)
LEMMA SendStep ==
    ASSUME Inv, [Next]_vars
    PROVE  SendInv'
<1>1. Types /\ SendInv /\ OwnInv
    BY DEF Inv
<1>2. sent \in 0 .. MaxSends /\ MaxSends \in Nat /\ Frames = 1 .. MaxSends
    BY <1>1, BoundsAssumption DEF Types, SendTypes, Frames
<1>3. CASE SendData
  <2>1. sent' = sent + 1 /\ sent < MaxSends /\ onSendComplete' = sent + 1 /\ UNCHANGED <<outcome,
        sendCompletions, queue>>
      BY <1>3 DEF SendData, dispatcher
  <2>2. sent > 0 => outcome[sent] # "none"
      BY <1>2, <1>3 DEF SendData, Unanswered
  <2>3. sendCompletions = <<>>
      BY <1>1, <2>2 DEF SendInv
  <2>4. outcome[sent'] = "none" /\ \A frame \in Frames : frame > sent' => outcome[frame] = "none"
    <3>1. sent' \in Frames /\ sent' > sent /\ \A frame \in Frames : frame > sent' => frame > sent
        BY <1>2, <2>1
    <3> QED BY <1>1, <3>1 DEF SendInv
  <2> QED BY <1>1, <1>2, <2>1, <2>3, <2>4 DEF SendInv
<1>4. CASE AddMessageToTxFifoQ
  <2>1. UNCHANGED <<onSendComplete, outcome, sent>> /\ ~adding' /\ adding
      BY <1>4 DEF AddMessageToTxFifoQ
  <2>2. CASE UNCHANGED <<sending, sendCompletions, queue>>
      BY <1>1, <2>1, <2>2 DEF SendInv
  <2>3. CASE /\ sending /\ ~sending'
             /\ sendCompletions' = <<[frame |-> sent, success |-> FALSE]>>
             /\ queue' = queue \o <<"send">>
    <3>1. ~Has(queue, "send") /\ sent > 0 /\ outcome[sent] = "none"
        BY <1>1, <2>3 DEF SendInv
    <3>2. queue \in Seq(Entries) /\ <<"send">> \in Seq(Entries)
        BY <1>1 DEF Types, EventTypes, Entries
    <3>3. Once(queue, "send") /\ Once(<<"send">>, "send")
        BY <3>1 DEF Once, Has
    <3>4. Once(queue', "send")
        BY <2>3, <3>1, <3>2, <3>3, OnceConcat
    <3>5. sendCompletions' # <<>> /\ \E success \in BOOLEAN : sendCompletions' = <<[frame |-> sent,
          success |-> success]>>
        BY <2>3
    <3> QED BY <1>1, <2>1, <2>3, <3>1, <3>4, <3>5 DEF SendInv
  <2>4. CASE ~sending' /\ UNCHANGED <<sendCompletions, queue>>
      BY <1>1, <2>1, <2>4 DEF SendInv
  <2> QED BY <1>1, <1>4, <2>2, <2>3, <2>4, AddIs
<1>5. CASE Invoke
  <2>1. UNCHANGED <<onSendComplete, outcome, sent, adding>>
      BY <1>5 DEF Invoke
  <2>2. /\ Has(queue', "send") => Has(queue, "send") \/ Completed # <<>>
        /\ Once(queue, "send") /\ (Has(queue, "send") => Completed = <<>>) => Once(queue', "send")
      BY <1>1, <1>5, InvokeQueues DEF Types
  <2>3. CASE Completed = <<>> /\ UNCHANGED <<sending, sendCompletions>>
      BY <1>1, <2>1, <2>2, <2>3 DEF SendInv
  <2>4. ASSUME NEW success \in BOOLEAN, sending, ~sending', Completed # <<>>,
               sendCompletions' = <<[frame |-> sent, success |-> success]>>
        PROVE  SendInv'
    <3>1. ~Has(queue, "send") /\ sent > 0 /\ outcome[sent] = "none"
        BY <1>1, <2>4 DEF SendInv
    <3>2. sendCompletions' # <<>>
        BY <2>4
    <3> QED BY <1>1, <2>1, <2>2, <2>4, <3>1, <3>2 DEF SendInv
  <2> QED BY <1>1, <1>5, <2>3, <2>4, CompletedIs
<1>6. CASE DispatchSendCompletion
  <2>1. Head(queue) = "send" /\ Has(queue, "send") /\ Once(queue', "send") /\ ~Has(queue', "send")
      BY <1>1, <1>6, TakeIs DEF DispatchSendCompletion, Types, SendInv
  <2>2. PICK success \in BOOLEAN : sendCompletions = <<[frame |-> sent, success |-> success]>>
      BY <1>1, <2>1 DEF SendInv
  <2>3. sendCompletions' = <<>> /\ ~sending /\ sent > 0
    <3>1. sendCompletions # <<>>
        BY <2>2
    <3>2. Tail(sendCompletions) = <<>>
        BY <2>2
    <3> QED BY <1>1, <1>6, <3>1, <3>2 DEF DispatchSendCompletion, SendInv
  <2>4. UNCHANGED <<onSendComplete, sent, sending, adding>>
      BY <1>6 DEF DispatchSendCompletion
  <2>5. \A frame \in Frames : frame # sent => outcome'[frame] = outcome[frame]
    <3>1. Head(sendCompletions).frame = sent
        BY <2>2
    <3> QED BY <1>1, <1>6, <3>1 DEF DispatchSendCompletion, Types, SendTypes
  <2>6. \A frame \in Frames : frame > sent => outcome'[frame] = "none"
      BY <1>1, <1>2, <2>5 DEF SendInv
  <2> QED BY <1>1, <2>1, <2>3, <2>4, <2>6 DEF SendInv
<1>7. CASE DispatchError
    BY <1>1, <1>7, TakeIs DEF DispatchError, transmission, Types, SendInv
<1>8. CASE OnError
    BY <1>1, <1>8 DEF OnError, transmission, SendInv
<1>9. CASE DispatchReceived
    BY <1>1, <1>9, TakeIs DEF DispatchReceived, transmission, Types, SendInv
<1>10. CASE ProcessRxBuffer
    BY <1>1, <1>10 DEF ProcessRxBuffer, transmission, SendInv
<1>11. CASE Transmit
    BY <1>1, <1>11 DEF Transmit, dispatcher, SendInv
<1>12. CASE Arrive
    BY <1>1, <1>12 DEF Arrive, transmission, dispatcher, SendInv
<1>13. CASE BusError
    BY <1>1, <1>13 DEF BusError, transmission, dispatcher, SendInv
<1>14. CASE BusRecovers
    BY <1>1, <1>14 DEF BusRecovers, transmission, dispatcher, SendInv
<1>15. CASE UNCHANGED vars
    BY <1>1, <1>15 DEF vars, transmission, dispatcher, SendInv
<1> QED BY <1>3, <1>4, <1>5, <1>6, <1>7, <1>8, <1>9, <1>10, <1>11, <1>12, <1>13, <1>14, <1>15
           DEF Next, Dispatch

(* Every step keeps what is told of a frame true to what became of it. *)
LEMMA OwnStep ==
    ASSUME Inv, [Next]_vars
    PROVE  OwnInv'
<1>1. Types /\ SendInv /\ OwnInv
    BY DEF Inv
<1>2. sent \in 0 .. MaxSends /\ MaxSends \in Nat /\ Frames = 1 .. MaxSends
    BY <1>1, BoundsAssumption DEF Types, SendTypes, Frames
<1>3. CASE SendData
  <2>1. SUFFICES ASSUME ~raced
                 PROVE  OwnInv'
      BY <1>3 DEF SendData, OwnInv
  <2>2. /\ sent' = sent + 1 /\ sending' /\ adding' /\ ~adding
        /\ UNCHANGED <<txFifo, outcome, sendCompletions, transmitted, flags, raced>>
      BY <1>3 DEF SendData
  <2>3. sent > 0 => outcome[sent] # "none"
      BY <1>2, <1>3 DEF SendData, Unanswered
  <2>4. sendCompletions = <<>> /\ ~sending
      BY <1>1, <2>3 DEF SendInv
  <2>5. txFifo = <<>> /\ "tx" \notin flags
      BY <1>1, <2>1, <2>4 DEF OwnInv
  <2>6. sent' \notin transmitted /\ \A frame \in transmitted : frame \in 1 .. sent'
    <3>1. \A frame \in transmitted : frame \in 1 .. sent
        BY <1>1, <2>1 DEF OwnInv
    <3> QED BY <1>2, <2>2, <3>1
  <2>7. \A success \in BOOLEAN : sendCompletions # <<[frame |-> sent', success |-> success]>>
      BY <2>4
  <2> QED BY <1>1, <2>1, <2>2, <2>4, <2>5, <2>6, <2>7 DEF OwnInv
<1>4. CASE AddMessageToTxFifoQ
  <2>1. SUFFICES ASSUME ~raced
                 PROVE  OwnInv'
      BY <1>4 DEF AddMessageToTxFifoQ, OwnInv
  <2>2. adding /\ ~adding' /\ UNCHANGED <<sent, outcome, transmitted, flags, raced>>
      BY <1>4 DEF AddMessageToTxFifoQ
  <2>3. sending /\ txFifo = <<>> /\ "tx" \notin flags /\ sent \notin transmitted
      BY <1>1, <2>1, <2>2 DEF OwnInv
  <2>4. CASE txFifo' = Append(txFifo, sent) /\ UNCHANGED <<sending, sendCompletions, queue>>
    <3>1. txFifo' = <<sent>>
        BY <2>3, <2>4
    <3> QED BY <1>1, <2>1, <2>2, <2>3, <2>4, <3>1 DEF OwnInv
  <2>5. CASE /\ sending /\ ~sending' /\ UNCHANGED txFifo
             /\ sendCompletions' = <<[frame |-> sent, success |-> FALSE]>>
    <3>1. \A success \in BOOLEAN : sendCompletions' = <<[frame |-> sent,
          success |-> success]>> => ~success
        BY <2>5
    <3> QED BY <1>1, <2>1, <2>2, <2>3, <2>5, <3>1 DEF OwnInv
  <2> QED BY <1>1, <1>4, <2>3, <2>4, <2>5, AddIs
<1>5. CASE Invoke
  <2>1. /\ flags' = {} /\ UNCHANGED <<sent, outcome, transmitted, adding>>
      BY <1>5 DEF Invoke
  <2>2. /\ BusOffNow => txFifo' = <<>> /\ raced' = (raced \/ adding)
        /\ ~BusOffNow => UNCHANGED <<txFifo, raced>>
      BY <1>1, <1>5, InvokeStatus DEF Types
  <2>3. SUFFICES ASSUME ~raced, BusOffNow => ~adding
                 PROVE  OwnInv'
    <3>1. CASE BusOffNow
      <4>1. raced' <=> raced \/ adding
          BY <2>2, <3>1
      <4> QED BY <3>1, <4>1 DEF OwnInv
    <3>2. CASE ~BusOffNow
      <4>1. raced' <=> raced
          BY <2>2, <3>2
      <4> QED BY <3>2, <4>1 DEF OwnInv
    <3> QED BY <3>1, <3>2
  <2>4. /\ txFifo # <<>> => txFifo = <<sent>> /\ sending /\ ~adding
        /\ "tx" \in flags => txFifo = <<>> /\ sending /\ ~adding /\ sent \in transmitted
        /\ adding => sending
        /\ sending /\ "tx" \notin flags => sent \notin transmitted
      BY <1>1, <2>3 DEF OwnInv
  <2>5. CASE /\ sending /\ ~sending' /\ "tx" \in flags
             /\ sendCompletions' = <<[frame |-> sent, success |-> TRUE]>>
    <3>1. \A success \in BOOLEAN : sendCompletions' = <<[frame |-> sent,
          success |-> success]>> => success
        BY <2>5
    <3>2. txFifo' = <<>>
        BY <2>2, <2>4, <2>5
    <3> QED BY <1>1, <2>1, <2>3, <2>4, <2>5, <3>1, <3>2 DEF OwnInv
  <2>6. CASE /\ sending /\ ~sending' /\ "tx" \notin flags /\ BusOffNow
             /\ sendCompletions' = <<[frame |-> sent, success |-> FALSE]>>
    <3>1. \A success \in BOOLEAN : sendCompletions' = <<[frame |-> sent,
          success |-> success]>> => ~success
        BY <2>6
    <3>2. txFifo' = <<>> /\ ~adding'
        BY <2>1, <2>2, <2>3, <2>6
    <3> QED BY <1>1, <2>1, <2>3, <2>4, <2>6, <3>1, <3>2 DEF OwnInv
  <2>7. CASE /\ UNCHANGED <<sending, sendCompletions>>
             /\ sending => "tx" \notin flags /\ ~BusOffNow
    <3>1. txFifo' = <<>> \/ UNCHANGED txFifo
        BY <2>2
    <3>2. "tx" \notin flags
        BY <2>4, <2>7
    <3> QED BY <1>1, <2>1, <2>2, <2>3, <2>4, <2>7, <3>1, <3>2 DEF OwnInv
  <2> QED BY <1>1, <1>5, <2>5, <2>6, <2>7, CompletedIs
<1>6. CASE DispatchSendCompletion
  <2>1. SUFFICES ASSUME ~raced
                 PROVE  OwnInv'
      BY <1>6 DEF DispatchSendCompletion, OwnInv
  <2>2. Head(queue) = "send" /\ Has(queue, "send")
      BY <1>1, <1>6, TakeIs DEF DispatchSendCompletion, Types
  <2>3. PICK success \in BOOLEAN : sendCompletions = <<[frame |-> sent, success |-> success]>>
      BY <1>1, <2>2 DEF SendInv
  <2>4. UNCHANGED <<sent, sending, adding, txFifo, transmitted, flags, raced>>
      BY <1>6 DEF DispatchSendCompletion
  <2>5. sendCompletions' = <<>>
    <3>1. Tail(sendCompletions) = <<>>
        BY <2>3
    <3> QED BY <1>6, <3>1 DEF DispatchSendCompletion
  <2>6. outcome' = [outcome EXCEPT ![sent] = IF success THEN "sent" ELSE "failed"]
    <3>1. Head(sendCompletions).frame = sent /\ Head(sendCompletions).success = success
        BY <2>3
    <3> QED BY <1>6, <3>1 DEF DispatchSendCompletion
  <2>7. success <=> sent \in transmitted
      BY <1>1, <2>1, <2>3 DEF OwnInv
  <2>8. \A frame \in Frames : /\ outcome'[frame] = "sent" => frame \in transmitted
                              /\ outcome'[frame] = "failed" => frame \notin transmitted
    <3>1. SUFFICES ASSUME NEW frame \in Frames
                   PROVE  /\ outcome'[frame] = "sent" => frame \in transmitted
                          /\ outcome'[frame] = "failed" => frame \notin transmitted
        OBVIOUS
    <3>2. CASE frame = sent
        BY <1>1, <2>6, <2>7, <3>2 DEF Types, SendTypes
    <3>3. CASE frame # sent
        BY <1>1, <2>1, <2>6, <3>3 DEF Types, SendTypes, OwnInv
    <3> QED BY <3>2, <3>3
  <2>9. \A one : sendCompletions' # <<one>>
      BY <2>5
  <2> QED BY <1>1, <2>1, <2>4, <2>8, <2>9 DEF OwnInv
<1>7. CASE DispatchError
    BY <1>1, <1>7 DEF DispatchError, transmission, OwnInv
<1>8. CASE OnError
    BY <1>1, <1>8 DEF OnError, transmission, OwnInv
<1>9. CASE DispatchReceived
    BY <1>1, <1>9 DEF DispatchReceived, transmission, OwnInv
<1>10. CASE ProcessRxBuffer
    BY <1>1, <1>10 DEF ProcessRxBuffer, transmission, OwnInv
<1>11. CASE Transmit
  <2>1. SUFFICES ASSUME ~raced
                 PROVE  OwnInv'
      BY <1>11 DEF Transmit, OwnInv
  <2>2. /\ txFifo # <<>> /\ txFifo' = Tail(txFifo)
        /\ transmitted' = transmitted \union {Head(txFifo)} /\ flags' = flags \union {"tx"}
        /\ UNCHANGED <<sending, sendCompletions, adding, sent, outcome, raced>>
      BY <1>11 DEF Transmit
  <2>3. txFifo = <<sent>> /\ sending /\ ~adding
      BY <1>1, <2>1, <2>2 DEF OwnInv
  <2>4. txFifo' = <<>> /\ transmitted' = transmitted \union {sent}
      BY <2>2, <2>3
  <2>5. sendCompletions = <<>> /\ outcome[sent] = "none"
      BY <1>1, <2>3 DEF SendInv
  <2>6. \A one : sendCompletions' # <<one>>
      BY <2>2, <2>5
  <2>7. \A frame \in transmitted' : frame \in 1 .. sent
    <3>1. sent \in 1 .. sent
        BY <1>1, <1>2, <2>3 DEF SendInv
    <3> QED BY <1>1, <2>1, <2>4, <3>1 DEF OwnInv
  <2>8. \A frame \in Frames : /\ outcome[frame] = "sent" => frame \in transmitted'
                              /\ outcome[frame] = "failed" => frame \notin transmitted'
      BY <1>1, <2>1, <2>4, <2>5 DEF OwnInv
  <2> QED BY <2>1, <2>2, <2>3, <2>4, <2>6, <2>7, <2>8 DEF OwnInv
<1>12. CASE Arrive
    BY <1>1, <1>12 DEF Arrive, transmission, OwnInv
<1>13. CASE BusError
    BY <1>1, <1>13 DEF BusError, transmission, OwnInv
<1>14. CASE BusRecovers
    BY <1>1, <1>14 DEF BusRecovers, transmission, OwnInv
<1>15. CASE UNCHANGED vars
    BY <1>1, <1>15 DEF vars, transmission, OwnInv
<1> QED BY <1>3, <1>4, <1>5, <1>6, <1>7, <1>8, <1>9, <1>10, <1>11, <1>12, <1>13, <1>14, <1>15
           DEF Next, Dispatch

(* No lost frame is the one that arrives next. *)
LEMMA LostArrived ==
    ASSUME FrameTypes, FramesInv
    PROVE  \A frame \in lost : frame \in 1 .. arrived + 1 /\ frame # arrived + 1
<1>1. arrived \in Int /\ \A frame \in lost : frame \in 1 .. arrived
    BY DEF FrameTypes, FramesInv
<1> QED BY <1>1

(* Every step keeps account of the frames that arrived. *)
LEMMA FramesStep ==
    ASSUME Inv, [Next]_vars
    PROVE  FramesInv'
<1>1. Types /\ FramesInv
    BY DEF Inv
<1>2. /\ rxFifo \in Seq(1 .. MaxFrames) /\ rxQueue \in Seq(1 .. MaxFrames) /\ delivered \in Seq(1 .. MaxFrames)
      /\ arrived \in 0 .. MaxFrames /\ MaxFrames \in Nat
    BY <1>1, BoundsAssumption DEF Types, FrameTypes
<1>3. /\ \A a, b : Has(delivered, a) /\ Has(rxQueue, b) => a < b
      /\ \A a, b : Has(delivered, a) /\ Has(rxFifo, b) => a < b
      /\ \A a, b : Has(rxQueue, a) /\ Has(rxFifo, b) => a < b
    BY <1>1, PrecedesIs DEF FramesInv
<1>4. CASE SendData
    BY <1>1, <1>4 DEF SendData, reception, dispatcher, FramesInv
<1>5. CASE AddMessageToTxFifoQ
  <2>1. UNCHANGED <<reception, running, flags>>
      BY <1>5 DEF AddMessageToTxFifoQ
  <2>2. Has(queue, "rx") => Has(queue', "rx")
    <3>1. queue \in Seq(Entries) /\ <<"send">> \in Seq(Entries)
        BY <1>1 DEF Types, EventTypes, Entries
    <3>2. Has(queue, "rx") => Has(queue \o <<"send">>, "rx")
        BY <3>1, HasConcat
    <3>3. queue' = queue \/ queue' = queue \o <<"send">>
      <4>1. SendInv
          BY DEF Inv
      <4> QED BY <1>1, <1>5, <4>1, AddIs
    <3> QED BY <3>2, <3>3
  <2> QED BY <1>1, <2>1, <2>2 DEF reception, FramesInv
<1>6. CASE Invoke
  <2>1. flags' = {} /\ UNCHANGED running
      BY <1>6 DEF Invoke
  <2>2. Has(queue, "rx") => Has(queue', "rx")
      BY <1>1, <1>6, InvokeQueues DEF Types
  <2>3. CASE "rx" \in flags
    <3>1. /\ rxFifo' = <<>> /\ rxQueue' = rxQueue \o Accepted
          /\ notified' = (notified \/ Accepted # <<>>)
          /\ lost' = lost \union Dropped /\ UNCHANGED <<arrived, delivered>>
        BY <1>6, <2>3 DEF Invoke, HandleRxInterrupt
    <3>2. /\ Accepted \in Seq(1 .. MaxFrames) /\ Ascends(Accepted)
          /\ \A frame : Has(rxFifo, frame) <=> Has(Accepted, frame) \/ frame \in Dropped
          /\ \A frame : ~(Has(Accepted, frame) /\ frame \in Dropped)
        BY <1>1, AcceptedIs, AcceptedOrDropped DEF Types, FramesInv
    <3>3. \A frame : Has(rxQueue', frame) <=> Has(rxQueue, frame) \/ Has(Accepted, frame)
        BY <1>2, <3>1, <3>2, HasConcat
    <3>4. Ascends(rxQueue') /\ Ascends(rxFifo') /\ Ascends(delivered')
      <4>1. Precedes(rxQueue, Accepted)
          BY <1>3, <3>2, PrecedesIs
      <4>2. Ascends(rxQueue \o Accepted)
          BY <1>1, <1>2, <3>2, <4>1, AscendsConcat DEF FramesInv
      <4>3. Ascends(<<>>)
          BY DEF Ascends
      <4> QED BY <1>1, <3>1, <4>2, <4>3 DEF FramesInv
    <3>5. Precedes(delivered', rxQueue') /\ Precedes(delivered', rxFifo') /\ Precedes(rxQueue',
          rxFifo')
        BY <1>3, <3>1, <3>2, <3>3, PrecedesIs, HasNothing
    <3>6. \A frame \in 1 .. MaxFrames :
            frame <= arrived' /\ frame \notin lost' <=>
                Has(delivered', frame) \/ Has(rxQueue', frame) \/ Has(rxFifo', frame)
      <4>1. SUFFICES ASSUME NEW frame \in 1 .. MaxFrames
                     PROVE  frame <= arrived /\ frame \notin lost /\ frame \notin Dropped <=>
                                Has(delivered, frame) \/ Has(rxQueue, frame) \/ Has(Accepted, frame)
          BY <3>1, <3>3, HasNothing
      <4>2. frame <= arrived /\ frame \notin lost <=>
                Has(delivered, frame) \/ Has(rxQueue, frame) \/ Has(rxFifo, frame)
          BY <1>1 DEF FramesInv
      <4>3. Has(delivered, frame) \/ Has(rxQueue, frame) => ~Has(rxFifo, frame)
        <5>1. ~(frame < frame)
            OBVIOUS
        <5> QED BY <1>3, <5>1
      <4> QED BY <3>2, <4>2, <4>3
    <3>7. \A frame \in lost' : frame \in 1 .. arrived'
      <4>1. \A frame \in Dropped : frame \in 1 .. arrived
        <5>1. SUFFICES ASSUME NEW frame \in Dropped
                       PROVE  frame \in 1 .. arrived
            OBVIOUS
        <5>2. Has(rxFifo, frame)
            BY <3>2
        <5>3. frame \in 1 .. MaxFrames
            BY <1>2, <5>2, HasInRange
        <5> QED BY <1>1, <1>2, <5>2, <5>3 DEF FramesInv
      <4> QED BY <1>1, <3>1, <4>1 DEF FramesInv
    <3>8. rxQueue' # <<>> => running' = "rx" \/ notified'
      <4>1. CASE rxQueue = <<>> /\ Accepted = <<>>
          BY <3>1, <4>1
      <4>2. CASE Accepted # <<>>
          BY <3>1, <4>2
      <4>3. CASE rxQueue # <<>>
          BY <1>1, <2>1, <3>1, <4>3 DEF FramesInv
      <4> QED BY <4>1, <4>2, <4>3
    <3>9. notified' => Has(queue', "rx")
      <4>1. Accepted # <<>> /\ ~notified => Has(queue', "rx")
          BY <1>1, <1>6, <2>3, InvokeQueues DEF Types
      <4> QED BY <1>1, <2>2, <3>1, <4>1 DEF FramesInv
    <3> QED BY <3>1, <3>4, <3>5, <3>6, <3>7, <3>8, <3>9 DEF FramesInv
  <2>4. CASE "rx" \notin flags
    <3>1. UNCHANGED reception
        BY <1>6, <2>4 DEF Invoke, HandleRxInterrupt
    <3> QED BY <1>1, <2>1, <2>2, <2>4, <3>1 DEF reception, FramesInv
  <2> QED BY <2>3, <2>4
<1>7. CASE DispatchSendCompletion
  <2>1. Has(queue, "rx") => Has(queue', "rx")
      BY <1>1, <1>7, TakeIs DEF DispatchSendCompletion, Types
  <2> QED BY <1>1, <1>7, <2>1 DEF DispatchSendCompletion, reception, FramesInv
<1>8. CASE DispatchError
  <2>1. Has(queue, "rx") => Has(queue', "rx")
      BY <1>1, <1>8, TakeIs DEF DispatchError, Types, Errors
  <2>2. running = "nothing"
      BY <1>8 DEF DispatchError, Take
  <2> QED BY <1>1, <1>8, <2>1, <2>2 DEF DispatchError, reception, FramesInv
<1>9. CASE OnError
  <2>1. running # "rx"
      BY <1>9 DEF OnError, Errors
  <2> QED BY <1>1, <1>9, <2>1 DEF OnError, reception, FramesInv
<1>10. CASE DispatchReceived
    BY <1>1, <1>10 DEF DispatchReceived, FramesInv
<1>11. CASE ProcessRxBuffer
  <2>1. CASE rxQueue = <<>>
      BY <1>1, <1>11, <2>1 DEF ProcessRxBuffer, FramesInv
  <2>2. CASE rxQueue # <<>>
    <3>1. /\ delivered' = Append(delivered, Head(rxQueue)) /\ rxQueue' = Tail(rxQueue)
          /\ running' = running /\ running = "rx"
          /\ UNCHANGED <<rxFifo, notified, arrived, lost, queue, flags>>
        BY <1>11, <2>2 DEF ProcessRxBuffer, NextFrame
    <3>2. /\ Head(rxQueue) \in 1 .. MaxFrames
          /\ \A e : Has(delivered', e) <=> Has(delivered, e) \/ e = Head(rxQueue)
          /\ \A e : Has(rxQueue, e) <=> Head(rxQueue) = e \/ Has(rxQueue', e)
        BY <1>2, <2>2, <3>1, HasAppend, HasTail, HeadTailProperties
    <3>3. Ascends(rxQueue') /\ \A e : Has(rxQueue', e) => Head(rxQueue) < e
        BY <1>1, <1>2, <2>2, <3>1, AscendsTail DEF FramesInv
    <3>4. Ascends(delivered')
      <4>1. delivered' = delivered \o <<Head(rxQueue)>> /\ <<Head(rxQueue)>> \in Seq(1 .. MaxFrames)
        <5> DEFINE first == Head(rxQueue)
        <5>1. first \in 1 .. MaxFrames
            BY <3>2
        <5> HIDE DEF first
        <5>2. Append(delivered, first) = delivered \o <<first>>
            BY <1>2, <5>1, AppendIsConcat
        <5>3. <<first>> \in Seq(1 .. MaxFrames)
            BY <5>1
        <5> QED BY <3>1, <5>2, <5>3 DEF first
      <4>2. Precedes(delivered, <<Head(rxQueue)>>)
          BY <1>3, <3>2, HasOne, PrecedesIs
      <4>3. Ascends(<<Head(rxQueue)>>)
          BY DEF Ascends
      <4> QED BY <1>1, <1>2, <4>1, <4>2, <4>3, AscendsConcat DEF FramesInv
    <3>5. Precedes(delivered', rxQueue') /\ Precedes(delivered', rxFifo') /\ Precedes(rxQueue',
          rxFifo')
        BY <1>3, <3>1, <3>2, <3>3, PrecedesIs
    <3>6. \A frame \in 1 .. MaxFrames :
            frame <= arrived' /\ frame \notin lost' <=>
                Has(delivered', frame) \/ Has(rxQueue', frame) \/ Has(rxFifo', frame)
        BY <1>1, <3>1, <3>2 DEF FramesInv
    <3> QED BY <1>1, <3>1, <3>3, <3>4, <3>5, <3>6 DEF FramesInv
  <2> QED BY <2>1, <2>2
<1>12. CASE Transmit
    BY <1>1, <1>12 DEF Transmit, reception, dispatcher, FramesInv
<1>13. CASE Arrive
  <2>1. /\ arrived' = arrived + 1 /\ arrived < MaxFrames
        /\ UNCHANGED <<rxQueue, notified, delivered, queue, running>>
      BY <1>13 DEF Arrive, dispatcher
  <2>2. arrived' \in 1 .. MaxFrames
      BY <1>2, <2>1
  <2>3. \A frame : Has(delivered, frame) \/ Has(rxQueue, frame) \/ Has(rxFifo, frame) =>
            frame < arrived' /\ frame # arrived'
    <3>1. SUFFICES ASSUME NEW frame, Has(delivered, frame) \/ Has(rxQueue, frame) \/ Has(rxFifo,
          frame)
                   PROVE  frame < arrived' /\ frame # arrived'
        OBVIOUS
    <3>2. frame \in 1 .. MaxFrames
        BY <1>2, <3>1, HasInRange
    <3>3. frame <= arrived
        BY <1>1, <3>1, <3>2 DEF FramesInv
    <3> QED BY <1>2, <2>1, <3>2, <3>3
  <2>4. \A frame \in 1 .. MaxFrames : frame <= arrived' <=> frame <= arrived \/ frame = arrived'
      BY <1>2, <2>1
  <2>5. CASE Len(rxFifo) < RxFifoSize
    <3>1. rxFifo' = Append(rxFifo, arrived') /\ flags' = flags \union {"rx"} /\ UNCHANGED lost
        BY <1>13, <2>5 DEF Arrive
    <3>2. \A e : Has(rxFifo', e) <=> Has(rxFifo, e) \/ e = arrived'
        BY <1>2, <2>2, <3>1, HasAppend
    <3>3. Ascends(rxFifo')
      <4>1. rxFifo' = rxFifo \o <<arrived'>> /\ <<arrived'>> \in Seq(1 .. MaxFrames)
          BY <1>2, <2>2, <3>1, AppendIsConcat
      <4>2. Precedes(rxFifo, <<arrived'>>)
          BY <2>3, HasOne, PrecedesIs
      <4>3. Ascends(<<arrived'>>)
          BY DEF Ascends
      <4> QED BY <1>1, <1>2, <4>1, <4>2, <4>3, AscendsConcat DEF FramesInv
    <3>4. Precedes(delivered', rxQueue') /\ Precedes(delivered', rxFifo') /\ Precedes(rxQueue',
          rxFifo')
        BY <1>3, <2>1, <2>3, <3>2, PrecedesIs
    <3>5. \A frame \in lost : frame \in 1 .. arrived' /\ frame # arrived'
        BY <1>1, <2>1, LostArrived DEF Types
    <3>6. \A frame \in 1 .. MaxFrames :
            frame <= arrived' /\ frame \notin lost' <=>
                Has(delivered', frame) \/ Has(rxQueue', frame) \/ Has(rxFifo', frame)
        BY <1>1, <2>1, <2>4, <3>1, <3>2, <3>5 DEF FramesInv
    <3> QED BY <1>1, <2>1, <3>1, <3>3, <3>4, <3>5, <3>6 DEF FramesInv
  <2>6. CASE ~(Len(rxFifo) < RxFifoSize)
    <3>1. lost' = lost \union {arrived'} /\ flags' = flags \union {"lost"} /\ UNCHANGED rxFifo
        BY <1>13, <2>6 DEF Arrive
    <3>2. \A frame \in lost' : frame \in 1 .. arrived'
        BY <1>1, <2>1, <2>2, <3>1, LostArrived DEF Types
    <3>3. \A frame \in 1 .. MaxFrames :
            frame <= arrived' /\ frame \notin lost' <=>
                Has(delivered', frame) \/ Has(rxQueue', frame) \/ Has(rxFifo', frame)
        BY <1>1, <2>1, <2>3, <2>4, <3>1 DEF FramesInv
    <3> QED BY <1>1, <2>1, <3>1, <3>2, <3>3 DEF FramesInv
  <2> QED BY <2>5, <2>6
<1>14. CASE BusError
    BY <1>1, <1>14 DEF BusError, reception, dispatcher, FramesInv
<1>15. CASE BusRecovers
    BY <1>1, <1>15 DEF BusRecovers, reception, dispatcher, FramesInv
<1>16. CASE UNCHANGED vars
    BY <1>1, <1>16 DEF vars, reception, dispatcher, FramesInv
<1> QED BY <1>4, <1>5, <1>6, <1>7, <1>8, <1>9, <1>10, <1>11, <1>12, <1>13, <1>14, <1>15, <1>16
           DEF Next, Dispatch

(* Every step keeps the errors on their way. *)
LEMMA ErrorsStep ==
    ASSUME Inv, [Next]_vars
    PROVE  ErrorsInv'
<1>1. Types /\ ErrorsInv
    BY DEF Inv
<1>2. CASE SendData
    BY <1>1, <1>2 DEF SendData, dispatcher, status, bus, ErrorsInv
<1>3. CASE AddMessageToTxFifoQ
  <2>1. UNCHANGED <<status, bus, running, pendingErrors, flags, owed>>
      BY <1>3 DEF AddMessageToTxFifoQ
  <2>2. \A e : Has(queue, e) => Has(queue', e)
    <3>1. queue \in Seq(Entries) /\ <<"send">> \in Seq(Entries)
        BY <1>1 DEF Types, EventTypes, Entries
    <3>2. \A e : Has(queue, e) => Has(queue \o <<"send">>, e)
        BY <3>1, HasConcat
    <3>3. queue' = queue \/ queue' = queue \o <<"send">>
      <4>1. SendInv
          BY DEF Inv
      <4> QED BY <1>1, <1>3, <4>1, AddIs
    <3> QED BY <3>2, <3>3
  <2> QED BY <1>1, <2>1, <2>2 DEF status, bus, ErrorsInv
<1>4. CASE Invoke
  <2>1. /\ pendingErrors' = pendingErrors \union RxErrors \union StatusErrors
        /\ owed' = owed \union RxErrors
        /\ UNCHANGED <<running, level>>
      BY <1>4 DEF Invoke, bus
  <2>2. /\ \A e : Has(queue, e) => Has(queue', e)
        /\ \A e \in RxErrors \union StatusErrors : e \in pendingErrors \/ Has(queue', e)
      BY <1>1, <1>4, InvokeQueues DEF Types
  <2>3. \A error \in pendingErrors' : Has(queue', error)
      BY <1>1, <2>1, <2>2 DEF ErrorsInv
  <2>4. recovering' => busOff' /\ level' = "off"
    <3>1. CASE BusOffNow
        BY <1>1, <1>4, <2>1, <3>1, InvokeStatus DEF Types, BusOffNow
    <3>2. CASE ~BusOffNow
      <4>1. UNCHANGED recovering
          BY <1>1, <1>4, <3>2, InvokeStatus DEF Types
      <4>2. CASE "status" \in flags
          BY <1>1, <1>4, <2>1, <3>2, <4>1, <4>2, InvokeStatus DEF Types, ErrorsInv
      <4>3. CASE "status" \notin flags
          BY <1>1, <1>4, <2>1, <4>1, <4>3, InvokeStatus DEF Types, ErrorsInv
      <4> QED BY <4>2, <4>3
    <3> QED BY <3>1, <3>2
  <2>5. \A error \in owed' : Has(queue', error)
    <3>1. SUFFICES ASSUME NEW error \in owed'
                   PROVE  Has(queue', error)
        OBVIOUS
    <3>2. error \in RxErrors => Has(queue', error)
        BY <2>1, <2>3
    <3>3. CASE error \in owed
      <4>1. \/ Has(queue, error)
            \/ error = "messageLost" /\ "lost" \in flags
            \/ error = "busOff" /\ BusOffNow
          BY <1>1, <3>3 DEF ErrorsInv, BusOffNow
      <4>2. CASE error = "messageLost" /\ "lost" \in flags
        <5>1. error \in RxErrors
            BY <4>2 DEF RxErrors
        <5> QED BY <3>2, <5>1
      <4>3. CASE error = "busOff" /\ BusOffNow
        <5>1. error \in StatusErrors
            BY <1>1, <1>4, <4>3, InvokeStatus DEF Types
        <5> QED BY <2>1, <2>3, <5>1
      <4> QED BY <2>2, <4>1, <4>2, <4>3
    <3> QED BY <2>1, <3>2, <3>3
  <2> QED BY <2>3, <2>4, <2>5 DEF ErrorsInv
<1>5. CASE DispatchSendCompletion
  <2>1. \A e \in Errors : Has(queue, e) => Has(queue', e)
      BY <1>1, <1>5, TakeIs DEF DispatchSendCompletion, Types, Errors
  <2>2. UNCHANGED <<status, bus, running, pendingErrors, flags, owed>>
      BY <1>5 DEF DispatchSendCompletion
  <2> QED BY <1>1, <2>1, <2>2 DEF status, bus, Types, EventTypes, ErrorsInv
<1>6. CASE DispatchError
  <2>1. /\ running' = Head(queue) /\ pendingErrors' = pendingErrors \ {Head(queue)}
        /\ owed' = owed \ {Head(queue)} /\ UNCHANGED <<status, bus, flags>>
      BY <1>6 DEF DispatchError
  <2>2. \A e : Has(queue, e) <=> Head(queue) = e \/ Has(queue', e)
      BY <1>1, <1>6, TakeIs DEF DispatchError, Types
  <2> QED BY <1>1, <2>1, <2>2 DEF status, bus, ErrorsInv
<1>7. CASE OnError
    BY <1>1, <1>7 DEF OnError, status, bus, ErrorsInv
<1>8. CASE DispatchReceived
  <2>1. \A e \in Errors : Has(queue, e) => Has(queue', e)
      BY <1>1, <1>8, TakeIs DEF DispatchReceived, Types, Errors
  <2>2. UNCHANGED <<status, bus, pendingErrors, flags, owed>>
      BY <1>8 DEF DispatchReceived
  <2> QED BY <1>1, <2>1, <2>2 DEF status, bus, Types, EventTypes, ErrorsInv
<1>9. CASE ProcessRxBuffer
    BY <1>1, <1>9 DEF ProcessRxBuffer, status, bus, ErrorsInv
<1>10. CASE Transmit
    BY <1>1, <1>10 DEF Transmit, status, bus, dispatcher, ErrorsInv
<1>11. CASE Arrive
  <2>1. /\ \/ flags' = flags \union {"rx"} /\ UNCHANGED owed
           \/ flags' = flags \union {"lost"} /\ owed' = owed \union {"messageLost"}
        /\ UNCHANGED <<status, bus, dispatcher>>
      BY <1>11 DEF Arrive
  <2> QED BY <1>1, <2>1 DEF status, bus, dispatcher, ErrorsInv
<1>12. CASE BusError
  <2>1. /\ level' \in {level} \union Above(level)
        /\ level' = "off" /\ level # "off" => ~busOff
        /\ flags' = IF protocolErrors \/ level' # level THEN flags \union {"status"} ELSE flags
        /\ owed' = IF level' = "off" /\ level # "off" THEN owed \union {"busOff"} ELSE owed
        /\ UNCHANGED <<busOff, recovering, dispatcher>>
      BY <1>12 DEF BusError
  <2>2. level = "off" => level' = "off"
      BY <2>1, AboveIs
  <2>3. CASE level' = "off" /\ level # "off"
      BY <1>1, <2>1, <2>2, <2>3 DEF dispatcher, ErrorsInv
  <2>4. CASE ~(level' = "off" /\ level # "off")
      BY <1>1, <2>1, <2>2, <2>4 DEF dispatcher, ErrorsInv
  <2> QED BY <2>3, <2>4
<1>13. CASE BusRecovers
  <2>1. flags' = flags \union {"status"} /\ UNCHANGED <<busOff, dispatcher, owed>>
      BY <1>13 DEF BusRecovers
  <2>2. \/ level # "off" /\ UNCHANGED recovering
        \/ recovering /\ level = "off" /\ ~recovering'
      BY <1>13 DEF BusRecovers
  <2> QED BY <1>1, <2>1, <2>2 DEF dispatcher, ErrorsInv
<1>14. CASE UNCHANGED vars
    BY <1>1, <1>14 DEF vars, status, bus, dispatcher, ErrorsInv
<1> QED BY <1>2, <1>3, <1>4, <1>5, <1>6, <1>7, <1>8, <1>9, <1>10, <1>11, <1>12, <1>13, <1>14
           DEF Next, Dispatch

(* The initial states. *)
LEMMA InitInv ==
    ASSUME Init
    PROVE  Inv
<1>1. \A S : <<>> \in Seq(S) /\ Len(<<>>) = 0
    OBVIOUS
<1>2. TxFifoSize \in Nat /\ RxFifoSize \in Nat /\ RxQueueSize \in Nat /\ MaxSends \in Nat /\ MaxFrames \in Nat
    BY SizesAssumption, BoundsAssumption
<1>3. FlagTypes
    BY DEF Init, FlagTypes
<1>4. SendTypes
    BY <1>1, <1>2 DEF Init, SendTypes, Frames
<1>5. FrameTypes
    BY <1>1, <1>2 DEF Init, FrameTypes
<1>6. EventTypes
    BY <1>1 DEF Init, EventTypes
<1>7. SendInv
    BY HasNothing DEF Init, SendInv, Once, Frames
<1>8. OwnInv
    BY DEF Init, OwnInv, Frames
<1>9. FramesInv
    BY <1>2, HasNothing DEF Init, FramesInv, Ascends, Precedes
<1>10. ErrorsInv
    BY DEF Init, ErrorsInv
<1> QED BY <1>3, <1>4, <1>5, <1>6, <1>7, <1>8, <1>9, <1>10 DEF Inv, Types

-----------------------------------------------------------------------------
(* The theorems. *)

(* The invariant holds in every reachable state. *)
THEOREM Invariant == Spec => []Inv
<1>1. Init => Inv
    BY InitInv
<1>2. Inv /\ [Next]_vars => Inv'
    BY TypesStep, SendStep, OwnStep, FramesStep, ErrorsStep DEF Inv
<1> QED BY <1>1, <1>2, PTL DEF Spec

(* The variables keep their types, and no FIFO or queue holds more than it *)
(* has room for.                                                           *)
THEOREM TypeCorrect == Spec => []TypeOK
<1>1. Inv => TypeOK
  <2>1. SUFFICES ASSUME Inv
                 PROVE  TypeOK
      OBVIOUS
  <2>2. FlagTypes /\ SendTypes /\ FrameTypes /\ EventTypes /\ onSendComplete = sent
      BY <2>1 DEF Inv, Types, SendInv
  <2>3. {sending, adding, started, notified, previousWarning, previousPassive, busOff,
        autoBusOffRecovery,
         lastErrorCode, protocolErrors, recovering, raced} \subseteq BOOLEAN
      BY <2>2, Zenon DEF FlagTypes
  <2>4. {pendingErrors, owed} \subseteq SUBSET Errors
      BY <2>2, Zenon DEF EventTypes
  <2> QED BY <2>2, <2>3, <2>4 DEF SendTypes, FrameTypes, EventTypes, Entries, TypeOK
<1> QED BY <1>1, Invariant, PTL

(* What the application is told of a frame is what became of it, and the   *)
(* assertions of SendData and QueueSendCompletion hold.                    *)
THEOREM OutcomesOwn == Spec => []OutcomeIsOwn
<1>1. Inv => OutcomeIsOwn
  <2>1. SUFFICES ASSUME Inv
                 PROVE  OutcomeIsOwn
      OBVIOUS
  <2>2. Types /\ SendInv /\ OwnInv
      BY <2>1 DEF Inv
  <2>3. ~adding /\ ~Unanswered => ~sending
      BY <2>2 DEF Types, SendTypes, SendInv, Unanswered
  <2>4. Len(sendCompletions) <= 2
    <3>1. CASE sendCompletions = <<>>
        BY <3>1
    <3>2. CASE sendCompletions # <<>>
      <4>1. PICK success \in BOOLEAN : sendCompletions = <<[frame |-> sent, success |-> success]>>
          BY <2>2, <3>2 DEF SendInv
      <4> QED BY <4>1
    <3> QED BY <3>1, <3>2
  <2>5. ASSUME ~raced, NEW frame \in Frames, outcome[frame] = "failed"
        PROVE  \A i \in DOMAIN txFifo : txFifo[i] # frame
    <3>1. CASE txFifo = <<>>
        BY <3>1
    <3>2. CASE txFifo # <<>>
      <4>1. txFifo = <<sent>> /\ outcome[sent] = "none"
          BY <2>2, <2>5, <3>2 DEF OwnInv, SendInv
      <4> QED BY <2>5, <4>1
    <3> QED BY <3>1, <3>2
  <2> QED BY <2>2, <2>3, <2>4, <2>5 DEF OwnInv, OutcomeIsOwn
<1> QED BY <1>1, Invariant, PTL

(* Frames reach the application once and in order, and no frame is         *)
(* forgotten on its way; nor is a loss or a bus-off, for which a call of   *)
(* onError is to begin also when it came during the call for one before.   *)
THEOREM NothingIsForgotten == Spec => []NothingForgotten
<1>1. Inv => NothingForgotten
  <2>1. SUFFICES ASSUME Inv
                 PROVE  NothingForgotten
      OBVIOUS
  <2>2. Types /\ FramesInv /\ ErrorsInv
      BY <2>1 DEF Inv
  <2>3. /\ rxFifo \in Seq(1 .. MaxFrames) /\ rxQueue \in Seq(1 .. MaxFrames) /\ delivered \in Seq(1 .. MaxFrames)
        /\ arrived \in 0 .. MaxFrames /\ MaxFrames \in Nat
      BY <2>2, BoundsAssumption DEF Types, FrameTypes
  <2> DEFINE first == delivered \o rxQueue
  <2>4. first \in Seq(1 .. MaxFrames) /\ Received = first \o rxFifo
      BY <2>3, ConcatProperties DEF Received
  <2>5. Ascends(first) /\ \A e : Has(first, e) <=> Has(delivered, e) \/ Has(rxQueue, e)
      BY <2>2, <2>3, AscendsConcat, HasConcat DEF FramesInv
  <2> HIDE DEF first
  <2>6. Precedes(first, rxFifo)
      BY <2>2, <2>5, PrecedesIs DEF FramesInv
  <2>7. /\ Ascends(Received) /\ Received \in Seq(1 .. MaxFrames)
        /\ \A e : Has(Received, e) <=> Has(first, e) \/ Has(rxFifo, e)
      BY <2>2, <2>3, <2>4, <2>5, <2>6, AscendsConcat, HasConcat, ConcatProperties DEF FramesInv
  <2>8. {Received[i] : i \in DOMAIN Received} = (1 .. arrived) \ lost
    <3>1. \A e : e \in {Received[i] : i \in DOMAIN Received} <=> Has(Received, e)
        BY DEF Has
    <3>2. \A e : Has(Received, e) => e \in 1 .. MaxFrames
        BY <2>7, HasInRange
    <3>3. \A e \in 1 .. MaxFrames : Has(Received, e) <=> e <= arrived /\ e \notin lost
        BY <2>2, <2>5, <2>7 DEF FramesInv
    <3>4. \A e : e \in 1 .. arrived <=> e \in 1 .. MaxFrames /\ e <= arrived
        BY <2>3
    <3> QED BY <3>1, <3>2, <3>3, <3>4
  <2>9. FramesUnderway
    <3>1. rxQueue # <<>> => running = "rx" \/ \E i \in DOMAIN queue : queue[i] = "rx"
        BY <2>2 DEF FramesInv, Has
    <3> QED BY <2>2, <2>7, <2>8, <3>1 DEF FramesInv, FramesUnderway, Ascends
  <2>10. ErrorsUnderway
      BY <2>2 DEF ErrorsInv, ErrorsUnderway, Has
  <2> QED BY <2>9, <2>10 DEF NothingForgotten
<1> QED BY <1>1, Invariant, PTL
=============================================================================

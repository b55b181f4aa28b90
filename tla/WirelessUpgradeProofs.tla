------------------------ MODULE WirelessUpgradeProofs ------------------------
(***************************************************************************)
(* Wherever power is lost, the upgrade of the wireless stack goes on from  *)
(* what was done, and tells the application the truth, for every number of *)
(* polls, of error codes, of records that fit and of losses of power; and  *)
(* the bytes of the image reach the flash (WirelessImage, at the end).     *)
(***************************************************************************)
EXTENDS WirelessUpgrade, WirelessImage, SequenceTheorems, TLAPS

WirelessStack == "wirelessStack"
FUS == "firmwareUpgradeServices"

(* The last record of the journal: its step is "none" when there is none.  *)
Length == Len(journal)
Last == IF journal = <<>> THEN NoRecord ELSE journal[Len(journal)]
LastStep == Last.step
Repeated == Len(journal) > 1 /\ journal[Len(journal)].step = journal[Len(journal) - 1].step

InstallSteps == {"installRequested", "upgradeIssued", "wirelessStackStartIssued",
                 "wirelessStackStartRetried"}
RequestSteps == {"deleteRequested", "installRequested"}
IssueSteps == {"deleteIssued", "upgradeIssued"}
StartSteps == {"wirelessStackStartIssued", "wirelessStackStartRetried"}

(* FUS did install the image of the procedure, or failed without a code.   *)
Installed ==
    \/ IF target = WirelessStack THEN stack = "new" ELSE fus = "new"
    \/ codeless

OpTypes == op.kind = "append" => op.record \in Record

(* How long the journal is at each step, and what was given by then.  The  *)
(* image of an install is complete until FUS was asked to install it.      *)
JournalInv ==
    /\ LastStep = "none" => Length = 0
    /\ LastStep \in RequestSteps => Length \in 1 .. 2 /\ (Length = 2 => Repeated)
    /\ LastStep \in IssueSteps => Length <= 3
    /\ LastStep = "wirelessStackStartIssued" => Length <= 4
    /\ LastStep = "wirelessStackStartRetried" => Length <= 5
    /\ LastStep \in InstallSteps => Last.image = target
    /\ LastStep \in {"installRequested", "upgradeIssued"} => area = target
    /\ LastStep \in StartSteps /\ Last.value = noError => Installed

CommandInv ==
    /\ commands["delete"] <= 1 /\ commands["upgrade"] <= 1
    /\ commands["start"] <= 2 /\ commands["reset"] <= 1
    /\ LastStep \in RequestSteps =>
         /\ commands["delete"] = 0 /\ commands["upgrade"] = 0
         /\ Length = 1 => commands["reset"] = 0
    /\ LastStep \in RequestSteps \union IssueSteps => commands["start"] = 0
    /\ LastStep = "wirelessStackStartIssued" => commands["start"] <= 1

(* What CPU1 knows of the journal since it read it: nothing after a reset. *)
ReadInv ==
    /\ ~resumed => op = NoOp /\ polling = "none" /\ resetTo = "none" /\ prepared = "no"
    /\ resumed => runningFirmware = cpu2
    /\ resumed /\ op.kind # "eraseJournal" =>
         /\ ~torn
         /\ nextRecord = Length + (IF op.kind = "append" THEN 2 ELSE 1)
         /\ LastStep # "none" => image = Last.image
    /\ op.kind = "read" => lastRecord = Last /\ (lastStepRepeated <=> Repeated)
    /\ op.kind = "eraseJournal" => lastRecord = NoRecord /\ nextRecord = 1

(* The flash operation under way, and what the journal says meanwhile.     *)
AppendInv ==
    op.kind = "append" =>
        /\ op.record.image = image /\ op.record.value = op.value /\ outcome # "installed"
        /\ LastStep # "none" => cpu2 = FUS
        /\ \/ /\ op.then = "deleteRequested" /\ op.record.step = "deleteRequested"
              /\ LastStep = "none" /\ commands = NoCommands /\ prepared = "no"
           \/ /\ op.then = "installRequested" /\ op.record.step = "installRequested"
              /\ LastStep = "none" /\ commands = NoCommands
              /\ image = target /\ area = target
           \/ /\ op.then = "resetDevice" /\ op.record.step = LastStep
              /\ LastStep \in RequestSteps /\ Length = 1
           \/ op.then = "deleteIssued" /\ op.record.step = "deleteIssued"
                /\ LastStep = "deleteRequested"
           \/ op.then = "upgradeIssued" /\ op.record.step = "upgradeIssued"
                /\ LastStep = "installRequested"
           \/ /\ op.then = "startIssued"
              /\ \/ op.record.step = "wirelessStackStartIssued" /\ LastStep = "upgradeIssued"
                 \/ op.record.step = "wirelessStackStartRetried"
                      /\ LastStep = "wirelessStackStartIssued"
              /\ op.value = noError => Installed

EraseInv ==
    op.kind = "eraseJournal" =>
        \/ op.then \in {"journalRead", "deleteFailed", "installUnconfirmed"}
        \/ /\ op.then \in {"started", "notStarted"}
           /\ image = target /\ (op.value = noError => Installed)
        \/ op.then = "erasePages" /\ prepared = "no"
        \/ /\ op.then = "appendDeleteRequested" /\ prepared = "no"
           /\ commands = NoCommands /\ outcome = "none"

OpInv ==
    /\ op.kind \in {"append", "eraseJournal", "erasePages", "writeImage"} =>
         polling = "none" /\ resetTo = "none" /\ fusJob = "none"
    /\ op.kind = "none" => op = NoOp
    /\ op.kind = "read" => op.then = "journalRead" /\ polling = "none" /\ resetTo = "none"
    /\ op.kind = "erasePages" => op.then = "prepared" /\ LastStep = "none" /\ prepared = "no"
    /\ op.kind = "writeImage" =>
         /\ LastStep = "none"
         /\ \/ op.then = "written" /\ prepared = "prepared"
            \/ /\ op.then = "installTail" /\ image = target
               /\ commands = NoCommands /\ outcome = "none"

(* What CPU1 waits for when no flash operation is under way. *)
WaitInv ==
    /\ resetTo # "none" => op = NoOp /\ polling = "none" /\ fusJob = "none"
    /\ resetTo = "firmwareUpgradeServices" => LastStep \in RequestSteps
    /\ polling # "none" =>
         /\ op = NoOp /\ resetTo = "none" /\ cpu2 = FUS
         /\ LastStep = IF polling = "DeleteDone" THEN "deleteIssued" ELSE "upgradeIssued"
    /\ polling = "UpgradeDone" /\ busySeen /\ fusJob = "none" /\ fusState # "error" => Installed
    /\ resumed /\ op = NoOp /\ polling = "none" /\ resetTo = "none" =>
         LastStep \in {"none", "deleteIssued"}

(* FUS works while CPU1 polls it, or a reset has come between.  One that   *)
(* never ran is reset before it is given a command.                        *)
FusInv ==
    /\ fusState = "busy" => fusJob # "none"
    /\ fusState = "error" => fusJob = "none" /\ (fusError = noError => codeless)
    /\ fusJob # "none" =>
         /\ cpu2 = FUS /\ ~torn /\ resetTo = "none"
         /\ LastStep = IF fusJob = "delete" THEN "deleteIssued" ELSE "upgradeIssued"
         /\ resumed => op.kind = "read" \/ polling # "none"
    /\ fusFresh => stack # "none" /\ LastStep \in RequestSteps \union {"none"} /\ Length <= 1
    /\ fusFresh /\ cpu2 = FUS =>
         /\ LastStep \in RequestSteps /\ ~torn
         /\ resumed => op.kind = "read" \/ op.then = "resetDevice"

(* The image the application has given.                                    *)
PreparedInv ==
    /\ LastStep \in {"deleteRequested", "deleteIssued"} => prepared = "no"
    /\ prepared = "written" /\ op.then # "installTail" => area = image

OutcomeInv ==
    outcome = "installed" => LastStep = "none" /\ Installed

Inv ==
    /\ TypeOK /\ OpTypes /\ JournalInv /\ CommandInv /\ ReadInv /\ AppendInv /\ EraseInv
    /\ OpInv /\ WaitInv /\ FusInv /\ PreparedInv /\ OutcomeInv

-----------------------------------------------------------------------------
(* The journal, and the completion of a flash operation. *)

(* What the last record is. *)
LEMMA LastTypes ==
    ASSUME TypeOK
    PROVE  /\ Length \in Nat /\ Last \in Record \union {NoRecord}
           /\ LastStep \in Step \union {"none"}
           /\ LastStep = "none" <=> journal = <<>>
           /\ LastStep = "none" <=> Last = NoRecord
           /\ LastStep # "none" => Last \in Record /\ Length > 0
<1>1. journal \in Seq(Record)
    BY DEF TypeOK
<1>2. CASE journal = <<>>
    BY <1>1, <1>2 DEF Length, Last, LastStep, NoRecord
<1>3. CASE journal # <<>>
  <2>1. Len(journal) \in 1 .. Len(journal) /\ Len(journal) \in Nat /\ Len(journal) > 0
      BY <1>1, <1>3
  <2>2. Last \in Record
      BY <1>1, <1>3, <2>1 DEF Last
  <2>3. LastStep \in Step /\ LastStep # "none"
      BY <2>2 DEF LastStep, Record, Step
  <2> QED BY <1>3, <2>1, <2>2, <2>3 DEF Length, NoRecord, LastStep
<1> QED BY <1>2, <1>3

(* A journal that is left alone, erased, or has a record appended.         *)
LEMMA JournalKept ==
    ASSUME journal' = journal
    PROVE  UNCHANGED <<Length, Last, LastStep, Repeated>>
BY DEF Length, Last, LastStep, Repeated

(* An erased journal has no last record.                                   *)
LEMMA JournalErased ==
    ASSUME journal' = <<>>
    PROVE  Length' = 0 /\ Last' = NoRecord /\ LastStep' = "none"
<1>1. Len(<<>>) = 0
    OBVIOUS
<1> QED BY <1>1 DEF Length, Last, LastStep, NoRecord

(* The record appended is the last one, and it is repeated if the one      *)
(* before had its step.                                                    *)
LEMMA JournalAppended ==
    ASSUME TypeOK, NEW record \in Record, journal' = Append(journal, record)
    PROVE  /\ Length' = Length + 1 /\ Last' = record /\ LastStep' = record.step
           /\ Repeated' <=> LastStep = record.step
<1>1. journal \in Seq(Record)
    BY DEF TypeOK
<1>2. /\ Len(journal') = Len(journal) + 1 /\ journal'[Len(journal) + 1] = record
      /\ \A i \in 1 .. Len(journal) : journal'[i] = journal[i]
      /\ journal' # <<>> /\ Len(journal) \in Nat
    BY <1>1
<1>3. Length' = Length + 1 /\ Last' = record /\ LastStep' = record.step
    BY <1>2 DEF Length, Last, LastStep
<1>4. CASE journal = <<>>
  <2>1. Len(journal) = 0 /\ LastStep = "none"
      BY <1>1, <1>4 DEF LastStep, Last, NoRecord
  <2>2. record.step # "none"
      BY DEF Record, Step
  <2> QED BY <1>2, <1>3, <2>1, <2>2 DEF Repeated
<1>5. CASE journal # <<>>
  <2>1. Len(journal) \in 1 .. Len(journal) /\ Len(journal) > 0
      BY <1>1, <1>5
  <2>2. Len(journal') - 1 = Len(journal) /\ Len(journal') > 1
      BY <1>2, <2>1
  <2>3. journal'[Len(journal') - 1].step = LastStep
      BY <1>2, <1>5, <2>1, <2>2 DEF LastStep, Last
  <2>4. journal'[Len(journal')].step = record.step /\ Repeated' \in BOOLEAN
      BY <1>2 DEF Repeated
  <2>5. Repeated' <=> journal'[Len(journal')].step = journal'[Len(journal') - 1].step
      BY <2>2 DEF Repeated
  <2>6. Repeated' <=> LastStep = record.step
      BY <2>3, <2>4, <2>5
  <2> QED BY <1>3, <2>6
<1> QED BY <1>3, <1>4, <1>5

Kept == UNCHANGED <<Length, Last, LastStep, Repeated>>
Erased == Length' = 0 /\ Last' = NoRecord /\ LastStep' = "none"
Appended ==
    /\ Length' = Length + 1 /\ Last' = op.record /\ LastStep' = op.record.step
    /\ Repeated' <=> LastStep = op.record.step
    /\ op.record \in Record

AppendThens == {"deleteRequested", "installRequested", "resetDevice", "deleteIssued",
                "upgradeIssued", "startIssued"}
EraseThens == {"deleteFailed", "installUnconfirmed", "started", "notStarted", "erasePages",
               "appendDeleteRequested"}
ImageThens == {"prepared", "written", "installTail"}

(* What a completed flash operation was, and did. *)
LEMMA CompletedIs ==
    ASSUME Inv, NEW then, Completed(then)
    PROVE  /\ op.then = then /\ resumed /\ polling = "none" /\ resetTo = "none"
           /\ then \in AppendThens => op.kind = "append" /\ torn' = torn /\ Appended
           /\ then \in EraseThens => op.kind = "eraseJournal" /\ torn' = FALSE /\ Erased
           /\ then \in ImageThens
                  => op.kind \in {"erasePages", "writeImage"} /\ torn' = torn /\ Kept
           /\ then = "journalRead" => \/ op.kind = "read" /\ torn' = torn /\ Kept
                                      \/ op.kind = "eraseJournal" /\ torn' = FALSE /\ Erased
<1>1. /\ op.kind # "none" /\ op.then = then
      /\ journal' = IF op.kind = "append" THEN Append(journal, op.record)
                    ELSE IF op.kind = "eraseJournal" THEN <<>> ELSE journal
      /\ torn' = (torn /\ op.kind # "eraseJournal")
    BY DEF Completed
<1>2. /\ op.kind \in {"read", "append", "eraseJournal", "erasePages", "writeImage"}
      /\ torn \in BOOLEAN
      /\ TypeOK /\ OpTypes
    BY <1>1 DEF Inv, TypeOK
<1>3. resumed /\ polling = "none" /\ resetTo = "none"
  <2>1. op # NoOp
      BY <1>1 DEF NoOp
  <2> QED BY <1>1, <1>2, <2>1 DEF Inv, OpInv, ReadInv
<1>4. CASE op.kind = "append"
  <2>1. Appended /\ torn' = torn
      BY <1>1, <1>2, <1>4, JournalAppended DEF Appended, OpTypes
  <2>2. then \in AppendThens
      BY <1>1, <1>4 DEF Inv, AppendInv, AppendThens
  <2> QED BY <1>1, <1>3, <1>4, <2>1, <2>2 DEF AppendThens, EraseThens, ImageThens
<1>5. CASE op.kind = "eraseJournal"
  <2>1. Erased /\ torn' = FALSE
      BY <1>1, <1>5, JournalErased DEF Erased
  <2>2. then \in EraseThens \union {"journalRead"}
      BY <1>1, <1>5 DEF Inv, EraseInv, EraseThens
  <2> QED BY <1>1, <1>3, <1>5, <2>1, <2>2 DEF AppendThens, EraseThens, ImageThens
<1>6. CASE op.kind \in {"read", "erasePages", "writeImage"}
  <2>1. Kept /\ torn' = torn
      BY <1>1, <1>2, <1>6, JournalKept DEF Kept
  <2>2. IF op.kind = "read" THEN then = "journalRead" ELSE then \in ImageThens
      BY <1>1, <1>6 DEF Inv, OpInv, ImageThens
  <2> QED BY <1>1, <1>3, <1>6, <2>1, <2>2 DEF AppendThens, EraseThens, ImageThens
<1> QED BY <1>2, <1>4, <1>5, <1>6

-----------------------------------------------------------------------------
(* Every variable keeps its type. *)

FlashTypes == journal \in Seq(Record) /\ torn \in BOOLEAN /\ area \in Image \union {"other"}

ServiceTypes ==
    /\ cpu2 \in Firmware
    /\ stack \in {"old", "new", "none"} /\ fus \in {"old", "new"}
    /\ fusJob \in {"none", "delete", "upgrade"}
    /\ fusState \in {"idle", "busy", "error"} /\ fusError \in 0 .. 255 /\ fusFresh \in BOOLEAN
    /\ resetTo \in Firmware \union {"none"}
    /\ resumed \in BOOLEAN /\ runningFirmware \in Firmware /\ image \in Image

ReadTypes ==
    /\ lastRecord \in Record \union {NoRecord} /\ lastStepRepeated \in BOOLEAN
    /\ nextRecord \in Nat \ {0}

OperationTypes ==
    /\ op \in [kind : {"none", "read", "append", "eraseJournal", "erasePages", "writeImage"},
               then : Continuations, value : Value, record : Record \union {NoRecord}]
    /\ op.kind = "append" => op.record \in Record

PollTypes ==
    polling \in {"none", "DeleteDone", "UpgradeDone"} /\ busySeen \in BOOLEAN /\ idlePolls \in Nat

AskedTypes ==
    /\ prepared \in {"no", "prepared", "written", "tail"}
    /\ procedure \in {"none", "delete", "install"} /\ target \in Image
    /\ outcome \in Result \union {"none"}
    /\ codeless \in BOOLEAN

CountTypes ==
    /\ commands \in [{"delete", "upgrade", "start", "reset"} -> Nat] /\ interruptions \in Nat

Types ==
    /\ FlashTypes /\ ServiceTypes /\ ReadTypes /\ OperationTypes /\ PollTypes /\ AskedTypes /\ CountTypes

(* The types by what they are about.                                       *)
LEMMA TypesAre == TypeOK /\ OpTypes <=> Types
BY DEF TypeOK, OpTypes, Types, FlashTypes, ServiceTypes, ReadTypes, OperationTypes, PollTypes,
       AskedTypes,
       CountTypes

(* What a flash operation that is started leaves. *)
LEMMA StartedTypes ==
    ASSUME ReadTypes, image \in Image, NEW then \in Continuations, NEW value \in Value
    PROVE  /\ EraseJournal(then, value) => ReadTypes' /\ OperationTypes'
           /\ \A step \in Step :
                AppendRecord(step, value, then) => ReadTypes' /\ OperationTypes'
           /\ \A kind \in {"erasePages", "writeImage"} : ImageOp(kind, then) => OperationTypes'
           /\ op' = NoOp => OperationTypes'
           /\ KeepRead => ReadTypes'
<1>1. noError \in Value
    BY DEF noError, Value, ImageAddress
<1>2. ASSUME EraseJournal(then, value)
      PROVE  ReadTypes' /\ OperationTypes'
  <2>1. /\ lastRecord' = NoRecord /\ lastStepRepeated' = FALSE /\ nextRecord' = 1
        /\ op' = [kind |-> "eraseJournal", then |-> then, value |-> value, record |-> NoRecord]
      BY <1>2 DEF EraseJournal, FirstRecord
  <2>2. ReadTypes'
    <3>1. lastStepRepeated' \in BOOLEAN
        BY <2>1
    <3>2. nextRecord' \in Nat \ {0}
        BY <2>1
    <3> QED BY <2>1, <3>1, <3>2 DEF ReadTypes
  <2>3. OperationTypes'
      BY <2>1 DEF OperationTypes
  <2> QED BY <2>2, <2>3
<1>3. ASSUME NEW step \in Step, AppendRecord(step, value, then)
      PROVE  ReadTypes' /\ OperationTypes'
  <2>1. [step |-> step, image |-> image, value |-> value] \in Record
      BY DEF Record
  <2>2. /\ lastRecord' = [step |-> step, image |-> image, value |-> value]
        /\ nextRecord' = nextRecord + 1
        /\ op' = [kind |-> "append", then |-> then, value |-> value,
                  record |-> [step |-> step, image |-> image, value |-> value]]
        /\ UNCHANGED lastStepRepeated
      BY <1>3 DEF AppendRecord
  <2>3. ReadTypes'
      BY <2>1, <2>2 DEF ReadTypes
  <2>4. OperationTypes'
      BY <2>1, <2>2 DEF OperationTypes
  <2> QED BY <2>3, <2>4
<1>4. ASSUME NEW kind \in {"erasePages", "writeImage"}, ImageOp(kind, then)
      PROVE  OperationTypes'
    BY <1>1, <1>4 DEF ImageOp, OperationTypes
<1>5. ASSUME op' = NoOp
      PROVE  OperationTypes'
    BY <1>1, <1>5 DEF NoOp, OperationTypes, Continuations
<1>6. KeepRead => ReadTypes'
    BY DEF KeepRead, ReadTypes
<1> QED BY <1>2, <1>3, <1>4, <1>5, <1>6

(* The values that outcomes and records are made of. *)
LEMMA Values ==
    ASSUME Types
    PROVE  /\ {noError, unknownError, installUnconfirmed, ImageAddress, 0} \subseteq Value
           /\ GetStatus.errorCode \in 0 .. 255 /\ GetStatus.errorCode \in Value
           /\ UpgradeResult(GetStatus) \in Value
           /\ lastRecord.value \in Value /\ op.value \in Value
<1>1. /\ 0 \in Value /\ 255 \in Value /\ 256 \in Value /\ 512 \in Value
      /\ (\A n \in 0 .. 255 : n \in Value)
    BY DEF Value, ImageAddress
<1>2. fusError \in 0 .. 255
    BY DEF Types, ServiceTypes
<1>3. GetStatus.errorCode \in 0 .. 255
    BY <1>2 DEF GetStatus, noError
<1>4. UpgradeResult(GetStatus) \in Value
    BY <1>1, <1>3 DEF UpgradeResult, noError, installUnconfirmed
<1>5. lastRecord.value \in Value
    BY <1>1 DEF Types, ReadTypes, NoRecord, Record, noError
<1>6. op.value \in Value
    BY DEF Types, OperationTypes
<1> QED BY <1>1, <1>3, <1>4, <1>5, <1>6 DEF noError, unknownError, installUnconfirmed, ImageAddress

(* A completed operation leaves a journal of records.                      *)
LEMMA CompletedTypes ==
    ASSUME Types, NEW then, Completed(then)
    PROVE  journal' \in Seq(Record) /\ torn' \in BOOLEAN
<1>1. journal' = IF op.kind = "append" THEN Append(journal, op.record)
                 ELSE IF op.kind = "eraseJournal" THEN <<>> ELSE journal
    BY DEF Completed
<1>2. journal \in Seq(Record) /\ (op.kind = "append" => op.record \in Record)
    BY DEF Types, FlashTypes, OperationTypes
<1>3. journal' \in Seq(Record)
    BY <1>1, <1>2
<1>4. torn' \in BOOLEAN
    BY DEF Completed
<1> QED BY <1>3, <1>4

(* A reset leaves what CPU1 held as it is at the start. *)
LEMMA ResetTypes ==
    ASSUME Types, NEW firmware \in Firmware, Reboot(firmware), stack' \in {"old", "new", "none"}
    PROVE  /\ ReadTypes' /\ OperationTypes' /\ PollTypes'
           /\ cpu2' \in Firmware /\ fusFresh' \in BOOLEAN /\ resetTo' \in Firmware \union {"none"}
           /\ resumed' \in BOOLEAN /\ runningFirmware' \in Firmware /\ image' \in Image
           /\ prepared' \in {"no", "prepared", "written", "tail"}
<1>1. /\ lastRecord' = NoRecord /\ lastStepRepeated' = FALSE /\ nextRecord' = 1 /\ op' = NoOp
      /\ polling' = "none" /\ busySeen' = FALSE /\ idlePolls' = 0
    BY DEF Reboot
<1>2. ReadTypes'
  <2>1. lastStepRepeated' \in BOOLEAN
      BY <1>1
  <2>2. nextRecord' \in Nat \ {0}
      BY <1>1
  <2> QED BY <1>1, <2>1, <2>2 DEF ReadTypes
<1>3. OperationTypes'
    BY <1>1 DEF NoOp, OperationTypes, Continuations, Value, noError, ImageAddress
<1>4. PollTypes'
  <2>1. busySeen' \in BOOLEAN /\ idlePolls' \in Nat
      BY <1>1
  <2> QED BY <1>1, <2>1 DEF PollTypes
<1>5. fusFresh' \in BOOLEAN /\ resumed' \in BOOLEAN
    BY DEF Reboot
<1>6. cpu2' \in Firmware /\ runningFirmware' \in Firmware /\ image' \in Image
    BY DEF Reboot, Firmware, Image
<1>7. resetTo' \in Firmware \union {"none"} /\ prepared' \in {"no", "prepared", "written", "tail"}
    BY DEF Reboot
<1> QED BY <1>2, <1>3, <1>4, <1>5, <1>6, <1>7

(* An operation that is cut short leaves a flash of the right type.        *)
LEMMA CutShortTypes ==
    ASSUME Types, CutShort
    PROVE  FlashTypes'
<1>1. /\ journal \in Seq(Record) /\ torn \in BOOLEAN /\ area \in Image \union {"other"}
      /\ image \in Image
    BY DEF Types, FlashTypes, ServiceTypes
<1>2. op.kind = "append" => op.record \in Record
    BY DEF Types, OperationTypes
<1>3. journal' \in Seq(Record)
  <2>1. \/ journal' = journal \/ journal' = <<>>
        \/ op.kind = "append" /\ journal' = Append(journal, op.record)
      BY DEF CutShort
  <2>2. <<>> \in Seq(Record) /\ (op.record \in Record => Append(journal, op.record) \in Seq(Record))
      BY <1>1
  <2> QED BY <1>1, <1>2, <2>1, <2>2
<1>4. torn' \in BOOLEAN
  <2>1. torn' = torn \/ torn' = TRUE \/ torn' = FALSE
      BY DEF CutShort
  <2> QED BY <1>1, <2>1
<1>5. area' \in Image \union {"other"}
    BY <1>1 DEF CutShort
<1> QED BY <1>3, <1>4, <1>5 DEF FlashTypes

(* FUS after a reset is in one of its states.                              *)
LEMMA FusAfterResetTypes ==
    ASSUME Types, NEW job \in {"none", "delete", "upgrade"}, FusAfterReset(job)
    PROVE  /\ fusJob' \in {"none", "delete", "upgrade"} /\ fusState' \in {"idle", "busy", "error"}
           /\ fusError' \in 0 .. 255
BY DEF FusAfterReset, Types, ServiceTypes, noError

(* The flash. *)
LEMMA FlashTypesStep ==
    ASSUME Types, [Next]_vars
    PROVE  FlashTypes'
<1>a. FlashTypes /\ ServiceTypes
    BY DEF Types
<1>1. CASE Resume
    BY <1>1, <1>a DEF Resume, flash, services, held, read, poll, asked, vars, FlashTypes
<1>2. CASE JournalRead
  <2>1. \E then : Completed(then)
      BY <1>2 DEF JournalRead
  <2>2. area' \in Image \union {"other"}
      BY <1>2, <1>a DEF JournalRead, FlashTypes, ServiceTypes
  <2> QED BY <2>1, <2>2, CompletedTypes DEF FlashTypes
<1>3. CASE ReportWhenErased
  <2>1. \E then : Completed(then)
      BY <1>3 DEF ReportWhenErased
  <2>2. area' \in Image \union {"other"}
      BY <1>3, <1>a DEF ReportWhenErased, FlashTypes, ServiceTypes
  <2> QED BY <2>1, <2>2, CompletedTypes DEF FlashTypes
<1>4. CASE DeleteJournalErased
  <2>1. \E then : Completed(then)
      BY <1>4 DEF DeleteJournalErased
  <2>2. area' \in Image \union {"other"}
      BY <1>4, <1>a DEF DeleteJournalErased, FlashTypes, ServiceTypes
  <2> QED BY <2>1, <2>2, CompletedTypes DEF FlashTypes
<1>5. CASE Requested
  <2>1. \E then : Completed(then)
      BY <1>5 DEF Requested
  <2>2. area' \in Image \union {"other"}
      BY <1>5, <1>a DEF Requested, FlashTypes, ServiceTypes
  <2> QED BY <2>1, <2>2, CompletedTypes DEF FlashTypes
<1>6. ASSUME NEW accepted \in BOOLEAN, DeleteIssued(accepted)
      PROVE  FlashTypes'
  <2>1. \E then : Completed(then)
      BY <1>6 DEF DeleteIssued
  <2>2. area' \in Image \union {"other"}
      BY <1>6, <1>a DEF DeleteIssued, FlashTypes, ServiceTypes
  <2> QED BY <2>1, <2>2, CompletedTypes DEF FlashTypes
<1>7. ASSUME NEW accepted \in BOOLEAN, UpgradeIssued(accepted)
      PROVE  FlashTypes'
  <2>1. \E then : Completed(then)
      BY <1>7 DEF UpgradeIssued
  <2>2. area' \in Image \union {"other"}
      BY <1>7, <1>a DEF UpgradeIssued, FlashTypes, ServiceTypes
  <2> QED BY <2>1, <2>2, CompletedTypes DEF FlashTypes
<1>8. ASSUME NEW accepted \in BOOLEAN, StartIssued(accepted)
      PROVE  FlashTypes'
  <2>1. \E then : Completed(then)
      BY <1>8 DEF StartIssued
  <2>2. area' \in Image \union {"other"}
      BY <1>8, <1>a DEF StartIssued, FlashTypes, ServiceTypes
  <2> QED BY <2>1, <2>2, CompletedTypes DEF FlashTypes
<1>9. CASE Poll
    BY <1>9, <1>a DEF Poll, DeleteDone, UpgradeDone, StartWirelessStack, Report, flash, services,
                      held, read, poll, asked, vars, FlashTypes
<1>10. CASE PrepareJournalErased
  <2>1. \E then : Completed(then)
      BY <1>10 DEF PrepareJournalErased
  <2>2. area' \in Image \union {"other"}
      BY <1>10, <1>a DEF PrepareJournalErased, FlashTypes, ServiceTypes
  <2> QED BY <2>1, <2>2, CompletedTypes DEF FlashTypes
<1>11. CASE PagesErased
  <2>1. \E then : Completed(then)
      BY <1>11 DEF PagesErased
  <2>2. area' \in Image \union {"other"}
      BY <1>11, <1>a DEF PagesErased, FlashTypes, ServiceTypes
  <2> QED BY <2>1, <2>2, CompletedTypes DEF FlashTypes
<1>12. CASE Written
  <2>1. \E then : Completed(then)
      BY <1>12 DEF Written
  <2>2. area' \in Image \union {"other"}
      BY <1>12, <1>a DEF Written, FlashTypes, ServiceTypes
  <2> QED BY <2>1, <2>2, CompletedTypes DEF FlashTypes
<1>13. CASE TailWritten
  <2>1. \E then : Completed(then)
      BY <1>13 DEF TailWritten
  <2>2. area' \in Image \union {"other"}
      BY <1>13, <1>a DEF TailWritten, FlashTypes, ServiceTypes
  <2> QED BY <2>1, <2>2, CompletedTypes DEF FlashTypes
<1>14. CASE ResetDevice
  <2>1. \E then : Completed(then)
      BY <1>14 DEF ResetDevice
  <2>2. area' \in Image \union {"other"}
      BY <1>14, <1>a DEF ResetDevice, FlashTypes, ServiceTypes
  <2> QED BY <2>1, <2>2, CompletedTypes DEF FlashTypes
<1>15. ASSUME NEW img \in Image, Prepare(img)
      PROVE  FlashTypes'
    BY <1>15, <1>a DEF Prepare, flash, services, held, read, poll, asked, vars, FlashTypes
<1>16. CASE Write
    BY <1>16, <1>a DEF Write, flash, services, held, read, poll, asked, vars, FlashTypes
<1>17. CASE Install
    BY <1>17, <1>a DEF Install, NewProcedure, RequestInstall, flash, services, held, read, poll,
                       asked, vars, FlashTypes
<1>18. CASE DeleteWirelessStack
    BY <1>18, <1>a DEF DeleteWirelessStack, NewProcedure, flash, services, held, read, poll, asked,
                       vars, FlashTypes
<1>19. CASE RequestedReset
    BY <1>19, CutShortTypes DEF RequestedReset
<1>20. CASE Interruption
    BY <1>20, CutShortTypes DEF Interruption
<1>21. CASE FusBegins
    BY <1>21, <1>a DEF FusBegins, flash, services, held, read, poll, asked, vars, FlashTypes
<1>22. CASE FusSucceeds
    BY <1>22, <1>a DEF FusSucceeds, Succeeds, FusWorking, flash, services, held, read, poll, asked,
                       vars, FlashTypes
<1>23. CASE FusFails
    BY <1>23, <1>a DEF FusFails, FusWorking, flash, services, held, read, poll, asked, vars,
                       FlashTypes
<1>24. CASE FusSucceedsAndResets
    BY <1>24, CutShortTypes DEF FusSucceedsAndResets
<1>25. CASE UNCHANGED vars
    BY <1>25, <1>a DEF flash, services, held, read, poll, asked, vars, FlashTypes
<1> QED
    BY <1>1, <1>2, <1>3, <1>4, <1>5, <1>6, <1>7, <1>8, <1>9, <1>10, <1>11, <1>12, <1>13, <1>14,
       <1>15, <1>16, <1>17, <1>18, <1>19, <1>20, <1>21, <1>22, <1>23, <1>24, <1>25 DEF Next, Cpu1,
            Application, FusProgress


(* CPU2, and what CPU1 knows of it. *)
LEMMA ServiceTypesStep ==
    ASSUME Types, [Next]_vars
    PROVE  ServiceTypes'
<1>a. FlashTypes /\ ServiceTypes
    BY DEF Types
<1>1. CASE Resume
  <2>1. resumed' = TRUE /\ runningFirmware' = cpu2 /\ UNCHANGED <<cpu2, services, held, resetTo>>
      BY <1>1 DEF Resume
  <2>2. journal \in Seq(Record) /\ image \in Image
      BY <1>a DEF FlashTypes, ServiceTypes
  <2>3. journal # <<>> => journal[Len(journal)] \in Record
      BY <2>2
  <2>4. image' = image \/ (journal # <<>> /\ image' = journal[Len(journal)].image)
      BY <1>1 DEF Resume
  <2>5. image' \in Image
      BY <2>2, <2>3, <2>4 DEF Record
  <2> QED BY <1>a, <2>1, <2>5 DEF ServiceTypes, services, held
<1>2. CASE JournalRead
    BY <1>2, <1>a, FusErrorCodesAssumption DEF JournalRead, NothingToContinue,
                                               ContinueWithWirelessStack,
                                               ContinueWithFirmwareUpgradeServices, IssueRequested,
                                               IssueDelete, IssueUpgrade, StartWirelessStack, Told,
                                               Report, PollUntilDone, KeepToldAndPolls,
                                               RequestFirmwareUpgradeServices, flash, services,
                                               held, read, poll, asked, vars, ServiceTypes, noError,
                                               Firmware, Image
<1>3. CASE ReportWhenErased
    BY <1>3, <1>a, FusErrorCodesAssumption DEF ReportWhenErased, Told, Report, flash, services,
                                               held, read, poll, asked, vars, ServiceTypes, noError,
                                               Firmware, Image
<1>4. CASE DeleteJournalErased
    BY <1>4, <1>a, FusErrorCodesAssumption DEF DeleteJournalErased, flash, services, held, read,
                                               poll, asked, vars, ServiceTypes, noError, Firmware,
                                               Image
<1>5. CASE Requested
    BY <1>5, <1>a, FusErrorCodesAssumption DEF Requested, IssueDelete, IssueUpgrade,
                                               RequestFirmwareUpgradeServices, flash, services,
                                               held, read, poll, asked, vars, ServiceTypes, noError,
                                               Firmware, Image
<1>6. ASSUME NEW accepted \in BOOLEAN, DeleteIssued(accepted)
      PROVE  ServiceTypes'
    BY <1>6, <1>a, FusErrorCodesAssumption DEF DeleteIssued, Accept, PollUntilDone, Count, flash,
                                               services, held, read, poll, asked, vars,
                                               ServiceTypes, noError, Firmware, Image
<1>7. ASSUME NEW accepted \in BOOLEAN, UpgradeIssued(accepted)
      PROVE  ServiceTypes'
    BY <1>7, <1>a, FusErrorCodesAssumption DEF UpgradeIssued, Accept, PollUntilDone,
                                               StartWirelessStack, Count, flash, services, held,
                                               read, poll, asked, vars, ServiceTypes, noError,
                                               Firmware, Image
<1>8. ASSUME NEW accepted \in BOOLEAN, StartIssued(accepted)
      PROVE  ServiceTypes'
    BY <1>8, <1>a, FusErrorCodesAssumption DEF StartIssued, Count, flash, services, held, read,
                                               poll, asked, vars, ServiceTypes, noError, Firmware,
                                               Image
<1>9. CASE Poll
    BY <1>9, <1>a, FusErrorCodesAssumption DEF Poll, DeleteDone, UpgradeDone, StartWirelessStack,
                                               Report, flash, services, held, read, poll, asked,
                                               vars, ServiceTypes, noError, Firmware, Image
<1>10. CASE PrepareJournalErased
    BY <1>10, <1>a, FusErrorCodesAssumption DEF PrepareJournalErased, flash, services, held, read,
                                                poll, asked, vars, ServiceTypes, noError, Firmware,
                                                Image
<1>11. CASE PagesErased
    BY <1>11, <1>a, FusErrorCodesAssumption DEF PagesErased, flash, services, held, read, poll,
                                                asked, vars, ServiceTypes, noError, Firmware, Image
<1>12. CASE Written
    BY <1>12, <1>a, FusErrorCodesAssumption DEF Written, flash, services, held, read, poll, asked,
                                                vars, ServiceTypes, noError, Firmware, Image
<1>13. CASE TailWritten
    BY <1>13, <1>a, FusErrorCodesAssumption DEF TailWritten, RequestInstall, flash, services, held,
                                                read, poll, asked, vars, ServiceTypes, noError,
                                                Firmware, Image
<1>14. CASE ResetDevice
  <2>1. PICK firmware \in Firmware : Reboot(firmware)
      BY <1>14, <1>a DEF ResetDevice, ServiceTypes
  <2>2. stack' \in {"old", "new", "none"} /\ fus' \in {"old", "new"}
      BY <1>14, <1>a DEF ResetDevice, Succeeds, ServiceTypes
  <2>3. /\ fusJob' \in {"none", "delete", "upgrade"} /\ fusState' \in {"idle", "busy", "error"}
        /\ fusError' \in 0 .. 255
      BY <1>14, <1>a, FusAfterResetTypes DEF ResetDevice, noError, ServiceTypes
  <2> QED BY <2>1, <2>2, <2>3, ResetTypes DEF ServiceTypes
<1>15. ASSUME NEW img \in Image, Prepare(img)
      PROVE  ServiceTypes'
    BY <1>15, <1>a, FusErrorCodesAssumption DEF Prepare, flash, services, held, read, poll, asked,
                                                vars, ServiceTypes, noError, Firmware, Image
<1>16. CASE Write
    BY <1>16, <1>a, FusErrorCodesAssumption DEF Write, flash, services, held, read, poll, asked,
                                                vars, ServiceTypes, noError, Firmware, Image
<1>17. CASE Install
    BY <1>17, <1>a, FusErrorCodesAssumption DEF Install, NewProcedure, RequestInstall, flash,
                                                services, held, read, poll, asked, vars,
                                                ServiceTypes, noError, Firmware, Image
<1>18. CASE DeleteWirelessStack
    BY <1>18, <1>a, FusErrorCodesAssumption DEF DeleteWirelessStack, NewProcedure, flash, services,
                                                held, read, poll, asked, vars, ServiceTypes,
                                                noError, Firmware, Image
<1>19. CASE RequestedReset
  <2>1. PICK firmware \in Firmware : Reboot(firmware)
      BY <1>19, <1>a DEF RequestedReset, ServiceTypes
  <2>2. stack' \in {"old", "new", "none"} /\ fus' \in {"old", "new"}
      BY <1>19, <1>a DEF RequestedReset, Succeeds, ServiceTypes
  <2>3. /\ fusJob' \in {"none", "delete", "upgrade"} /\ fusState' \in {"idle", "busy", "error"}
        /\ fusError' \in 0 .. 255
      BY <1>19, <1>a, FusAfterResetTypes DEF RequestedReset, noError, ServiceTypes
  <2> QED BY <2>1, <2>2, <2>3, ResetTypes DEF ServiceTypes
<1>20. CASE Interruption
  <2>1. PICK firmware \in Firmware : Reboot(firmware)
      BY <1>20, <1>a DEF Interruption, ServiceTypes
  <2>2. stack' \in {"old", "new", "none"} /\ fus' \in {"old", "new"}
      BY <1>20, <1>a DEF Interruption, Succeeds, ServiceTypes
  <2>3. /\ fusJob' \in {"none", "delete", "upgrade"} /\ fusState' \in {"idle", "busy", "error"}
        /\ fusError' \in 0 .. 255
      BY <1>20, <1>a, FusAfterResetTypes DEF Interruption, noError, ServiceTypes
  <2> QED BY <2>1, <2>2, <2>3, ResetTypes DEF ServiceTypes
<1>21. CASE FusBegins
    BY <1>21, <1>a, FusErrorCodesAssumption DEF FusBegins, flash, services, held, read, poll, asked,
                                                vars, ServiceTypes, noError, Firmware, Image
<1>22. CASE FusSucceeds
    BY <1>22, <1>a, FusErrorCodesAssumption DEF FusSucceeds, Succeeds, FusWorking, flash, services,
                                                held, read, poll, asked, vars, ServiceTypes,
                                                noError, Firmware, Image
<1>23. CASE FusFails
    BY <1>23, <1>a, FusErrorCodesAssumption DEF FusFails, FusWorking, flash, services, held, read,
                                                poll, asked, vars, ServiceTypes, noError, Firmware,
                                                Image
<1>24. CASE FusSucceedsAndResets
  <2>1. PICK firmware \in Firmware : Reboot(firmware)
      BY <1>24, <1>a DEF FusSucceedsAndResets, ServiceTypes
  <2>2. stack' \in {"old", "new", "none"} /\ fus' \in {"old", "new"}
      BY <1>24, <1>a DEF FusSucceedsAndResets, Succeeds, ServiceTypes
  <2>3. /\ fusJob' \in {"none", "delete", "upgrade"} /\ fusState' \in {"idle", "busy", "error"}
        /\ fusError' \in 0 .. 255
      BY <1>24, <1>a, FusAfterResetTypes DEF FusSucceedsAndResets, noError, ServiceTypes
  <2> QED BY <2>1, <2>2, <2>3, ResetTypes DEF ServiceTypes
<1>25. CASE UNCHANGED vars
    BY <1>25, <1>a, FusErrorCodesAssumption DEF flash, services, held, read, poll, asked, vars,
                                                ServiceTypes, noError, Firmware, Image
<1> QED
    BY <1>1, <1>2, <1>3, <1>4, <1>5, <1>6, <1>7, <1>8, <1>9, <1>10, <1>11, <1>12, <1>13, <1>14,
       <1>15, <1>16, <1>17, <1>18, <1>19, <1>20, <1>21, <1>22, <1>23, <1>24, <1>25 DEF Next, Cpu1,
            Application, FusProgress


(* The poll timer. *)
LEMMA PollTypesStep ==
    ASSUME Types, [Next]_vars
    PROVE  PollTypes'
<1>a. PollTypes /\ ServiceTypes
    BY DEF Types
<1>1. CASE Resume
  <2>1. polling' = "none" /\ UNCHANGED <<busySeen, idlePolls>>
      BY <1>1 DEF Resume
  <2> QED BY <1>a, <2>1 DEF PollTypes
<1>2. CASE JournalRead
  <2>1. CASE UNCHANGED poll
      BY <1>a, <2>1 DEF PollTypes, poll
  <2>2. CASE PollUntilDone("DeleteDone") \/ PollUntilDone("UpgradeDone")
    <3>1. polling' \in {"DeleteDone", "UpgradeDone"} /\ busySeen' = FALSE /\ idlePolls' = 0
        BY <2>2 DEF PollUntilDone
    <3>2. busySeen' \in BOOLEAN /\ idlePolls' \in Nat
        BY <3>1
    <3> QED BY <3>1, <3>2 DEF PollTypes
  <2> QED BY <1>2, <2>1, <2>2 DEF JournalRead, NothingToContinue, ContinueWithWirelessStack,
                                 ContinueWithFirmwareUpgradeServices, KeepToldAndPolls
<1>3. CASE ReportWhenErased
    BY <1>3, <1>a DEF ReportWhenErased, Told, Report, flash, services, held, read, poll, asked,
                      vars, PollTypes
<1>4. CASE DeleteJournalErased
    BY <1>4, <1>a DEF DeleteJournalErased, flash, services, held, read, poll, asked, vars, PollTypes
<1>5. CASE Requested
    BY <1>5, <1>a DEF Requested, IssueDelete, IssueUpgrade, RequestFirmwareUpgradeServices, flash,
                      services, held, read, poll, asked, vars, PollTypes
<1>6. ASSUME NEW accepted \in BOOLEAN, DeleteIssued(accepted)
      PROVE  PollTypes'
  <2>1. CASE UNCHANGED poll
      BY <1>a, <2>1 DEF PollTypes, poll
  <2>2. CASE PollUntilDone("DeleteDone")
    <3>1. polling' = "DeleteDone" /\ busySeen' = FALSE /\ idlePolls' = 0
        BY <2>2 DEF PollUntilDone
    <3>2. busySeen' \in BOOLEAN /\ idlePolls' \in Nat
        BY <3>1
    <3> QED BY <3>1, <3>2 DEF PollTypes
  <2> QED BY <1>6, <2>1, <2>2 DEF DeleteIssued
<1>7. ASSUME NEW accepted \in BOOLEAN, UpgradeIssued(accepted)
      PROVE  PollTypes'
  <2>1. CASE UNCHANGED poll
      BY <1>a, <2>1 DEF PollTypes, poll
  <2>2. CASE PollUntilDone("UpgradeDone")
    <3>1. polling' = "UpgradeDone" /\ busySeen' = FALSE /\ idlePolls' = 0
        BY <2>2 DEF PollUntilDone
    <3>2. busySeen' \in BOOLEAN /\ idlePolls' \in Nat
        BY <3>1
    <3> QED BY <3>1, <3>2 DEF PollTypes
  <2> QED BY <1>7, <2>1, <2>2 DEF UpgradeIssued
<1>8. ASSUME NEW accepted \in BOOLEAN, StartIssued(accepted)
      PROVE  PollTypes'
    BY <1>8, <1>a DEF StartIssued, Count, flash, services, held, read, poll, asked, vars, PollTypes
<1>9. CASE Poll
  <2>1. polling' \in {"none", polling} /\ idlePolls' \in {idlePolls, idlePolls + 1}
      BY <1>9 DEF Poll
  <2>2. busySeen' \in BOOLEAN
      BY <1>9 DEF Poll
  <2> QED BY <1>a, <2>1, <2>2 DEF PollTypes
<1>10. CASE PrepareJournalErased
    BY <1>10, <1>a DEF PrepareJournalErased, flash, services, held, read, poll, asked, vars,
                       PollTypes
<1>11. CASE PagesErased
    BY <1>11, <1>a DEF PagesErased, flash, services, held, read, poll, asked, vars, PollTypes
<1>12. CASE Written
    BY <1>12, <1>a DEF Written, flash, services, held, read, poll, asked, vars, PollTypes
<1>13. CASE TailWritten
    BY <1>13, <1>a DEF TailWritten, RequestInstall, flash, services, held, read, poll, asked, vars,
                       PollTypes
<1>14. CASE ResetDevice
  <2>1. PICK firmware \in Firmware : Reboot(firmware)
      BY <1>14, <1>a DEF ResetDevice, ServiceTypes
  <2>2. stack' \in {"old", "new", "none"} /\ fus' \in {"old", "new"}
      BY <1>14, <1>a DEF ResetDevice, Succeeds, ServiceTypes
  <2> QED BY <2>1, <2>2, ResetTypes
<1>15. ASSUME NEW img \in Image, Prepare(img)
      PROVE  PollTypes'
    BY <1>15, <1>a DEF Prepare, flash, services, held, read, poll, asked, vars, PollTypes
<1>16. CASE Write
    BY <1>16, <1>a DEF Write, flash, services, held, read, poll, asked, vars, PollTypes
<1>17. CASE Install
    BY <1>17, <1>a DEF Install, NewProcedure, RequestInstall, flash, services, held, read, poll,
                       asked, vars, PollTypes
<1>18. CASE DeleteWirelessStack
    BY <1>18, <1>a DEF DeleteWirelessStack, NewProcedure, flash, services, held, read, poll, asked,
                       vars, PollTypes
<1>19. CASE RequestedReset
  <2>1. PICK firmware \in Firmware : Reboot(firmware)
      BY <1>19, <1>a DEF RequestedReset, ServiceTypes
  <2>2. stack' \in {"old", "new", "none"} /\ fus' \in {"old", "new"}
      BY <1>19, <1>a DEF RequestedReset, Succeeds, ServiceTypes
  <2> QED BY <2>1, <2>2, ResetTypes
<1>20. CASE Interruption
  <2>1. PICK firmware \in Firmware : Reboot(firmware)
      BY <1>20, <1>a DEF Interruption, ServiceTypes
  <2>2. stack' \in {"old", "new", "none"} /\ fus' \in {"old", "new"}
      BY <1>20, <1>a DEF Interruption, Succeeds, ServiceTypes
  <2> QED BY <2>1, <2>2, ResetTypes
<1>21. CASE FusBegins
    BY <1>21, <1>a DEF FusBegins, flash, services, held, read, poll, asked, vars, PollTypes
<1>22. CASE FusSucceeds
    BY <1>22, <1>a DEF FusSucceeds, Succeeds, FusWorking, flash, services, held, read, poll, asked,
                       vars, PollTypes
<1>23. CASE FusFails
    BY <1>23, <1>a DEF FusFails, FusWorking, flash, services, held, read, poll, asked, vars,
                       PollTypes
<1>24. CASE FusSucceedsAndResets
  <2>1. PICK firmware \in Firmware : Reboot(firmware)
      BY <1>24, <1>a DEF FusSucceedsAndResets, ServiceTypes
  <2>2. stack' \in {"old", "new", "none"} /\ fus' \in {"old", "new"}
      BY <1>24, <1>a DEF FusSucceedsAndResets, Succeeds, ServiceTypes
  <2> QED BY <2>1, <2>2, ResetTypes
<1>25. CASE UNCHANGED vars
    BY <1>25, <1>a DEF flash, services, held, read, poll, asked, vars, PollTypes
<1> QED
    BY <1>1, <1>2, <1>3, <1>4, <1>5, <1>6, <1>7, <1>8, <1>9, <1>10, <1>11, <1>12, <1>13, <1>14,
       <1>15, <1>16, <1>17, <1>18, <1>19, <1>20, <1>21, <1>22, <1>23, <1>24, <1>25 DEF Next, Cpu1,
            Application, FusProgress


(* The procedure and its outcome. *)
LEMMA AskedTypesStep ==
    ASSUME Types, [Next]_vars
    PROVE  AskedTypes'
<1>a. AskedTypes /\ ServiceTypes
    BY DEF Types
<1>1. CASE Resume
    BY <1>1, <1>a DEF Resume, flash, services, held, read, poll, asked, vars, AskedTypes, Image,
                      Firmware
<1>2. CASE JournalRead
  <2>1. /\ UNCHANGED <<prepared, target, codeless>>
        /\ UNCHANGED <<procedure, outcome>> \/ (procedure' = "none" /\ outcome' = "idle")
      BY <1>2 DEF JournalRead, NothingToContinue, ContinueWithWirelessStack, Told, Report,
                ContinueWithFirmwareUpgradeServices, KeepToldAndPolls
  <2> QED BY <1>a, <2>1 DEF AskedTypes, Result
<1>3. CASE ReportWhenErased
  <2>1. /\ UNCHANGED <<prepared, target, codeless>> /\ procedure' = "none"
        /\ outcome' \in {"deleteFailed", "installUnconfirmed", "installed", "installFailed"}
      BY <1>3 DEF ReportWhenErased, Told, Report, StartedResult, NotStartedResult
  <2> QED BY <1>a, <2>1 DEF AskedTypes, Result
<1>4. CASE DeleteJournalErased
    BY <1>4, <1>a DEF DeleteJournalErased, flash, services, held, read, poll, asked, vars,
                      AskedTypes, Image, Firmware
<1>5. CASE Requested
    BY <1>5, <1>a DEF Requested, IssueDelete, IssueUpgrade, RequestFirmwareUpgradeServices, flash,
                      services, held, read, poll, asked, vars, AskedTypes, Image, Firmware
<1>6. ASSUME NEW accepted \in BOOLEAN, DeleteIssued(accepted)
      PROVE  AskedTypes'
    BY <1>6, <1>a DEF DeleteIssued, Accept, PollUntilDone, Count, flash, services, held, read, poll,
                      asked, vars, AskedTypes, Image, Firmware
<1>7. ASSUME NEW accepted \in BOOLEAN, UpgradeIssued(accepted)
      PROVE  AskedTypes'
    BY <1>7, <1>a DEF UpgradeIssued, Accept, PollUntilDone, StartWirelessStack, Count, flash,
                      services, held, read, poll, asked, vars, AskedTypes, Image, Firmware
<1>8. ASSUME NEW accepted \in BOOLEAN, StartIssued(accepted)
      PROVE  AskedTypes'
    BY <1>8, <1>a DEF StartIssued, Count, flash, services, held, read, poll, asked, vars,
                      AskedTypes, Image, Firmware
<1>9. CASE Poll
  <2>1. /\ UNCHANGED <<prepared, target, codeless>>
        /\ UNCHANGED <<procedure, outcome>> \/ (procedure' = "none" /\ outcome' = "readyForImage")
      BY <1>9 DEF Poll, DeleteDone, UpgradeDone, Report
  <2> QED BY <1>a, <2>1 DEF AskedTypes, Result
<1>10. CASE PrepareJournalErased
    BY <1>10, <1>a DEF PrepareJournalErased, flash, services, held, read, poll, asked, vars,
                       AskedTypes, Image, Firmware
<1>11. CASE PagesErased
    BY <1>11, <1>a DEF PagesErased, flash, services, held, read, poll, asked, vars, AskedTypes,
                       Image, Firmware
<1>12. CASE Written
    BY <1>12, <1>a DEF Written, flash, services, held, read, poll, asked, vars, AskedTypes, Image,
                       Firmware
<1>13. CASE TailWritten
    BY <1>13, <1>a DEF TailWritten, RequestInstall, flash, services, held, read, poll, asked, vars,
                       AskedTypes, Image, Firmware
<1>14. CASE ResetDevice
  <2>1. prepared' = "no" /\ UNCHANGED <<procedure, target, codeless, outcome>>
      BY <1>14 DEF ResetDevice, Reboot, asked
  <2> QED BY <1>a, <2>1 DEF AskedTypes
<1>15. ASSUME NEW img \in Image, Prepare(img)
      PROVE  AskedTypes'
    BY <1>15, <1>a DEF Prepare, flash, services, held, read, poll, asked, vars, AskedTypes, Image,
                       Firmware
<1>16. CASE Write
    BY <1>16, <1>a DEF Write, flash, services, held, read, poll, asked, vars, AskedTypes, Image,
                       Firmware
<1>17. CASE Install
  <2>1. /\ procedure' = "install" /\ target' = image /\ outcome' = "none" /\ prepared' = "written"
        /\ image \in Image /\ codeless' \in BOOLEAN
      BY <1>17, <1>a DEF Install, NewProcedure, ServiceTypes
  <2> QED BY <2>1 DEF AskedTypes
<1>18. CASE DeleteWirelessStack
    BY <1>18, <1>a DEF DeleteWirelessStack, NewProcedure, flash, services, held, read, poll, asked,
                       vars, AskedTypes, Image, Firmware
<1>19. CASE RequestedReset
  <2>1. prepared' = "no" /\ UNCHANGED <<procedure, target, codeless, outcome>>
      BY <1>19 DEF RequestedReset, Reboot, asked
  <2> QED BY <1>a, <2>1 DEF AskedTypes
<1>20. CASE Interruption
  <2>1. prepared' = "no" /\ UNCHANGED <<procedure, target, codeless, outcome>>
      BY <1>20 DEF Interruption, Reboot, asked
  <2> QED BY <1>a, <2>1 DEF AskedTypes
<1>21. CASE FusBegins
    BY <1>21, <1>a DEF FusBegins, flash, services, held, read, poll, asked, vars, AskedTypes, Image,
                       Firmware
<1>22. CASE FusSucceeds
    BY <1>22, <1>a DEF FusSucceeds, Succeeds, FusWorking, flash, services, held, read, poll, asked,
                       vars, AskedTypes, Image, Firmware
<1>23. CASE FusFails
    BY <1>23, <1>a DEF FusFails, FusWorking, flash, services, held, read, poll, asked, vars,
                       AskedTypes, Image, Firmware
<1>24. CASE FusSucceedsAndResets
  <2>1. prepared' = "no" /\ UNCHANGED <<procedure, target, codeless, outcome>>
      BY <1>24 DEF FusSucceedsAndResets, Reboot, asked
  <2> QED BY <1>a, <2>1 DEF AskedTypes
<1>25. CASE UNCHANGED vars
    BY <1>25, <1>a DEF flash, services, held, read, poll, asked, vars, AskedTypes, Image, Firmware
<1> QED
    BY <1>1, <1>2, <1>3, <1>4, <1>5, <1>6, <1>7, <1>8, <1>9, <1>10, <1>11, <1>12, <1>13, <1>14,
       <1>15, <1>16, <1>17, <1>18, <1>19, <1>20, <1>21, <1>22, <1>23, <1>24, <1>25 DEF Next, Cpu1,
            Application, FusProgress


(* The commands given, and the resets nobody asked for. *)
LEMMA CountTypesStep ==
    ASSUME Types, [Next]_vars
    PROVE  CountTypes'
<1>a. CountTypes
    BY DEF Types
<1>1. CASE Resume
    BY <1>1, <1>a DEF Resume, flash, services, held, read, poll, asked, vars, CountTypes,
                      NoCommands, Count
<1>2. CASE JournalRead
    BY <1>2, <1>a DEF JournalRead, NothingToContinue, ContinueWithWirelessStack,
                      ContinueWithFirmwareUpgradeServices, IssueRequested, IssueDelete,
                      IssueUpgrade, StartWirelessStack, Told, Report, PollUntilDone,
                      KeepToldAndPolls, RequestFirmwareUpgradeServices, flash, services, held, read,
                      poll, asked, vars, CountTypes, NoCommands, Count
<1>3. CASE ReportWhenErased
    BY <1>3, <1>a DEF ReportWhenErased, Told, Report, flash, services, held, read, poll, asked,
                      vars, CountTypes, NoCommands, Count
<1>4. CASE DeleteJournalErased
    BY <1>4, <1>a DEF DeleteJournalErased, flash, services, held, read, poll, asked, vars,
                      CountTypes, NoCommands, Count
<1>5. CASE Requested
    BY <1>5, <1>a DEF Requested, IssueDelete, IssueUpgrade, RequestFirmwareUpgradeServices, flash,
                      services, held, read, poll, asked, vars, CountTypes, NoCommands, Count
<1>6. ASSUME NEW accepted \in BOOLEAN, DeleteIssued(accepted)
      PROVE  CountTypes'
    BY <1>6, <1>a DEF DeleteIssued, Accept, PollUntilDone, Count, flash, services, held, read, poll,
                      asked, vars, CountTypes, NoCommands
<1>7. ASSUME NEW accepted \in BOOLEAN, UpgradeIssued(accepted)
      PROVE  CountTypes'
    BY <1>7, <1>a DEF UpgradeIssued, Accept, PollUntilDone, StartWirelessStack, Count, flash,
                      services, held, read, poll, asked, vars, CountTypes, NoCommands
<1>8. ASSUME NEW accepted \in BOOLEAN, StartIssued(accepted)
      PROVE  CountTypes'
    BY <1>8, <1>a DEF StartIssued, Count, flash, services, held, read, poll, asked, vars,
                      CountTypes, NoCommands
<1>9. CASE Poll
    BY <1>9, <1>a DEF Poll, DeleteDone, UpgradeDone, StartWirelessStack, Report, flash, services,
                      held, read, poll, asked, vars, CountTypes, NoCommands, Count
<1>10. CASE PrepareJournalErased
    BY <1>10, <1>a DEF PrepareJournalErased, flash, services, held, read, poll, asked, vars,
                       CountTypes, NoCommands, Count
<1>11. CASE PagesErased
    BY <1>11, <1>a DEF PagesErased, flash, services, held, read, poll, asked, vars, CountTypes,
                       NoCommands, Count
<1>12. CASE Written
    BY <1>12, <1>a DEF Written, flash, services, held, read, poll, asked, vars, CountTypes,
                       NoCommands, Count
<1>13. CASE TailWritten
    BY <1>13, <1>a DEF TailWritten, RequestInstall, flash, services, held, read, poll, asked, vars,
                       CountTypes, NoCommands, Count
<1>14. CASE ResetDevice
    BY <1>14, <1>a DEF ResetDevice, Count, Reboot, flash, services, held, read, poll, asked, vars,
                       CountTypes, NoCommands
<1>15. ASSUME NEW img \in Image, Prepare(img)
      PROVE  CountTypes'
    BY <1>15, <1>a DEF Prepare, flash, services, held, read, poll, asked, vars, CountTypes,
                       NoCommands, Count
<1>16. CASE Write
    BY <1>16, <1>a DEF Write, flash, services, held, read, poll, asked, vars, CountTypes,
                       NoCommands, Count
<1>17. CASE Install
  <2>1. UNCHANGED interruptions /\ commands' = NoCommands
      BY <1>17 DEF Install, NewProcedure
  <2> QED BY <1>a, <2>1 DEF CountTypes, NoCommands
<1>18. CASE DeleteWirelessStack
  <2>1. UNCHANGED interruptions /\ commands' = NoCommands
      BY <1>18 DEF DeleteWirelessStack, NewProcedure
  <2> QED BY <1>a, <2>1 DEF CountTypes, NoCommands
<1>19. CASE RequestedReset
  <2>1. UNCHANGED commands /\ interruptions' \in {interruptions, interruptions + 1}
      BY <1>19 DEF RequestedReset, asked
  <2> QED BY <1>a, <2>1 DEF CountTypes
<1>20. CASE Interruption
  <2>1. UNCHANGED commands /\ interruptions' \in {interruptions, interruptions + 1}
      BY <1>20 DEF Interruption, asked
  <2> QED BY <1>a, <2>1 DEF CountTypes
<1>21. CASE FusBegins
    BY <1>21, <1>a DEF FusBegins, flash, services, held, read, poll, asked, vars, CountTypes,
                       NoCommands, Count
<1>22. CASE FusSucceeds
    BY <1>22, <1>a DEF FusSucceeds, Succeeds, FusWorking, flash, services, held, read, poll, asked,
                       vars, CountTypes, NoCommands, Count
<1>23. CASE FusFails
    BY <1>23, <1>a DEF FusFails, FusWorking, flash, services, held, read, poll, asked, vars,
                       CountTypes, NoCommands, Count
<1>24. CASE FusSucceedsAndResets
  <2>1. UNCHANGED commands /\ interruptions' \in {interruptions, interruptions + 1}
      BY <1>24 DEF FusSucceedsAndResets, asked
  <2> QED BY <1>a, <2>1 DEF CountTypes
<1>25. CASE UNCHANGED vars
    BY <1>25, <1>a DEF flash, services, held, read, poll, asked, vars, CountTypes, NoCommands, Count
<1> QED
    BY <1>1, <1>2, <1>3, <1>4, <1>5, <1>6, <1>7, <1>8, <1>9, <1>10, <1>11, <1>12, <1>13, <1>14,
       <1>15, <1>16, <1>17, <1>18, <1>19, <1>20, <1>21, <1>22, <1>23, <1>24, <1>25 DEF Next, Cpu1,
            Application, FusProgress

(* What is read of the journal, and the flash operation under way. *)
LEMMA ReadAndOperationTypesStep ==
    ASSUME Types, [Next]_vars
    PROVE  ReadTypes' /\ OperationTypes'
<1>a. FlashTypes /\ ServiceTypes /\ ReadTypes /\ OperationTypes /\ image \in Image
    BY DEF Types, ServiceTypes
<1>e. ASSUME NEW then \in Continuations, NEW value \in Value, EraseJournal(then, value)
      PROVE  ReadTypes' /\ OperationTypes'
    BY <1>a, <1>e, StartedTypes
<1>r. ASSUME NEW then \in Continuations, NEW value \in Value, NEW step \in Step,
             AppendRecord(step, value, then)
      PROVE  ReadTypes' /\ OperationTypes'
    BY <1>a, <1>r, StartedTypes
<1>v. /\ noError \in Value /\ unknownError \in Value /\ installUnconfirmed \in Value /\ 0 \in Value
      /\ ImageAddress \in Value
    BY DEF Value, noError, unknownError, installUnconfirmed, ImageAddress
<1>g. /\ GetStatus.errorCode \in Value /\ UpgradeResult(GetStatus) \in Value
      /\ lastRecord.value \in Value /\ op.value \in Value
    BY Values
<1>m. ASSUME NEW kind \in {"erasePages", "writeImage"}, NEW then \in Continuations,
             ImageOp(kind, then), KeepRead
      PROVE  ReadTypes' /\ OperationTypes'
    BY <1>a, <1>m, <1>v, StartedTypes
<1>n. ASSUME op' = NoOp, KeepRead
      PROVE  ReadTypes' /\ OperationTypes'
  <2>1. "none" \in Continuations
      BY DEF Continuations
  <2> QED BY <1>a, <1>n, <1>v, <2>1, StartedTypes
<1>k. ASSUME op' = op, KeepRead
      PROVE  ReadTypes' /\ OperationTypes'
    BY <1>a, <1>k DEF KeepRead, ReadTypes, OperationTypes
<1>c. ASSUME UNCHANGED read
      PROVE  KeepRead
    BY <1>c DEF read, KeepRead
<1>1. CASE Resume
  <2>1. CASE torn
    <3>1. EraseJournal("journalRead", noError)
        BY <1>1, <2>1 DEF Resume, InvalidRecord
    <3> QED BY <3>1, <1>e, <1>v DEF Continuations
  <2>2. CASE ~torn
    <3>1. /\ nextRecord' = Len(journal) + 1
          /\ lastRecord' = IF journal = <<>> THEN NoRecord ELSE journal[Len(journal)]
          /\ lastStepRepeated' =
                (Len(journal) > 1 /\ journal[Len(journal)].step = journal[Len(journal) - 1].step)
          /\ op' = [NoOp EXCEPT !.kind = "read", !.then = "journalRead"]
        BY <1>1, <2>2 DEF Resume, InvalidRecord
    <3>2. journal \in Seq(Record) /\ Len(journal) \in Nat
        BY <1>a DEF FlashTypes
    <3>3. nextRecord' \in Nat \ {0}
        BY <3>1, <3>2
    <3>4. lastRecord' \in Record \union {NoRecord}
        BY <3>1, <3>2
    <3>5. lastStepRepeated' \in BOOLEAN
        BY <3>1
    <3>6. ReadTypes'
        BY <3>3, <3>4, <3>5 DEF ReadTypes
    <3>7. op' = [kind |-> "read", then |-> "journalRead", value |-> noError, record |-> NoRecord]
        BY <3>1 DEF NoOp
    <3>8. OperationTypes'
        BY <3>7, <1>v DEF OperationTypes, Continuations
    <3> QED BY <3>6, <3>8
  <2> QED BY <2>1, <2>2
<1>2. CASE JournalRead
  <2>1. CASE NothingToContinue
      BY <2>1, <1>n DEF NothingToContinue, Told
  <2>2. CASE ContinueWithWirelessStack
    <3>1. CASE op' = NoOp /\ KeepRead
        BY <3>1, <1>n
    <3>2. CASE EraseJournal("deleteFailed", unknownError)
        BY <3>2, <1>e, <1>v DEF Continuations
    <3>3. CASE EraseJournal("installUnconfirmed", noError)
        BY <3>3, <1>e, <1>v DEF Continuations
    <3>4. CASE EraseJournal("started", lastRecord.value)
        BY <3>4, <1>e, <1>g DEF Continuations
    <3> QED BY <2>2, <3>1, <3>2, <3>3, <3>4 DEF ContinueWithWirelessStack
  <2>3. CASE ContinueWithFirmwareUpgradeServices
    <3>1. CASE op' = NoOp /\ KeepRead
        BY <3>1, <1>n
    <3>2. CASE /\ lastRecord.step \in {"deleteRequested", "installRequested"}
               /\ IssueRequested(lastRecord, lastStepRepeated)
      <4>1. CASE AppendRecord(lastRecord.step, lastRecord.value, "resetDevice")
          BY <3>2, <4>1, <1>r, <1>g DEF Continuations, Step
      <4>2. CASE AppendRecord("deleteIssued", 0, "deleteIssued")
          BY <4>2, <1>r, <1>v DEF Continuations, Step
      <4>3. CASE AppendRecord("upgradeIssued", lastRecord.value, "upgradeIssued")
          BY <4>3, <1>r, <1>g DEF Continuations, Step
      <4> QED BY <3>2, <4>1, <4>2, <4>3 DEF IssueRequested, IssueDelete, IssueUpgrade
    <3>3. CASE AppendRecord("wirelessStackStartRetried", lastRecord.value, "startIssued")
        BY <3>3, <1>r, <1>g DEF Continuations, Step
    <3>4. CASE EraseJournal("notStarted", lastRecord.value)
        BY <3>4, <1>e, <1>g DEF Continuations
    <3> QED BY <2>3, <3>1, <3>2, <3>3, <3>4
               DEF ContinueWithFirmwareUpgradeServices, StartWirelessStack
  <2> QED BY <1>2, <2>1, <2>2, <2>3 DEF JournalRead
<1>3. CASE ReportWhenErased
    BY <1>3, <1>n, <1>c DEF ReportWhenErased, Told
<1>4. CASE DeleteJournalErased
  <2>1. AppendRecord("deleteRequested", 0, "deleteRequested")
      BY <1>4 DEF DeleteJournalErased
  <2> QED BY <2>1, <1>r, <1>v DEF Continuations, Step
<1>5. CASE Requested
  <2>1. CASE op' = NoOp /\ KeepRead
      BY <2>1, <1>n
  <2>2. CASE AppendRecord("deleteIssued", 0, "deleteIssued")
      BY <2>2, <1>r, <1>v DEF Continuations, Step
  <2>3. CASE AppendRecord("upgradeIssued", ImageAddress, "upgradeIssued")
      BY <2>3, <1>r, <1>v DEF Continuations, Step
  <2> QED BY <1>5, <2>1, <2>2, <2>3 DEF Requested, IssueDelete, IssueUpgrade
<1>6. ASSUME NEW accepted \in BOOLEAN, DeleteIssued(accepted)
      PROVE  ReadTypes' /\ OperationTypes'
  <2>1. CASE op' = NoOp /\ KeepRead
      BY <2>1, <1>n
  <2>2. CASE EraseJournal("deleteFailed", unknownError)
      BY <2>2, <1>e, <1>v DEF Continuations
  <2> QED BY <1>6, <2>1, <2>2 DEF DeleteIssued
<1>7. ASSUME NEW accepted \in BOOLEAN, UpgradeIssued(accepted)
      PROVE  ReadTypes' /\ OperationTypes'
  <2>1. CASE op' = NoOp /\ KeepRead
      BY <2>1, <1>n
  <2>2. CASE AppendRecord("wirelessStackStartIssued", unknownError, "startIssued")
      BY <2>2, <1>r, <1>v DEF Continuations, Step
  <2> QED BY <1>7, <2>1, <2>2 DEF UpgradeIssued, StartWirelessStack
<1>8. ASSUME NEW accepted \in BOOLEAN, StartIssued(accepted)
      PROVE  ReadTypes' /\ OperationTypes'
  <2>1. CASE op' = NoOp /\ KeepRead
      BY <2>1, <1>n
  <2>2. CASE EraseJournal("notStarted", op.value)
      BY <2>2, <1>e, <1>g DEF Continuations
  <2> QED BY <1>8, <2>1, <2>2 DEF StartIssued
<1>9. CASE Poll
  <2>1. CASE op' = op /\ KeepRead
      BY <2>1, <1>k
  <2>2. CASE EraseJournal("deleteFailed", GetStatus.errorCode)
      BY <2>2, <1>e, <1>g DEF Continuations
  <2>3. CASE AppendRecord("wirelessStackStartIssued", UpgradeResult(GetStatus), "startIssued")
      BY <2>3, <1>r, <1>g DEF Continuations, Step
  <2> QED BY <1>9, <2>1, <2>2, <2>3 DEF Poll, DeleteDone, UpgradeDone, StartWirelessStack
<1>10. CASE PrepareJournalErased
  <2>1. ImageOp("erasePages", "prepared") /\ KeepRead
      BY <1>10, <1>c DEF PrepareJournalErased
  <2> QED BY <2>1, <1>m DEF Continuations
<1>11. CASE PagesErased
    BY <1>11, <1>n, <1>c DEF PagesErased
<1>12. CASE Written
    BY <1>12, <1>n, <1>c DEF Written
<1>13. CASE TailWritten
  <2>1. AppendRecord("installRequested", ImageAddress, "installRequested")
      BY <1>13 DEF TailWritten, RequestInstall
  <2> QED BY <2>1, <1>r, <1>v DEF Continuations, Step
<1>14. CASE ResetDevice
  <2>1. Reboot(cpu2) /\ cpu2 \in Firmware /\ stack' \in {"old", "new", "none"}
      BY <1>14, <1>a DEF ResetDevice, ServiceTypes
  <2> QED BY <2>1, ResetTypes
<1>15. ASSUME NEW img \in Image, Prepare(img)
       PROVE  ReadTypes' /\ OperationTypes'
  <2>1. EraseJournal("erasePages", noError)
      BY <1>15 DEF Prepare
  <2> QED BY <2>1, <1>e, <1>v DEF Continuations
<1>16. CASE Write
  <2>1. ImageOp("writeImage", "written") /\ KeepRead
      BY <1>16, <1>c DEF Write
  <2> QED BY <2>1, <1>m DEF Continuations
<1>17. CASE Install
  <2>1. CASE AppendRecord("installRequested", ImageAddress, "installRequested")
      BY <2>1, <1>r, <1>v DEF Continuations, Step
  <2>2. CASE ImageOp("writeImage", "installTail") /\ KeepRead
      BY <2>2, <1>m DEF Continuations
  <2> QED BY <1>17, <2>1, <2>2 DEF Install, RequestInstall
<1>18. CASE DeleteWirelessStack
  <2>1. EraseJournal("appendDeleteRequested", noError)
      BY <1>18 DEF DeleteWirelessStack
  <2> QED BY <2>1, <1>e, <1>v DEF Continuations
<1>19. CASE RequestedReset
  <2>1. Reboot(resetTo) /\ resetTo \in Firmware /\ stack' \in {"old", "new", "none"}
      BY <1>19, <1>a DEF RequestedReset, ServiceTypes
  <2> QED BY <2>1, ResetTypes
<1>20. CASE Interruption
  <2>1. Reboot(cpu2) /\ cpu2 \in Firmware /\ stack' \in {"old", "new", "none"}
      BY <1>20, <1>a DEF Interruption, ServiceTypes
  <2> QED BY <2>1, ResetTypes
<1>21. CASE FusBegins
    BY <1>21, <1>k, <1>c DEF FusBegins
<1>22. CASE FusSucceeds
    BY <1>22, <1>k, <1>c DEF FusSucceeds
<1>23. CASE FusFails
    BY <1>23, <1>k, <1>c DEF FusFails
<1>24. CASE FusSucceedsAndResets
  <2>1. PICK firmware \in Firmware : Reboot(firmware)
      BY <1>24 DEF FusSucceedsAndResets
  <2>2. stack' \in {"old", "new", "none"}
      BY <1>24, <1>a DEF FusSucceedsAndResets, Succeeds, ServiceTypes
  <2> QED BY <2>1, <2>2, ResetTypes
<1>25. CASE UNCHANGED vars
    BY <1>25, <1>k, <1>c DEF vars
<1> QED
    BY <1>1, <1>2, <1>3, <1>4, <1>5, <1>6, <1>7, <1>8, <1>9, <1>10, <1>11, <1>12, <1>13, <1>14,
       <1>15, <1>16, <1>17, <1>18, <1>19, <1>20, <1>21, <1>22, <1>23, <1>24, <1>25 DEF Next, Cpu1,
            Application, FusProgress

(* The types hold when the device is new.                                  *)
LEMMA TypesInit ==
    ASSUME Init
    PROVE  Types
<1>1. FlashTypes
  <2>1. journal = <<>> /\ torn = FALSE /\ area = "other"
      BY DEF Init
  <2>2. journal \in Seq(Record)
      BY <2>1
  <2>3. torn \in BOOLEAN
      BY <2>1
  <2> QED BY <2>1, <2>2, <2>3 DEF FlashTypes
<1>2. ServiceTypes
  <2>1. fusFresh \in BOOLEAN /\ resumed = FALSE
      BY DEF Init
  <2>2. resumed \in BOOLEAN
      BY <2>1
  <2> QED BY <2>1, <2>2 DEF Init, ServiceTypes, Firmware, Image, noError
<1>3. ReadTypes
  <2>1. lastRecord = NoRecord /\ lastStepRepeated = FALSE /\ nextRecord = 1
      BY DEF Init, FirstRecord
  <2>2. lastStepRepeated \in BOOLEAN
      BY <2>1
  <2> QED BY <2>1, <2>2 DEF ReadTypes
<1>4. OperationTypes
    BY DEF Init, NoOp, OperationTypes, Continuations, Value, noError, ImageAddress
<1>5. PollTypes
  <2>1. polling = "none" /\ busySeen = FALSE /\ idlePolls = 0
      BY DEF Init
  <2>2. busySeen \in BOOLEAN /\ idlePolls \in Nat
      BY <2>1
  <2> QED BY <2>1, <2>2 DEF PollTypes
<1>6. AskedTypes
  <2>1. codeless \in BOOLEAN
      BY DEF Init
  <2> QED BY <2>1 DEF Init, AskedTypes, Image, Firmware
<1>7. CountTypes
    BY DEF Init, CountTypes, NoCommands
<1> QED BY <1>1, <1>2, <1>3, <1>4, <1>5, <1>6, <1>7 DEF Types

(* Every step keeps the types.                                             *)
LEMMA TypesStep ==
    ASSUME Types, [Next]_vars
    PROVE  Types'
BY FlashTypesStep, ServiceTypesStep, ReadAndOperationTypesStep, PollTypesStep, AskedTypesStep,
   CountTypesStep DEF Types

(* Each variable holds what its type says, in every state. *)
THEOREM TypeCorrect == Spec => []TypeOK
<1>1. Init => Types
    BY TypesInit
<1>2. Types /\ [Next]_vars => Types'
    BY TypesStep
<1>3. Types => TypeOK
    BY TypesAre
<1> QED BY <1>1, <1>2, <1>3, PTL DEF Spec

-----------------------------------------------------------------------------
(* What a flash operation is, once it is started. *)

(* EraseJournal starts the erasure of the journal and forgets what was     *)
(* read of it.                                                             *)
LEMMA EraseStarted ==
    ASSUME NEW then, NEW value, EraseJournal(then, value)
    PROVE  /\ lastRecord' = NoRecord /\ nextRecord' = 1
           /\ op'.kind = "eraseJournal" /\ op'.then = then /\ op'.value = value /\ op' # NoOp
BY DEF EraseJournal, NoOp, FirstRecord

(* AppendRecord starts the write of a record with the image of the         *)
(* procedure.                                                              *)
LEMMA AppendStarted ==
    ASSUME NEW step, NEW value, NEW then, AppendRecord(step, value, then)
    PROVE  /\ nextRecord' = nextRecord + 1
           /\ op'.kind = "append" /\ op'.then = then /\ op'.value = value /\ op' # NoOp
           /\ op'.record.step = step /\ op'.record.image = image /\ op'.record.value = value
BY DEF AppendRecord, NoOp

(* Pages are erased and bytes written without the journal.                 *)
LEMMA ImageOpStarted ==
    ASSUME NEW kind \in {"erasePages", "writeImage"}, NEW then, ImageOp(kind, then)
    PROVE  op'.kind = kind /\ op'.then = then /\ op' # NoOp
BY DEF ImageOp, NoOp

(* When no operation is under way, `op` says so; and no record is one      *)
(* without a step.                                                         *)
LEMMA NoOpIs ==
    /\ NoOp.kind = "none" /\ NoOp.then = "none"
    /\ NoRecord.step = "none" /\ NoRecord.image = "none"
BY DEF NoOp, NoRecord

(* One command more is given. *)
LEMMA Counted ==
    ASSUME TypeOK, NEW command \in {"delete", "upgrade", "start", "reset"}, Count(command)
    PROVE  /\ commands'[command] = commands[command] + 1
           /\ \A other \in {"delete", "upgrade", "start", "reset"} \ {command} :
                commands'[other] = commands[other]
BY DEF Count, TypeOK

(* The commands of each kind are counted.                                  *)
LEMMA CommandTypes ==
    ASSUME TypeOK
    PROVE  /\ commands["delete"] \in Nat /\ commands["upgrade"] \in Nat
           /\ commands["start"] \in Nat /\ commands["reset"] \in Nat
BY DEF TypeOK

(* At the start of a procedure no command was given.                       *)
LEMMA NoCommandsIs ==
    /\ NoCommands["delete"] = 0 /\ NoCommands["upgrade"] = 0
    /\ NoCommands["start"] = 0 /\ NoCommands["reset"] = 0
BY DEF NoCommands

(* Besides the types: what the procedure keeps to. *)
Course ==
    /\ JournalInv /\ CommandInv /\ ReadInv /\ AppendInv /\ EraseInv
    /\ OpInv /\ WaitInv /\ FusInv /\ PreparedInv /\ OutcomeInv

(* What is known of the types, in the words the steps below need. *)
LEMMA Known ==
    ASSUME Inv
    PROVE  /\ Length \in Nat /\ LastStep \in Step \union {"none"}
           /\ LastStep = "none" <=> Last = NoRecord
           /\ LastStep = Last.step
           /\ Repeated => Length > 1
           /\ torn \in BOOLEAN /\ fusFresh \in BOOLEAN /\ resumed \in BOOLEAN
           /\ busySeen \in BOOLEAN
           /\ nextRecord \in Nat /\ area \in Image \union {"other"} /\ image \in Image
           /\ target \in Image
           /\ cpu2 \in Firmware /\ runningFirmware \in Firmware
           /\ resetTo \in Firmware \union {"none"}
           /\ fusState \in {"idle", "busy", "error"} /\ fusJob \in {"none", "delete", "upgrade"}
           /\ polling \in {"none", "DeleteDone", "UpgradeDone"}
           /\ op.kind \in {"none", "read", "append", "eraseJournal", "erasePages", "writeImage"}
<1>1. TypeOK
    BY DEF Inv
<1>2. Length \in Nat /\ LastStep \in Step \union {"none"} /\ (LastStep = "none" <=> Last = NoRecord)
    BY <1>1, LastTypes
<1>3. LastStep = Last.step /\ (Repeated => Length > 1)
    BY DEF LastStep, Repeated, Length
<1>4. /\ torn \in BOOLEAN /\ fusFresh \in BOOLEAN /\ resumed \in BOOLEAN /\ busySeen \in BOOLEAN
      /\ area \in Image \union {"other"} /\ image \in Image /\ target \in Image
      /\ cpu2 \in Firmware /\ runningFirmware \in Firmware /\ resetTo \in Firmware \union {"none"}
      /\ fusState \in {"idle", "busy", "error"} /\ fusJob \in {"none", "delete", "upgrade"}
      /\ polling \in {"none", "DeleteDone", "UpgradeDone"} /\ nextRecord \in Nat
    BY <1>1 DEF TypeOK
<1>5. op.kind \in {"none", "read", "append", "eraseJournal", "erasePages", "writeImage"}
    BY <1>1 DEF TypeOK
<1> QED BY <1>2, <1>3, <1>4, <1>5

(* The record that was under way is in the journal. *)
LEMMA JournalInvAppended ==
    ASSUME Inv, op.kind = "append", Appended, UNCHANGED <<area, target, stack, fus, codeless>>
    PROVE  JournalInv'
<1>1. /\ Length' = Length + 1 /\ Last' = op.record /\ LastStep' = op.record.step
      /\ Repeated' <=> LastStep = op.record.step
    BY DEF Appended
<1>2. Installed' <=> Installed
    BY DEF Installed
<1>3. /\ op.record.image = image /\ op.record.value = op.value
      /\ LastStep # "none" => image = Last.image
    BY NoOpIs DEF Inv, AppendInv, ReadInv
<1> QED BY <1>1, <1>2, <1>3, Known
           DEF Inv, AppendInv, JournalInv, InstallSteps, RequestSteps, IssueSteps, StartSteps

(* The record that says a command is given comes before the command.       *)
LEMMA CommandInvAppended ==
    ASSUME Inv, op.kind = "append", Appended, UNCHANGED commands
    PROVE  CommandInv'
<1>1. /\ Length' = Length + 1 /\ LastStep' = op.record.step
    BY DEF Appended
<1> QED BY <1>1, Known, NoCommandsIs
           DEF Inv, AppendInv, CommandInv, RequestSteps, IssueSteps, StartSteps

(* A reset cuts the flash operation short: done, not done, or torn. *)
LEMMA CutShortIs ==
    ASSUME Inv, CutShort
    PROVE  \/ /\ Kept /\ (torn' = torn \/ op.kind \in {"append", "eraseJournal"})
              /\ area' = area \/ LastStep = "none"
           \/ op.kind = "append" /\ Appended /\ torn' = torn /\ area' = area
           \/ op.kind = "eraseJournal" /\ Erased /\ torn' = FALSE /\ area' = area
<1>1. op.kind \in {"erasePages", "writeImage"} => LastStep = "none"
    BY DEF Inv, OpInv
<1>2. area' = area \/ (LastStep = "none" /\ op.kind \in {"erasePages", "writeImage"})
    BY <1>1 DEF CutShort
<1>3. CASE UNCHANGED <<journal, torn>>
    BY <1>2, <1>3, JournalKept DEF Kept
<1>4. CASE op.kind = "append" /\ journal' = Append(journal, op.record) /\ UNCHANGED torn
  <2>1. Appended
      BY <1>4, JournalAppended DEF Appended, Inv, OpTypes
  <2> QED BY <1>2, <1>4, <2>1
<1>5. CASE op.kind = "eraseJournal" /\ journal' = <<>> /\ torn' = FALSE
    BY <1>2, <1>5, JournalErased DEF Erased
<1>6. CASE op.kind \in {"append", "eraseJournal"} /\ torn' = TRUE /\ UNCHANGED journal
    BY <1>2, <1>6, JournalKept DEF Kept
<1> QED BY <1>3, <1>4, <1>5, <1>6 DEF CutShort

(* After a reset FUS has gone on with its command, or has not: an error is *)
(* only kept by a FUS that has no command.                                 *)
LEMMA FusIsReset ==
    ASSUME NEW job, FusAfterReset(job)
    PROVE  /\ fusJob' = job /\ (fusState' = "busy" => job # "none")
           /\ fusState' = "error" => job = "none" /\ fusState = "error" /\ fusError' = fusError
BY DEF FusAfterReset

-----------------------------------------------------------------------------
(* Every step keeps to the course. *)

(* CPU1 reads the journal. *)
LEMMA ResumeKeeps ==
    ASSUME Inv, Resume
    PROVE  Course'
<1>u. UNCHANGED <<cpu2, stack, fus, fusJob, fusState, fusError, fusFresh, resetTo, prepared,
                        procedure, target, outcome, commands, area, busySeen, codeless>>
    BY DEF Resume, services, held, poll, asked, flash
<1>a. /\ ~resumed /\ resumed' = TRUE /\ runningFirmware' = cpu2 /\ polling' = "none"
      /\ journal' = journal /\ torn' = torn
    BY DEF Resume, flash
<1>b. Kept
    BY <1>a, JournalKept DEF Kept
<1>c. IF torn
      THEN /\ lastRecord' = NoRecord /\ nextRecord' = 1 /\ op'.kind = "eraseJournal"
           /\ op'.then = "journalRead"
           /\ op' # NoOp /\ image' = image
      ELSE /\ nextRecord' = Length + 1 /\ lastRecord' = Last /\ (lastStepRepeated' <=> Repeated)
           /\ (LastStep # "none" => image' = Last.image)
           /\ op'.kind = "read" /\ op'.then = "journalRead" /\ op' # NoOp
  <2>1. CASE torn
    <3>1. EraseJournal("journalRead", noError) /\ image' = image
        BY <2>1 DEF Resume, InvalidRecord
    <3> QED BY <2>1, <3>1, EraseStarted
  <2>2. CASE ~torn
    <3>1. nextRecord' = Length + 1 /\ lastRecord' = Last /\ (lastStepRepeated' <=> Repeated)
        BY <2>2 DEF Resume, InvalidRecord, Length, Last, Repeated
    <3>2. op' = [NoOp EXCEPT !.kind = "read", !.then = "journalRead"]
        BY <2>2 DEF Resume, InvalidRecord
    <3>3. op'.kind = "read" /\ op'.then = "journalRead" /\ op' # NoOp
        BY <3>2 DEF NoOp
    <3>4. LastStep # "none" => image' = Last.image
        BY <2>2, NoOpIs DEF Resume, InvalidRecord, LastStep, Last
    <3> QED BY <2>2, <3>1, <3>3, <3>4
  <2> QED BY <2>1, <2>2
<1>d. UNCHANGED <<Length, Last, LastStep, Repeated>>
    BY <1>b DEF Kept
<1>v. Installed' <=> Installed
    BY <1>u DEF Installed
<1>1. JournalInv'
    BY <1>u, <1>d, <1>v DEF Inv, JournalInv
<1>2. CommandInv'
    BY <1>u, <1>d DEF Inv, CommandInv
<1>3. ReadInv'
    BY <1>u, <1>a, <1>c, <1>d DEF Inv, ReadInv
<1>4. AppendInv'
    BY <1>c DEF Inv, AppendInv
<1>5. EraseInv'
    BY <1>c DEF Inv, EraseInv
<1>6. OpInv'
    BY <1>u, <1>a, <1>c DEF Inv, ReadInv, OpInv, FusInv
<1>7. WaitInv'
    BY <1>u, <1>a, <1>c DEF Inv, ReadInv, WaitInv
<1>8. FusInv'
    BY <1>u, <1>a, <1>c, <1>d DEF Inv, FusInv
<1>9. PreparedInv'
    BY <1>u, <1>a DEF Inv, ReadInv, PreparedInv
<1>10. OutcomeInv'
    BY <1>u, <1>d, <1>v DEF Inv, OutcomeInv
<1> QED
    BY <1>1, <1>2, <1>3, <1>4, <1>5, <1>6, <1>7, <1>8, <1>9, <1>10 DEF Course

(* The journal is erased, and the application told. *)
LEMMA ReportWhenErasedKeeps ==
    ASSUME Inv, ReportWhenErased
    PROVE  Course'
<1>u. UNCHANGED <<cpu2, stack, fus, fusJob, fusState, fusError, fusFresh, resetTo, resumed,
                        runningFirmware, image, prepared, target, commands, area, polling,
                        busySeen, codeless>>
    BY DEF ReportWhenErased, services, held, poll, asked, flash, read
<1>a. PICK then \in {"deleteFailed", "installUnconfirmed", "started", "notStarted"} :
           /\ Completed(then)
           /\ Told(IF then = "started" THEN StartedResult(op.value)
                   ELSE IF then = "notStarted" THEN NotStartedResult(op.value) ELSE then)
    BY DEF ReportWhenErased
<1>b. /\ op.kind = "eraseJournal" /\ op.then = then /\ resumed /\ torn' = FALSE
      /\ Length' = 0 /\ Last' = NoRecord /\ LastStep' = "none"
      /\ polling = "none" /\ resetTo = "none"
    BY <1>a, CompletedIs DEF EraseThens, Erased
<1>c. op' = NoOp /\ UNCHANGED <<lastRecord, nextRecord>>
    BY <1>a DEF Told, ReportWhenErased, read
<1>d. outcome' = "installed" => then \in {"started", "notStarted"} /\ op.value = noError
    BY <1>a DEF Told, Report, StartedResult, NotStartedResult
<1>e. nextRecord' = 1
    BY <1>b, <1>c DEF Inv, ReadInv
<1>v. Installed' <=> Installed
    BY <1>u DEF Installed
<1>1. JournalInv'
    BY <1>b DEF Inv, JournalInv, InstallSteps, RequestSteps, StartSteps
<1>2. CommandInv'
    BY <1>u, <1>b DEF Inv, CommandInv, RequestSteps, IssueSteps
<1>3. ReadInv'
    BY <1>u, <1>b, <1>c, NoOpIs DEF Inv, ReadInv
<1>4. AppendInv'
    BY <1>c, NoOpIs DEF Inv, AppendInv
<1>5. EraseInv'
    BY <1>c, NoOpIs DEF Inv, EraseInv
<1>6. OpInv'
    BY <1>c, NoOpIs DEF Inv, OpInv
<1>7. WaitInv'
    BY <1>u, <1>b DEF Inv, WaitInv
<1>8. FusInv'
    BY <1>u, <1>b DEF Inv, FusInv
<1>9. PreparedInv'
    BY <1>u, <1>b DEF Inv, PreparedInv
<1>10. OutcomeInv'
    BY <1>b, <1>d, <1>v DEF Inv, EraseInv, OutcomeInv
<1> QED
    BY <1>1, <1>2, <1>3, <1>4, <1>5, <1>6, <1>7, <1>8, <1>9, <1>10 DEF Course

(* A delete is requested in the journal. *)
LEMMA DeleteJournalErasedKeeps ==
    ASSUME Inv, DeleteJournalErased
    PROVE  Course'
<1>u. UNCHANGED <<cpu2, stack, fus, fusJob, fusState, fusError, fusFresh, resetTo, resumed,
                        runningFirmware, image, prepared, procedure, target, outcome, commands,
                        area, polling, busySeen, codeless>>
    BY DEF DeleteJournalErased, services, held, poll, asked, flash
<1>a. /\ op.kind = "eraseJournal" /\ op.then = "appendDeleteRequested" /\ resumed /\ torn' = FALSE
      /\ Erased
      /\ polling = "none" /\ resetTo = "none"
    BY CompletedIs DEF DeleteJournalErased, EraseThens
<1>b. Length' = 0 /\ Last' = NoRecord /\ LastStep' = "none"
    BY <1>a DEF Erased
<1>c. /\ nextRecord' = nextRecord + 1
      /\ op'.kind = "append" /\ op'.then = "deleteRequested" /\ op'.value = 0 /\ op' # NoOp
      /\ op'.record.step = "deleteRequested" /\ op'.record.image = image /\ op'.record.value = 0
    BY AppendStarted DEF DeleteJournalErased
<1>v. Installed' <=> Installed
    BY <1>u DEF Installed
<1>1. JournalInv'
    BY <1>b DEF Inv, JournalInv, InstallSteps, RequestSteps, StartSteps
<1>2. CommandInv'
    BY <1>u, <1>b DEF Inv, CommandInv, RequestSteps, IssueSteps
<1>3. ReadInv'
    BY <1>u, <1>a, <1>b, <1>c DEF Inv, ReadInv
<1>4. AppendInv'
    BY <1>u, <1>a, <1>b, <1>c DEF Inv, AppendInv, EraseInv
<1>5. EraseInv'
    BY <1>c DEF Inv, EraseInv
<1>6. OpInv'
    BY <1>u, <1>a, <1>c DEF Inv, OpInv
<1>7. WaitInv'
    BY <1>u, <1>a, <1>b DEF Inv, WaitInv
<1>8. FusInv'
    BY <1>u, <1>a, <1>b DEF Inv, FusInv
<1>9. PreparedInv'
    BY <1>u, <1>a, <1>b DEF Inv, PreparedInv
<1>10. OutcomeInv'
    BY <1>u, <1>b, <1>v DEF Inv, OutcomeInv
<1> QED
    BY <1>1, <1>2, <1>3, <1>4, <1>5, <1>6, <1>7, <1>8, <1>9, <1>10 DEF Course

(* FUS is asked for, or is given the command. *)
LEMMA RequestedKeeps ==
    ASSUME Inv, Requested
    PROVE  Course'
<1>u. UNCHANGED <<cpu2, stack, fus, fusJob, fusState, fusError, fusFresh, resumed, runningFirmware,
                        image, prepared, procedure, target, outcome, commands, area, polling,
                        busySeen, codeless>>
    BY DEF Requested, services, held, poll, asked, flash, RequestFirmwareUpgradeServices
<1>a. /\ op.kind = "append" /\ op.then \in {"deleteRequested", "installRequested"} /\ resumed
      /\ torn' = torn /\ Appended /\ polling = "none" /\ resetTo = "none"
    BY CompletedIs DEF Requested, AppendThens
<1>b. Length' = Length + 1 /\ Last' = op.record /\ LastStep' = op.record.step
    BY <1>a DEF Appended
<1>c. IF runningFirmware = FUS
      THEN /\ resetTo' = resetTo /\ nextRecord' = nextRecord + 1
           /\ op'.kind = "append" /\ op' # NoOp /\ op'.record.image = image
           /\ op'.record.value = op'.value
           /\ op'.then = IF op.then = "deleteRequested" THEN "deleteIssued" ELSE "upgradeIssued"
           /\ op'.record.step = op'.then
      ELSE resetTo' = FUS /\ op' = NoOp /\ UNCHANGED <<lastRecord, nextRecord>>
  <2>1. CASE runningFirmware = FUS
    <3>1. UNCHANGED resetTo
        BY <2>1 DEF Requested, FUS
    <3>2. CASE op.then = "deleteRequested"
      <4>1. AppendRecord("deleteIssued", 0, "deleteIssued")
          BY <2>1, <3>2 DEF Requested, FUS, IssueDelete
      <4> QED BY <2>1, <3>1, <3>2, <4>1, AppendStarted
    <3>3. CASE op.then # "deleteRequested"
      <4>1. AppendRecord("upgradeIssued", ImageAddress, "upgradeIssued")
          BY <2>1, <3>3 DEF Requested, FUS, IssueUpgrade
      <4> QED BY <2>1, <3>1, <3>3, <4>1, AppendStarted
    <3> QED BY <3>2, <3>3
  <2>2. CASE runningFirmware # FUS
      BY <2>2 DEF Requested, FUS, RequestFirmwareUpgradeServices, KeepRead
  <2> QED BY <2>1, <2>2
<1>j. JournalInv' /\ CommandInv'
    BY <1>a, <1>u, JournalInvAppended, CommandInvAppended
<1>f. cpu2 \in {WirelessStack, FUS}
    BY Known DEF Firmware, WirelessStack, FUS
<1>v. Installed' <=> Installed
    BY <1>u DEF Installed
<1>1. JournalInv'
    BY <1>j
<1>2. CommandInv'
    BY <1>j
<1>3. ReadInv'
    BY <1>u, <1>a, <1>b, <1>c, Known, NoOpIs DEF Inv, ReadInv, AppendInv
<1>4. AppendInv'
    BY <1>u, <1>a, <1>b, <1>c, NoOpIs DEF Inv, ReadInv, AppendInv
<1>5. EraseInv'
    BY <1>c, NoOpIs DEF Inv, EraseInv
<1>6. OpInv'
    BY <1>u, <1>a, <1>c, NoOpIs DEF Inv, OpInv
<1>7. WaitInv'
    BY <1>u, <1>a, <1>b, <1>c DEF Inv, AppendInv, OpInv, WaitInv, FUS, RequestSteps
<1>8. FusInv'
    BY <1>u, <1>a, <1>b DEF Inv, JournalInv, AppendInv, FusInv, RequestSteps
<1>9. PreparedInv'
    BY <1>u, <1>a, <1>b DEF Inv, AppendInv, PreparedInv
<1>10. OutcomeInv'
    BY <1>u, <1>a DEF Inv, AppendInv, OutcomeInv
<1> QED
    BY <1>1, <1>2, <1>3, <1>4, <1>5, <1>6, <1>7, <1>8, <1>9, <1>10 DEF Course

(* FUS is told to delete the stack. *)
LEMMA DeleteIssuedKeeps ==
    ASSUME Inv, NEW accepted \in BOOLEAN, DeleteIssued(accepted)
    PROVE  Course'
<1>u. UNCHANGED <<cpu2, stack, fus, fusFresh, resetTo, resumed, runningFirmware, image, prepared,
                        procedure, target, outcome, area, codeless>>
    BY DEF DeleteIssued, services, held, poll, asked, flash
<1>a. /\ op.kind = "append" /\ op.then = "deleteIssued" /\ resumed /\ torn' = torn /\ Appended
      /\ polling = "none" /\ resetTo = "none"
    BY CompletedIs DEF DeleteIssued, AppendThens
<1>b. Length' = Length + 1 /\ Last' = op.record /\ LastStep' = op.record.step
    BY <1>a DEF Appended
<1>c. /\ commands'["delete"] = commands["delete"] + 1
      /\ \A other \in {"delete", "upgrade", "start", "reset"} \ {"delete"} :
           commands'[other] = commands[other]
  <2>1. TypeOK
      BY DEF Inv
  <2> QED BY <2>1, Counted DEF DeleteIssued
<1>d. IF accepted
      THEN /\ fusJob' = "delete" /\ fusState' = "idle" /\ polling' = "DeleteDone"
           /\ busySeen' = FALSE
           /\ op' = NoOp /\ nextRecord' = nextRecord
      ELSE /\ UNCHANGED <<fusJob, fusState, fusError, polling, busySeen>>
           /\ op' # NoOp
           /\ op'.kind = "eraseJournal" /\ op'.then = "deleteFailed" /\ lastRecord' = NoRecord
           /\ nextRecord' = 1
  <2>1. CASE accepted
      BY <2>1 DEF DeleteIssued, Accept, PollUntilDone, KeepRead
  <2>2. CASE ~accepted
      BY <2>2, EraseStarted, AppendStarted
         DEF DeleteIssued, StartWirelessStack, unknownError, services, poll
  <2> QED BY <2>1, <2>2
<1>j. JournalInv'
    BY <1>a, <1>u, JournalInvAppended
<1>f. commands["delete"] \in Nat /\ commands["upgrade"] \in Nat /\ commands["start"] \in Nat
    BY CommandTypes DEF Inv
<1>g. noError = 0
    BY DEF noError
<1>v. Installed' <=> Installed
    BY <1>u DEF Installed
<1>1. JournalInv'
    BY <1>j
<1>2. CommandInv'
    BY <1>a, <1>b, <1>c DEF Inv, CommandInv, AppendInv, RequestSteps
<1>3. ReadInv'
    BY <1>u, <1>a, <1>b, <1>d, Known, NoOpIs DEF Inv, ReadInv, AppendInv
<1>4. AppendInv'
    BY <1>d, NoOpIs DEF Inv, AppendInv
<1>5. EraseInv'
    BY <1>d, NoOpIs DEF Inv, EraseInv
<1>6. OpInv'
    BY <1>u, <1>a, <1>d, NoOpIs DEF Inv, OpInv
<1>7. WaitInv'
    BY <1>u, <1>a, <1>b, <1>d DEF Inv, AppendInv, WaitInv
<1>8. FusInv'
    BY <1>u, <1>a, <1>b, <1>d DEF Inv, ReadInv, AppendInv, FusInv
<1>9. PreparedInv'
    BY <1>u, <1>a DEF Inv, AppendInv, PreparedInv
<1>10. OutcomeInv'
    BY <1>u, <1>a DEF Inv, AppendInv, OutcomeInv
<1> QED
    BY <1>1, <1>2, <1>3, <1>4, <1>5, <1>6, <1>7, <1>8, <1>9, <1>10 DEF Course

(* FUS is told to install the image. *)
LEMMA UpgradeIssuedKeeps ==
    ASSUME Inv, NEW accepted \in BOOLEAN, UpgradeIssued(accepted)
    PROVE  Course'
<1>u. UNCHANGED <<cpu2, stack, fus, fusFresh, resetTo, resumed, runningFirmware, image, prepared,
                        procedure, target, outcome, area, codeless>>
    BY DEF UpgradeIssued, services, held, poll, asked, flash
<1>a. /\ op.kind = "append" /\ op.then = "upgradeIssued" /\ resumed /\ torn' = torn /\ Appended
      /\ polling = "none" /\ resetTo = "none"
    BY CompletedIs DEF UpgradeIssued, AppendThens
<1>b. Length' = Length + 1 /\ Last' = op.record /\ LastStep' = op.record.step
    BY <1>a DEF Appended
<1>c. /\ commands'["upgrade"] = commands["upgrade"] + 1
      /\ \A other \in {"delete", "upgrade", "start", "reset"} \ {"upgrade"} :
           commands'[other] = commands[other]
  <2>1. TypeOK
      BY DEF Inv
  <2> QED BY <2>1, Counted DEF UpgradeIssued
<1>d. IF accepted
      THEN /\ fusJob' = "upgrade" /\ fusState' = "idle" /\ polling' = "UpgradeDone"
           /\ busySeen' = FALSE
           /\ op' = NoOp /\ nextRecord' = nextRecord
      ELSE /\ UNCHANGED <<fusJob, fusState, fusError, polling, busySeen>>
           /\ op' # NoOp
           /\ op'.kind = "append" /\ op'.then = "startIssued" /\ op'.value = 255
           /\ nextRecord' = nextRecord + 1
           /\ op'.record.step = "wirelessStackStartIssued" /\ op'.record.image = image
           /\ op'.record.value = 255
  <2>1. CASE accepted
      BY <2>1 DEF UpgradeIssued, Accept, PollUntilDone, KeepRead
  <2>2. CASE ~accepted
      BY <2>2, EraseStarted, AppendStarted
         DEF UpgradeIssued, StartWirelessStack, unknownError, services, poll
  <2> QED BY <2>1, <2>2
<1>j. JournalInv'
    BY <1>a, <1>u, JournalInvAppended
<1>f. commands["delete"] \in Nat /\ commands["upgrade"] \in Nat /\ commands["start"] \in Nat
    BY CommandTypes DEF Inv
<1>g. noError = 0
    BY DEF noError
<1>v. Installed' <=> Installed
    BY <1>u DEF Installed
<1>1. JournalInv'
    BY <1>j
<1>2. CommandInv'
    BY <1>a, <1>b, <1>c DEF Inv, CommandInv, AppendInv, RequestSteps
<1>3. ReadInv'
    BY <1>u, <1>a, <1>b, <1>d, Known, NoOpIs DEF Inv, ReadInv, AppendInv
<1>4. AppendInv'
    BY <1>u, <1>a, <1>b, <1>d, <1>g, NoOpIs DEF Inv, AppendInv
<1>5. EraseInv'
    BY <1>d, NoOpIs DEF Inv, EraseInv
<1>6. OpInv'
    BY <1>u, <1>a, <1>d, NoOpIs DEF Inv, OpInv
<1>7. WaitInv'
    BY <1>u, <1>a, <1>b, <1>d DEF Inv, AppendInv, WaitInv
<1>8. FusInv'
    BY <1>u, <1>a, <1>b, <1>d DEF Inv, ReadInv, AppendInv, FusInv
<1>9. PreparedInv'
    BY <1>u, <1>a, <1>b DEF Inv, AppendInv, PreparedInv
<1>10. OutcomeInv'
    BY <1>u, <1>a DEF Inv, AppendInv, OutcomeInv
<1> QED
    BY <1>1, <1>2, <1>3, <1>4, <1>5, <1>6, <1>7, <1>8, <1>9, <1>10 DEF Course

(* FUS is told to start the stack. *)
LEMMA StartIssuedKeeps ==
    ASSUME Inv, NEW accepted \in BOOLEAN, StartIssued(accepted)
    PROVE  Course'
<1>u. UNCHANGED <<cpu2, stack, fus, fusJob, fusState, fusError, fusFresh, resumed, runningFirmware,
                        image, prepared, procedure, target, outcome, area, polling, busySeen, codeless>>
    BY DEF StartIssued, services, held, poll, asked, flash
<1>a. /\ op.kind = "append" /\ op.then = "startIssued" /\ resumed /\ torn' = torn /\ Appended
      /\ polling = "none" /\ resetTo = "none"
    BY CompletedIs DEF StartIssued, AppendThens
<1>b. Length' = Length + 1 /\ Last' = op.record /\ LastStep' = op.record.step
    BY <1>a DEF Appended
<1>c. /\ commands'["start"] = commands["start"] + 1
      /\ \A other \in {"delete", "upgrade", "start", "reset"} \ {"start"} :
           commands'[other] = commands[other]
  <2>1. TypeOK
      BY DEF Inv
  <2> QED BY <2>1, Counted DEF StartIssued
<1>d. IF accepted
      THEN resetTo' = WirelessStack /\ op' = NoOp /\ nextRecord' = nextRecord
      ELSE /\ resetTo' = resetTo /\ op' # NoOp
           /\ op'.kind = "eraseJournal" /\ op'.then = "notStarted" /\ op'.value = op.value
           /\ lastRecord' = NoRecord /\ nextRecord' = 1
  <2>1. CASE accepted
      BY <2>1 DEF StartIssued, KeepRead, WirelessStack
  <2>2. CASE ~accepted
      BY <2>2, EraseStarted DEF StartIssued
  <2> QED BY <2>1, <2>2
<1>j. JournalInv'
    BY <1>a, <1>u, JournalInvAppended
<1>f. commands["delete"] \in Nat /\ commands["upgrade"] \in Nat /\ commands["start"] \in Nat
    BY CommandTypes DEF Inv
<1>v. Installed' <=> Installed
    BY <1>u DEF Installed
<1>1. JournalInv'
    BY <1>j
<1>2. CommandInv'
    BY <1>a, <1>b, <1>c, <1>f DEF Inv, CommandInv, AppendInv, RequestSteps, IssueSteps
<1>3. ReadInv'
    BY <1>u, <1>a, <1>b, <1>d, Known, NoOpIs DEF Inv, ReadInv, AppendInv
<1>4. AppendInv'
    BY <1>d, NoOpIs DEF Inv, AppendInv
<1>5. EraseInv'
    BY <1>u, <1>a, <1>b, <1>d, <1>j, <1>v, NoOpIs
       DEF Inv, JournalInv, AppendInv, EraseInv, InstallSteps
<1>6. OpInv'
    BY <1>u, <1>a, <1>d, NoOpIs DEF Inv, OpInv
<1>7. WaitInv'
    BY <1>u, <1>a, <1>d DEF Inv, OpInv, WaitInv, WirelessStack
<1>8. FusInv'
    BY <1>u, <1>a DEF Inv, AppendInv, FusInv
<1>9. PreparedInv'
    BY <1>u, <1>a, <1>b DEF Inv, AppendInv, PreparedInv
<1>10. OutcomeInv'
    BY <1>u, <1>a DEF Inv, AppendInv, OutcomeInv
<1> QED
    BY <1>1, <1>2, <1>3, <1>4, <1>5, <1>6, <1>7, <1>8, <1>9, <1>10 DEF Course

(* The pages of the image are erased once the journal is. *)
LEMMA PrepareJournalErasedKeeps ==
    ASSUME Inv, PrepareJournalErased
    PROVE  Course'
<1>u. UNCHANGED <<cpu2, stack, fus, fusJob, fusState, fusError, fusFresh, resetTo, resumed,
                        runningFirmware, image, prepared, procedure, target, outcome, commands,
                        area, polling, busySeen, codeless>>
    BY DEF PrepareJournalErased, services, held, poll, asked, flash, read
<1>a. /\ op.kind = "eraseJournal" /\ op.then = "erasePages" /\ resumed /\ torn' = FALSE /\ Erased
      /\ polling = "none" /\ resetTo = "none"
    BY CompletedIs DEF PrepareJournalErased, EraseThens
<1>b. Length' = 0 /\ Last' = NoRecord /\ LastStep' = "none"
    BY <1>a DEF Erased
<1>c. /\ op'.kind = "erasePages" /\ op'.then = "prepared" /\ op' # NoOp
      /\ UNCHANGED <<lastRecord, nextRecord>>
    BY ImageOpStarted DEF PrepareJournalErased, read
<1>v. Installed' <=> Installed
    BY <1>u DEF Installed
<1>1. JournalInv'
    BY <1>b DEF Inv, JournalInv, InstallSteps, RequestSteps, StartSteps
<1>2. CommandInv'
    BY <1>u, <1>b DEF Inv, CommandInv, RequestSteps, IssueSteps
<1>3. ReadInv'
    BY <1>u, <1>a, <1>b, <1>c DEF Inv, ReadInv
<1>4. AppendInv'
    BY <1>c DEF Inv, AppendInv
<1>5. EraseInv'
    BY <1>c DEF Inv, EraseInv
<1>6. OpInv'
    BY <1>u, <1>a, <1>b, <1>c DEF Inv, EraseInv, OpInv
<1>7. WaitInv'
    BY <1>u, <1>a, <1>b DEF Inv, WaitInv
<1>8. FusInv'
    BY <1>u, <1>a, <1>b DEF Inv, FusInv
<1>9. PreparedInv'
    BY <1>u, <1>a, <1>b DEF Inv, PreparedInv
<1>10. OutcomeInv'
    BY <1>u, <1>b, <1>v DEF Inv, OutcomeInv
<1> QED
    BY <1>1, <1>2, <1>3, <1>4, <1>5, <1>6, <1>7, <1>8, <1>9, <1>10 DEF Course

(* The pages are erased. *)
LEMMA PagesErasedKeeps ==
    ASSUME Inv, PagesErased
    PROVE  Course'
<1>u. UNCHANGED <<cpu2, stack, fus, fusJob, fusState, fusError, fusFresh, resetTo, resumed,
                        runningFirmware, image, procedure, target, outcome, commands, polling,
                        busySeen, codeless>>
    BY DEF PagesErased, services, held, poll, asked, flash, read
<1>a. /\ op.kind \in {"erasePages", "writeImage"} /\ op.then = "prepared" /\ resumed /\ torn' = torn
      /\ Kept
      /\ polling = "none" /\ resetTo = "none"
    BY CompletedIs DEF PagesErased, ImageThens
<1>b. UNCHANGED <<Length, Last, LastStep, Repeated>>
    BY <1>a DEF Kept
<1>c. op' = NoOp /\ UNCHANGED <<lastRecord, nextRecord>> /\ prepared' = "prepared"
    BY DEF PagesErased, read
<1>v. Installed' <=> Installed
    BY <1>u DEF Installed
<1>1. JournalInv'
    BY <1>u, <1>a, <1>b, <1>v DEF Inv, JournalInv, OpInv
<1>2. CommandInv'
    BY <1>u, <1>b DEF Inv, CommandInv
<1>3. ReadInv'
    BY <1>u, <1>a, <1>b, <1>c, NoOpIs DEF Inv, ReadInv
<1>4. AppendInv'
    BY <1>c, NoOpIs DEF Inv, AppendInv
<1>5. EraseInv'
    BY <1>c, NoOpIs DEF Inv, EraseInv
<1>6. OpInv'
    BY <1>c, NoOpIs DEF Inv, OpInv
<1>7. WaitInv'
    BY <1>u, <1>a, <1>b DEF Inv, OpInv, WaitInv
<1>8. FusInv'
    BY <1>u, <1>a, <1>b DEF Inv, FusInv
<1>9. PreparedInv'
    BY <1>a, <1>b, <1>c DEF Inv, OpInv, PreparedInv
<1>10. OutcomeInv'
    BY <1>u, <1>b, <1>v DEF Inv, OutcomeInv
<1> QED
    BY <1>1, <1>2, <1>3, <1>4, <1>5, <1>6, <1>7, <1>8, <1>9, <1>10 DEF Course

(* What Write was given is written. *)
LEMMA WrittenKeeps ==
    ASSUME Inv, Written
    PROVE  Course'
<1>u. UNCHANGED <<cpu2, stack, fus, fusJob, fusState, fusError, fusFresh, resetTo, resumed,
                        runningFirmware, image, procedure, target, outcome, commands, polling,
                        busySeen, codeless>>
    BY DEF Written, services, held, poll, asked, flash, read
<1>a. /\ op.kind \in {"erasePages", "writeImage"} /\ op.then = "written" /\ resumed /\ torn' = torn
      /\ Kept
      /\ polling = "none" /\ resetTo = "none"
    BY CompletedIs DEF Written, ImageThens
<1>b. UNCHANGED <<Length, Last, LastStep, Repeated>>
    BY <1>a DEF Kept
<1>c. /\ op' = NoOp /\ UNCHANGED <<lastRecord, nextRecord>>
      /\ prepared' = "written" => area' = image
    BY DEF Written, read
<1>v. Installed' <=> Installed
    BY <1>u DEF Installed
<1>1. JournalInv'
    BY <1>u, <1>a, <1>b, <1>v DEF Inv, JournalInv, OpInv
<1>2. CommandInv'
    BY <1>u, <1>b DEF Inv, CommandInv
<1>3. ReadInv'
    BY <1>u, <1>a, <1>b, <1>c, NoOpIs DEF Inv, ReadInv
<1>4. AppendInv'
    BY <1>c, NoOpIs DEF Inv, AppendInv
<1>5. EraseInv'
    BY <1>c, NoOpIs DEF Inv, EraseInv
<1>6. OpInv'
    BY <1>c, NoOpIs DEF Inv, OpInv
<1>7. WaitInv'
    BY <1>u, <1>a, <1>b DEF Inv, OpInv, WaitInv
<1>8. FusInv'
    BY <1>u, <1>a, <1>b DEF Inv, FusInv
<1>9. PreparedInv'
    BY <1>u, <1>a, <1>b, <1>c DEF Inv, OpInv, PreparedInv
<1>10. OutcomeInv'
    BY <1>u, <1>b, <1>v DEF Inv, OutcomeInv
<1> QED
    BY <1>1, <1>2, <1>3, <1>4, <1>5, <1>6, <1>7, <1>8, <1>9, <1>10 DEF Course

(* The last bytes are written, and the install requested in the journal. *)
LEMMA TailWrittenKeeps ==
    ASSUME Inv, TailWritten
    PROVE  Course'
<1>u. UNCHANGED <<cpu2, stack, fus, fusJob, fusState, fusError, fusFresh, resetTo, resumed,
                        runningFirmware, image, prepared, procedure, target, outcome, commands,
                        polling, busySeen, codeless>>
    BY DEF TailWritten, services, held, poll, asked, flash
<1>a. /\ op.kind \in {"erasePages", "writeImage"} /\ op.then = "installTail" /\ resumed
      /\ torn' = torn /\ Kept
      /\ polling = "none" /\ resetTo = "none"
    BY CompletedIs DEF TailWritten, ImageThens
<1>b. UNCHANGED <<Length, Last, LastStep, Repeated>>
    BY <1>a DEF Kept
<1>c. /\ area' = image /\ nextRecord' = nextRecord + 1
      /\ op'.kind = "append" /\ op'.then = "installRequested" /\ op'.value = 512 /\ op' # NoOp
      /\ op'.record.step = "installRequested" /\ op'.record.image = image /\ op'.record.value = 512
    BY AppendStarted DEF TailWritten, RequestInstall, ImageAddress
<1>v. Installed' <=> Installed
    BY <1>u DEF Installed
<1>1. JournalInv'
    BY <1>u, <1>a, <1>b, <1>c, <1>v DEF Inv, JournalInv, ReadInv, InstallSteps
<1>2. CommandInv'
    BY <1>u, <1>b DEF Inv, CommandInv
<1>3. ReadInv'
    BY <1>u, <1>a, <1>b, <1>c, Known DEF Inv, ReadInv
<1>4. AppendInv'
    BY <1>u, <1>a, <1>b, <1>c DEF Inv, AppendInv, OpInv
<1>5. EraseInv'
    BY <1>c DEF Inv, EraseInv
<1>6. OpInv'
    BY <1>u, <1>a, <1>c DEF Inv, OpInv
<1>7. WaitInv'
    BY <1>u, <1>a, <1>c DEF Inv, WaitInv
<1>8. FusInv'
    BY <1>u, <1>a, <1>b DEF Inv, FusInv
<1>9. PreparedInv'
    BY <1>u, <1>b, <1>c DEF Inv, PreparedInv
<1>10. OutcomeInv'
    BY <1>u, <1>b, <1>v DEF Inv, OutcomeInv
<1> QED
    BY <1>1, <1>2, <1>3, <1>4, <1>5, <1>6, <1>7, <1>8, <1>9, <1>10 DEF Course

(* The application prepares an image. *)
LEMMA PrepareKeeps ==
    ASSUME Inv, NEW img \in Image, Prepare(img)
    PROVE  Course'
<1>u. UNCHANGED <<cpu2, stack, fus, fusJob, fusState, fusError, fusFresh, resetTo, resumed,
                        runningFirmware, procedure, target, outcome, commands, area, polling,
                        busySeen, codeless>>
    BY DEF Prepare, services, held, poll, asked, flash
<1>b. UNCHANGED <<Length, Last, LastStep, Repeated>> /\ torn' = torn
    BY JournalKept DEF Prepare, flash
<1>c. /\ AtRest /\ prepared' = "no" /\ lastRecord' = NoRecord /\ nextRecord' = 1
      /\ op'.kind = "eraseJournal" /\ op'.then = "erasePages" /\ op' # NoOp
    BY EraseStarted DEF Prepare
<1>d. resumed /\ op = NoOp /\ polling = "none" /\ resetTo = "none" /\ procedure = "none"
    BY <1>c DEF AtRest
<1>v. Installed' <=> Installed
    BY <1>u DEF Installed
<1>1. JournalInv'
    BY <1>u, <1>b, <1>v DEF Inv, JournalInv
<1>2. CommandInv'
    BY <1>u, <1>b DEF Inv, CommandInv
<1>3. ReadInv'
    BY <1>u, <1>c, <1>d DEF Inv, ReadInv
<1>4. AppendInv'
    BY <1>c DEF Inv, AppendInv
<1>5. EraseInv'
    BY <1>c DEF Inv, EraseInv
<1>6. OpInv'
    BY <1>u, <1>c, <1>d, NoOpIs DEF Inv, OpInv, FusInv
<1>7. WaitInv'
    BY <1>u, <1>b, <1>d DEF Inv, WaitInv
<1>8. FusInv'
    BY <1>u, <1>b, <1>d, NoOpIs DEF Inv, FusInv
<1>9. PreparedInv'
    BY <1>c DEF Inv, PreparedInv
<1>10. OutcomeInv'
    BY <1>u, <1>b, <1>v DEF Inv, OutcomeInv
<1> QED
    BY <1>1, <1>2, <1>3, <1>4, <1>5, <1>6, <1>7, <1>8, <1>9, <1>10 DEF Course

(* The application writes the image. *)
LEMMA WriteKeeps ==
    ASSUME Inv, Write
    PROVE  Course'
<1>u. UNCHANGED <<cpu2, stack, fus, fusJob, fusState, fusError, fusFresh, resetTo, resumed,
                        runningFirmware, image, prepared, procedure, target, outcome, commands,
                        area, polling, busySeen, codeless>>
    BY DEF Write, services, held, poll, asked, flash, read
<1>b. UNCHANGED <<Length, Last, LastStep, Repeated>> /\ torn' = torn
    BY JournalKept DEF Write, flash
<1>c. /\ AtRest /\ prepared = "prepared" /\ UNCHANGED <<lastRecord, nextRecord>>
      /\ op'.kind = "writeImage" /\ op'.then = "written" /\ op' # NoOp
    BY ImageOpStarted DEF Write, read
<1>d. resumed /\ op = NoOp /\ polling = "none" /\ resetTo = "none" /\ procedure = "none"
    BY <1>c DEF AtRest
<1>v. Installed' <=> Installed
    BY <1>u DEF Installed
<1>1. JournalInv'
    BY <1>u, <1>b, <1>v DEF Inv, JournalInv
<1>2. CommandInv'
    BY <1>u, <1>b DEF Inv, CommandInv
<1>3. ReadInv'
    BY <1>u, <1>b, <1>c, <1>d, NoOpIs DEF Inv, ReadInv
<1>4. AppendInv'
    BY <1>c DEF Inv, AppendInv
<1>5. EraseInv'
    BY <1>c DEF Inv, EraseInv
<1>6. OpInv'
    BY <1>u, <1>b, <1>c, <1>d DEF Inv, OpInv, WaitInv, FusInv, PreparedInv
<1>7. WaitInv'
    BY <1>u, <1>b, <1>d DEF Inv, WaitInv
<1>8. FusInv'
    BY <1>u, <1>b, <1>d, NoOpIs DEF Inv, FusInv
<1>9. PreparedInv'
    BY <1>u, <1>b, <1>c DEF Inv, PreparedInv
<1>10. OutcomeInv'
    BY <1>u, <1>b, <1>v DEF Inv, OutcomeInv
<1> QED
    BY <1>1, <1>2, <1>3, <1>4, <1>5, <1>6, <1>7, <1>8, <1>9, <1>10 DEF Course

(* The application installs the image it prepared. *)
LEMMA InstallKeeps ==
    ASSUME Inv, Install
    PROVE  Course'
<1>u. UNCHANGED <<cpu2, fusJob, fusState, fusError, fusFresh, resetTo, resumed, runningFirmware,
                        image, area, polling, busySeen>>
    BY DEF Install, services, held, poll, asked, flash, NewProcedure
<1>b. UNCHANGED <<Length, Last, LastStep, Repeated>> /\ torn' = torn
    BY JournalKept DEF Install, flash
<1>c. /\ AtRest /\ prepared \in {"written", "tail"} /\ target' = image /\ outcome' = "none"
      /\ commands' = NoCommands
      /\ prepared' = "written" /\ (stack # "none" => stack' # "none")
      /\ op' # NoOp
      /\ IF prepared = "written"
         THEN /\ nextRecord' = nextRecord + 1
              /\ op'.kind = "append" /\ op'.then = "installRequested" /\ op'.value = 512
              /\ op'.record.step = "installRequested" /\ op'.record.image = image
              /\ op'.record.value = 512
         ELSE /\ op'.kind = "writeImage" /\ op'.then = "installTail"
              /\ UNCHANGED <<lastRecord, nextRecord>>
  <2>1. CASE prepared = "written"
      BY <2>1, AppendStarted DEF Install, NewProcedure, RequestInstall, ImageAddress
  <2>2. CASE prepared # "written"
      BY <2>2, ImageOpStarted DEF Install, NewProcedure, KeepRead
  <2> QED BY <2>1, <2>2
<1>d. resumed /\ op = NoOp /\ polling = "none" /\ resetTo = "none" /\ procedure = "none"
    BY <1>c DEF AtRest
<1>e. LastStep = "none"
    BY <1>c, <1>d, Known DEF Inv, WaitInv, PreparedInv
<1>v. op.then = "none"
    BY <1>d, NoOpIs
<1>w. /\ commands'["delete"] = 0 /\ commands'["upgrade"] = 0 /\ commands'["start"] = 0
      /\ commands'["reset"] = 0
    BY <1>c, NoCommandsIs
<1>1. JournalInv'
    BY <1>b, <1>e DEF Inv, JournalInv, InstallSteps, StartSteps
<1>2. CommandInv'
    BY <1>w DEF Inv, CommandInv
<1>3. ReadInv'
    BY <1>u, <1>b, <1>c, <1>d, Known, NoOpIs DEF Inv, ReadInv
<1>4. AppendInv'
    BY <1>u, <1>b, <1>c, <1>e, <1>v DEF Inv, AppendInv, PreparedInv
<1>5. EraseInv'
    BY <1>c DEF Inv, EraseInv
<1>6. OpInv'
    BY <1>u, <1>b, <1>c, <1>d, <1>e DEF Inv, OpInv, FusInv
<1>7. WaitInv'
    BY <1>u, <1>b, <1>d DEF Inv, WaitInv
<1>f. codeless' = (fusState = "error" /\ fusError = noError)
    BY DEF Install, NewProcedure
<1>8. FusInv'
    BY <1>u, <1>b, <1>c, <1>d, <1>f, NoOpIs DEF Inv, FusInv
<1>9. PreparedInv'
    BY <1>u, <1>b, <1>c, <1>v DEF Inv, PreparedInv
<1>10. OutcomeInv'
    BY <1>c DEF Inv, OutcomeInv
<1> QED
    BY <1>1, <1>2, <1>3, <1>4, <1>5, <1>6, <1>7, <1>8, <1>9, <1>10 DEF Course

(* The application deletes the stack. *)
LEMMA DeleteWirelessStackKeeps ==
    ASSUME Inv, DeleteWirelessStack
    PROVE  Course'
<1>u. UNCHANGED <<cpu2, fusJob, fusState, fusError, fusFresh, resetTo, resumed, runningFirmware,
                        area, polling, busySeen>>
    BY DEF DeleteWirelessStack, services, held, poll, asked, flash, NewProcedure
<1>b. UNCHANGED <<Length, Last, LastStep, Repeated>> /\ torn' = torn
    BY JournalKept DEF DeleteWirelessStack, flash
<1>c. /\ AtRest /\ outcome' = "none" /\ commands' = NoCommands
      /\ prepared' = "no" /\ (stack # "none" => stack' # "none")
      /\ lastRecord' = NoRecord /\ nextRecord' = 1
      /\ op'.kind = "eraseJournal" /\ op'.then = "appendDeleteRequested" /\ op' # NoOp
    BY EraseStarted DEF DeleteWirelessStack, NewProcedure
<1>d. resumed /\ op = NoOp /\ polling = "none" /\ resetTo = "none" /\ procedure = "none"
    BY <1>c DEF AtRest
<1>v. LastStep \in {"none", "deleteIssued"}
    BY <1>d DEF Inv, WaitInv
<1>w. /\ commands'["delete"] = 0 /\ commands'["upgrade"] = 0 /\ commands'["start"] = 0
      /\ commands'["reset"] = 0
    BY <1>c, NoCommandsIs
<1>1. JournalInv'
    BY <1>b, <1>v DEF Inv, JournalInv, InstallSteps, StartSteps
<1>2. CommandInv'
    BY <1>w DEF Inv, CommandInv
<1>3. ReadInv'
    BY <1>u, <1>c, <1>d DEF Inv, ReadInv
<1>4. AppendInv'
    BY <1>c DEF Inv, AppendInv
<1>5. EraseInv'
    BY <1>c DEF Inv, EraseInv
<1>6. OpInv'
    BY <1>u, <1>c, <1>d, NoOpIs DEF Inv, OpInv, FusInv
<1>7. WaitInv'
    BY <1>u, <1>b, <1>d DEF Inv, WaitInv
<1>f. codeless' = (fusState = "error" /\ fusError = noError)
    BY DEF DeleteWirelessStack, NewProcedure
<1>8. FusInv'
    BY <1>u, <1>b, <1>c, <1>d, <1>f, NoOpIs DEF Inv, FusInv
<1>9. PreparedInv'
    BY <1>c DEF Inv, PreparedInv
<1>10. OutcomeInv'
    BY <1>c DEF Inv, OutcomeInv
<1> QED
    BY <1>1, <1>2, <1>3, <1>4, <1>5, <1>6, <1>7, <1>8, <1>9, <1>10 DEF Course

(* CPU1 asks FUS whether it is done. *)
LEMMA PollKeeps ==
    ASSUME Inv, FusBeginsInTime, Poll
    PROVE  Course'
<1>u. UNCHANGED <<cpu2, stack, fus, fusJob, fusState, fusError, fusFresh, resetTo, resumed,
                        runningFirmware, image, prepared, target, commands, area, codeless>>
    BY DEF Poll, services, held, poll, asked, flash
<1>b. UNCHANGED <<Length, Last, LastStep, Repeated>> /\ torn' = torn
    BY JournalKept DEF Poll, flash
<1>a. /\ polling # "none" /\ op = NoOp /\ resetTo = "none" /\ cpu2 = FUS /\ resumed
      /\ LastStep = (IF polling = "DeleteDone" THEN "deleteIssued" ELSE "upgradeIssued")
      /\ ~fusFresh
  <2>1. polling # "none"
      BY DEF Poll
  <2> QED BY <2>1, Known DEF Inv, WaitInv, ReadInv, FusInv, RequestSteps
<1>s. /\ GetStatus.state = fusState
      /\ GetStatus.errorCode = IF fusState = "error" THEN fusError ELSE noError
    BY <1>a DEF GetStatus
<1>w. \/ /\ polling' = polling /\ op' = op
         /\ UNCHANGED <<lastRecord, nextRecord, outcome, procedure>>
         /\ busySeen' = (busySeen \/ fusState = "busy")
      \/ /\ polling' = "none" /\ fusJob = "none" /\ fusState # "busy"
         /\ IF polling = "DeleteDone" THEN DeleteDone(GetStatus) ELSE UpgradeDone(GetStatus)
  <2>1. CASE fusState = "busy"
      BY <2>1, <1>s DEF Poll, KeepRead
  <2>2. CASE fusState = "error"
    <3>1. fusJob = "none"
        BY <2>2 DEF Inv, FusInv
    <3> QED BY <2>2, <3>1, <1>s DEF Poll
  <2>3. CASE fusState = "idle" /\ fusJob = "none"
      BY <2>3, <1>s DEF Poll, KeepRead
  <2>4. CASE fusState = "idle" /\ fusJob # "none"
      BY <2>4, <1>s DEF Poll, KeepRead
  <2> QED BY <2>1, <2>2, <2>3, <2>4, Known
<1>d. \/ /\ polling' = polling /\ op' = op
         /\ UNCHANGED <<lastRecord, nextRecord, outcome, procedure>>
         /\ busySeen' = (busySeen \/ fusState = "busy")
      \/ /\ polling' = "none" /\ fusJob = "none" /\ polling = "DeleteDone"
         /\ outcome' = "readyForImage" /\ op' = op /\ UNCHANGED <<lastRecord, nextRecord>>
      \/ /\ polling' = "none" /\ fusJob = "none" /\ polling = "DeleteDone" /\ outcome' = outcome
         /\ lastRecord' = NoRecord /\ nextRecord' = 1
         /\ op'.kind = "eraseJournal" /\ op'.then = "deleteFailed" /\ op' # NoOp
      \/ /\ polling' = "none" /\ fusJob = "none" /\ polling # "DeleteDone" /\ outcome' = outcome
         /\ nextRecord' = nextRecord + 1 /\ op' # NoOp
         /\ op'.kind = "append" /\ op'.then = "startIssued" /\ op'.value = UpgradeResult(GetStatus)
         /\ op'.record.step = "wirelessStackStartIssued" /\ op'.record.image = image
         /\ op'.record.value = UpgradeResult(GetStatus)
  <2>1. CASE /\ polling' = polling /\ op' = op
             /\ UNCHANGED <<lastRecord, nextRecord, outcome, procedure>>
             /\ busySeen' = (busySeen \/ fusState = "busy")
      BY <2>1
  <2>2. CASE /\ polling' = "none" /\ fusJob = "none" /\ polling = "DeleteDone"
             /\ DeleteDone(GetStatus)
             /\ GetStatus.state = "idle"
      BY <2>2 DEF DeleteDone, Report, KeepRead
  <2>3. CASE /\ polling' = "none" /\ fusJob = "none" /\ polling = "DeleteDone"
             /\ DeleteDone(GetStatus)
             /\ GetStatus.state # "idle"
    <3>1. EraseJournal("deleteFailed", GetStatus.errorCode) /\ outcome' = outcome
        BY <2>3 DEF DeleteDone
    <3> QED BY <2>3, <3>1, EraseStarted
  <2>4. CASE /\ polling' = "none" /\ fusJob = "none" /\ polling # "DeleteDone"
             /\ UpgradeDone(GetStatus)
    <3>1. /\ AppendRecord("wirelessStackStartIssued", UpgradeResult(GetStatus), "startIssued")
          /\ outcome' = outcome
        BY <2>4 DEF UpgradeDone, StartWirelessStack
    <3> QED BY <2>4, <3>1, AppendStarted
  <2> QED BY <1>w, <2>1, <2>2, <2>3, <2>4
<1>r. polling' = "none" /\ fusJob = "none" /\ polling # "DeleteDone"
        /\ UpgradeResult(GetStatus) = noError => Installed
  <2>1. SUFFICES ASSUME polling # "DeleteDone", fusJob = "none", UpgradeResult(GetStatus) = noError
                 PROVE  Installed
      OBVIOUS
  <2>2. polling = "UpgradeDone"
      BY <2>1, <1>a, Known
  <2>3. CASE fusState = "error"
    <3>1. fusError = noError
        BY <2>1, <2>3, <1>s DEF UpgradeResult
    <3> QED BY <2>3, <3>1 DEF Inv, FusInv, Installed
  <2>4. CASE fusState # "error"
    <3>1. busySeen
        BY <2>1, <2>4, <1>s DEF UpgradeResult, noError, installUnconfirmed
    <3> QED BY <2>1, <2>2, <2>4, <3>1 DEF Inv, WaitInv
  <2> QED BY <2>3, <2>4
<1>v. Installed' <=> Installed
    BY <1>u DEF Installed
<1>1. JournalInv'
    BY <1>u, <1>b, <1>v DEF Inv, JournalInv
<1>2. CommandInv'
    BY <1>u, <1>b DEF Inv, CommandInv
<1>3. ReadInv'
    BY <1>u, <1>b, <1>a, <1>d, Known, NoOpIs DEF Inv, ReadInv
<1>4. AppendInv'
    BY <1>u, <1>b, <1>a, <1>d, <1>r, <1>v DEF Inv, AppendInv, OutcomeInv
<1>5. EraseInv'
    BY <1>a, <1>d, NoOpIs DEF Inv, EraseInv
<1>6. OpInv'
    BY <1>u, <1>a, <1>d DEF Inv, OpInv
<1>7. WaitInv'
    BY <1>u, <1>b, <1>a, <1>d, <1>v, Known DEF Inv, WaitInv, FusInv
<1>8. FusInv'
    BY <1>u, <1>b, <1>a, <1>d DEF Inv, FusInv
<1>9. PreparedInv'
    BY <1>u, <1>b, <1>a, NoOpIs DEF Inv, PreparedInv
<1>10. OutcomeInv'
    BY <1>a, <1>d DEF Inv, OutcomeInv
<1> QED
    BY <1>1, <1>2, <1>3, <1>4, <1>5, <1>6, <1>7, <1>8, <1>9, <1>10 DEF Course

(* FUS begins the command. *)
LEMMA FusBeginsKeeps ==
    ASSUME Inv, FusBegins
    PROVE  Course'
<1>u. UNCHANGED <<cpu2, stack, fus, fusJob, fusError, fusFresh, resetTo, resumed, runningFirmware,
                        image, prepared, procedure, target, outcome, commands, area, polling,
                        busySeen, codeless>>
    BY DEF FusBegins, services, held, poll, asked, flash, read
<1>b. UNCHANGED <<Length, Last, LastStep, Repeated>> /\ torn' = torn
    BY JournalKept DEF FusBegins, flash
<1>a. /\ fusJob # "none" /\ fusState' = "busy" /\ op' = op
      /\ UNCHANGED <<lastRecord, nextRecord, lastStepRepeated>>
    BY DEF FusBegins, read
<1>v. Installed' <=> Installed
    BY <1>u DEF Installed
<1>1. JournalInv'
    BY <1>u, <1>b, <1>v DEF Inv, JournalInv
<1>2. CommandInv'
    BY <1>u, <1>b DEF Inv, CommandInv
<1>3. ReadInv'
    BY <1>u, <1>b, <1>a DEF Inv, ReadInv
<1>4. AppendInv'
    BY <1>u, <1>b, <1>a, <1>v DEF Inv, AppendInv
<1>5. EraseInv'
    BY <1>u, <1>a, <1>v DEF Inv, EraseInv
<1>6. OpInv'
    BY <1>u, <1>a DEF Inv, OpInv
<1>7. WaitInv'
    BY <1>u, <1>b, <1>a DEF Inv, WaitInv
<1>8. FusInv'
    BY <1>u, <1>b, <1>a DEF Inv, FusInv
<1>9. PreparedInv'
    BY <1>u, <1>b, <1>a DEF Inv, PreparedInv
<1>10. OutcomeInv'
    BY <1>u, <1>b, <1>v DEF Inv, OutcomeInv
<1> QED
    BY <1>1, <1>2, <1>3, <1>4, <1>5, <1>6, <1>7, <1>8, <1>9, <1>10 DEF Course

(* FUS fails. *)
LEMMA FusFailsKeeps ==
    ASSUME Inv, FusFails
    PROVE  Course'
<1>u. UNCHANGED <<cpu2, stack, fus, fusFresh, resetTo, resumed, runningFirmware, image, prepared,
                        procedure, target, outcome, commands, area, polling, busySeen>>
    BY DEF FusFails, services, held, poll, asked, flash, read
<1>b. UNCHANGED <<Length, Last, LastStep, Repeated>> /\ torn' = torn
    BY JournalKept DEF FusFails, flash
<1>a. /\ fusState = "busy" /\ fusJob' = "none" /\ fusState' = "error"
      /\ fusError' = noError => codeless'
      /\ op' = op /\ UNCHANGED <<lastRecord, nextRecord, lastStepRepeated>>
    BY DEF FusFails, FusWorking, read
<1>v. Installed => Installed'
    BY <1>u DEF FusFails, Installed
<1>1. JournalInv'
    BY <1>u, <1>b, <1>v DEF Inv, JournalInv
<1>2. CommandInv'
    BY <1>u, <1>b DEF Inv, CommandInv
<1>3. ReadInv'
    BY <1>u, <1>b, <1>a DEF Inv, ReadInv
<1>4. AppendInv'
    BY <1>u, <1>b, <1>a, <1>v DEF Inv, AppendInv
<1>5. EraseInv'
    BY <1>u, <1>a, <1>v DEF Inv, EraseInv
<1>6. OpInv'
    BY <1>u, <1>b, <1>a DEF Inv, OpInv
<1>7. WaitInv'
    BY <1>u, <1>b, <1>a DEF Inv, WaitInv
<1>8. FusInv'
    BY <1>u, <1>b, <1>a DEF Inv, FusInv
<1>9. PreparedInv'
    BY <1>u, <1>b, <1>a DEF Inv, PreparedInv
<1>10. OutcomeInv'
    BY <1>u, <1>b, <1>v DEF Inv, OutcomeInv
<1> QED
    BY <1>1, <1>2, <1>3, <1>4, <1>5, <1>6, <1>7, <1>8, <1>9, <1>10 DEF Course

(* FUS has done what it was told. *)
LEMMA FusSucceedsKeeps ==
    ASSUME Inv, FusSucceeds
    PROVE  Course'
<1>u. UNCHANGED <<cpu2, fusError, fusFresh, resetTo, resumed, runningFirmware, image, prepared,
                        procedure, target, outcome, commands, area, polling, busySeen, codeless>>
    BY DEF FusSucceeds, services, held, poll, asked, flash, read, Succeeds
<1>b. UNCHANGED <<Length, Last, LastStep, Repeated>> /\ torn' = torn
    BY JournalKept DEF FusSucceeds, flash
<1>a. /\ fusState = "busy" /\ fusJob # "none" /\ fusJob' = "none" /\ fusState' = "idle"
      /\ op' = op /\ UNCHANGED <<lastRecord, nextRecord, lastStepRepeated>>
    BY DEF FusSucceeds, FusWorking, read, Inv, FusInv
<1>v. /\ LastStep = (IF fusJob = "delete" THEN "deleteIssued" ELSE "upgradeIssued")
      /\ ~fusFresh
      /\ op.kind \notin {"append", "eraseJournal", "erasePages", "writeImage"}
    BY <1>a, Known DEF Inv, FusInv, OpInv, RequestSteps
<1>w. fusJob # "delete" => Installed'
  <2>1. SUFFICES ASSUME fusJob # "delete"
                 PROVE  Installed'
      OBVIOUS
  <2>2. area = target /\ target \in Image
      BY <1>v, <2>1, Known DEF Inv, JournalInv
  <2>3. /\ stack' = IF area = "wirelessStack" THEN "new" ELSE stack
        /\ fus' = IF area = "wirelessStack" THEN fus ELSE "new"
      BY <2>1 DEF FusSucceeds, Succeeds
  <2> QED BY <1>u, <2>2, <2>3 DEF Installed, WirelessStack
<1>1. JournalInv'
    BY <1>u, <1>b, <1>v DEF Inv, JournalInv, StartSteps
<1>2. CommandInv'
    BY <1>u, <1>b DEF Inv, CommandInv
<1>3. ReadInv'
    BY <1>u, <1>b, <1>a DEF Inv, ReadInv
<1>4. AppendInv'
    BY <1>a, <1>v DEF Inv, AppendInv
<1>5. EraseInv'
    BY <1>a, <1>v DEF Inv, EraseInv
<1>6. OpInv'
    BY <1>u, <1>a DEF Inv, OpInv
<1>7. WaitInv'
    BY <1>u, <1>b, <1>a, <1>v, <1>w DEF Inv, WaitInv
<1>8. FusInv'
    BY <1>u, <1>a, <1>v DEF Inv, FusInv
<1>9. PreparedInv'
    BY <1>u, <1>b, <1>a DEF Inv, PreparedInv
<1>10. OutcomeInv'
    BY <1>u, <1>v DEF Inv, OutcomeInv
<1> QED
    BY <1>1, <1>2, <1>3, <1>4, <1>5, <1>6, <1>7, <1>8, <1>9, <1>10 DEF Course

(* The journal is empty, and the application told so. *)
LEMMA NothingToContinueKeeps ==
    ASSUME Inv, JournalRead, NothingToContinue
    PROVE  Course'
<1>u. UNCHANGED <<cpu2, stack, fus, fusJob, fusState, fusError, fusFresh, resetTo, resumed,
                        runningFirmware, image, prepared, target, commands, area, polling,
                        busySeen, codeless>>
    BY DEF NothingToContinue, services, held, poll, asked, flash, JournalRead
<1>a. /\ op.kind \in {"read", "eraseJournal"} /\ op.then = "journalRead" /\ resumed
      /\ polling = "none" /\ resetTo = "none" /\ ~torn'
      /\ LastStep' = "none" /\ Last' = NoRecord /\ Length' = 0 /\ nextRecord = 1
      /\ op.kind = "read" => LastStep = "none"
  <2>1. lastRecord = NoRecord
      BY DEF NothingToContinue
  <2>2. CASE op.kind = "eraseJournal"
      BY <2>2, CompletedIs DEF JournalRead, Erased, Inv, ReadInv
  <2>3. CASE op.kind # "eraseJournal"
    <3>1. /\ op.kind = "read" /\ Kept /\ torn' = torn /\ resumed /\ op.then = "journalRead"
          /\ polling = "none" /\ resetTo = "none"
        BY <2>3, CompletedIs DEF JournalRead
    <3>2. Last = NoRecord
        BY <2>1, <3>1 DEF Inv, ReadInv
    <3>3. LastStep = "none" /\ Length = 0
        BY <3>2, Known DEF Inv, JournalInv
    <3> QED BY <3>1, <3>2, <3>3 DEF Kept, Inv, ReadInv
  <2> QED BY <2>2, <2>3
<1>c. op' = NoOp /\ UNCHANGED <<lastRecord, nextRecord>> /\ outcome' = "idle"
    BY DEF NothingToContinue, Told, Report, KeepRead
<1>v. Installed' <=> Installed
    BY <1>u DEF Installed
<1>1. JournalInv'
    BY <1>a DEF Inv, JournalInv, InstallSteps, RequestSteps, StartSteps
<1>2. CommandInv'
    BY <1>u, <1>a DEF Inv, CommandInv, RequestSteps, IssueSteps
<1>3. ReadInv'
    BY <1>u, <1>a, <1>c, NoOpIs DEF Inv, ReadInv
<1>4. AppendInv'
    BY <1>c, NoOpIs DEF Inv, AppendInv
<1>5. EraseInv'
    BY <1>c, NoOpIs DEF Inv, EraseInv
<1>6. OpInv'
    BY <1>c, NoOpIs DEF Inv, OpInv
<1>7. WaitInv'
    BY <1>u, <1>a DEF Inv, WaitInv
<1>8. FusInv'
    BY <1>u, <1>a DEF Inv, FusInv, RequestSteps
<1>9. PreparedInv'
    BY <1>u, <1>a DEF Inv, PreparedInv
<1>10. OutcomeInv'
    BY <1>c DEF Inv, OutcomeInv
<1> QED
    BY <1>1, <1>2, <1>3, <1>4, <1>5, <1>6, <1>7, <1>8, <1>9, <1>10 DEF Course

(* CPU2 runs the wireless stack when the journal is read. *)
LEMMA ContinueWithWirelessStackKeeps ==
    ASSUME Inv, JournalRead, runningFirmware = "wirelessStack", ContinueWithWirelessStack
    PROVE  Course'
<1>u. UNCHANGED <<cpu2, stack, fus, fusJob, fusState, fusError, fusFresh, resumed, runningFirmware,
                        image, prepared, procedure, target, outcome, commands, area, polling,
                        busySeen, codeless>>
    BY DEF ContinueWithWirelessStack, services, held, poll, asked, flash, JournalRead,
           KeepToldAndPolls
<1>a. /\ op.kind = "read" /\ op.then = "journalRead" /\ resumed /\ polling = "none"
      /\ resetTo = "none"
      /\ torn' = torn /\ UNCHANGED <<Length, Last, LastStep, Repeated>>
      /\ lastRecord = Last /\ (lastStepRepeated <=> Repeated) /\ LastStep # "none"
      /\ lastRecord.step = LastStep /\ lastRecord.value = Last.value
      /\ runningFirmware = cpu2 /\ image = Last.image /\ ~torn /\ nextRecord = Length + 1
  <2>1. lastRecord.step # "none"
      BY DEF ContinueWithWirelessStack
  <2>2. /\ op.kind = "read" /\ op.then = "journalRead" /\ torn' = torn /\ Kept /\ resumed
        /\ polling = "none" /\ resetTo = "none"
      BY <2>1, CompletedIs, NoOpIs DEF JournalRead, Inv, ReadInv
  <2>3. lastRecord = Last /\ (lastStepRepeated <=> Repeated)
      BY <2>2 DEF Inv, ReadInv
  <2>4. LastStep # "none" /\ lastRecord.step = LastStep /\ lastRecord.value = Last.value
      BY <2>1, <2>3, Known
  <2> QED BY <2>2, <2>3, <2>4 DEF Kept, Inv, ReadInv
<1>b. fusJob = "none"
    BY <1>a DEF Inv, FusInv, FUS
<1>c. \/ /\ LastStep \in RequestSteps /\ resetTo' = FUS /\ op' = NoOp
         /\ UNCHANGED <<lastRecord, nextRecord>>
      \/ /\ resetTo' = resetTo /\ lastRecord' = NoRecord /\ nextRecord' = 1
         /\ op'.kind = "eraseJournal" /\ op' # NoOp
         /\ \/ op'.then \in {"deleteFailed", "installUnconfirmed"}
            \/ LastStep \in StartSteps /\ op'.then = "started" /\ op'.value = Last.value
  <2>1. CASE op' = NoOp
      BY <2>1, <1>a, EraseStarted
         DEF ContinueWithWirelessStack, RequestFirmwareUpgradeServices, KeepRead, RequestSteps, FUS
  <2>2. CASE resetTo' = resetTo /\ EraseJournal("deleteFailed", unknownError)
      BY <2>2, EraseStarted
  <2>3. CASE resetTo' = resetTo /\ EraseJournal("installUnconfirmed", noError)
      BY <2>3, EraseStarted
  <2>4. CASE /\ resetTo' = resetTo /\ EraseJournal("started", lastRecord.value)
             /\ LastStep \in StartSteps
      BY <2>4, <1>a, EraseStarted
  <2> QED BY <1>a, <2>1, <2>2, <2>3, <2>4 DEF ContinueWithWirelessStack, StartSteps
<1>v. Installed' <=> Installed
    BY <1>u DEF Installed
<1>1. JournalInv'
    BY <1>u, <1>a, <1>v DEF Inv, JournalInv
<1>2. CommandInv'
    BY <1>u, <1>a DEF Inv, CommandInv
<1>3. ReadInv'
    BY <1>u, <1>a, <1>c, NoOpIs DEF Inv, ReadInv
<1>4. AppendInv'
    BY <1>c, NoOpIs DEF Inv, AppendInv
<1>5. EraseInv'
    BY <1>u, <1>a, <1>c, <1>v, NoOpIs DEF Inv, JournalInv, EraseInv, InstallSteps, StartSteps
<1>6. OpInv'
    BY <1>u, <1>a, <1>b, <1>c, NoOpIs DEF Inv, OpInv
<1>7. WaitInv'
    BY <1>u, <1>a, <1>b, <1>c DEF Inv, WaitInv, FUS
<1>8. FusInv'
    BY <1>u, <1>a DEF Inv, FusInv, FUS
<1>9. PreparedInv'
    BY <1>u, <1>a DEF Inv, PreparedInv
<1>10. OutcomeInv'
    BY <1>u, <1>a DEF Inv, OutcomeInv
<1> QED
    BY <1>1, <1>2, <1>3, <1>4, <1>5, <1>6, <1>7, <1>8, <1>9, <1>10 DEF Course

(* CPU2 runs FUS when the journal is read. *)
LEMMA ContinueWithFirmwareUpgradeServicesKeeps ==
    ASSUME Inv, JournalRead, runningFirmware = "firmwareUpgradeServices",
           ContinueWithFirmwareUpgradeServices
    PROVE  Course'
<1>u. UNCHANGED <<cpu2, stack, fus, fusJob, fusState, fusError, fusFresh, resetTo, resumed,
                        runningFirmware, image, prepared, procedure, target, outcome, commands,
                        area, codeless>>
    BY DEF ContinueWithFirmwareUpgradeServices, services, held, poll, asked, flash, JournalRead,
           KeepToldAndPolls
<1>a. /\ op.kind = "read" /\ op.then = "journalRead" /\ resumed /\ polling = "none"
      /\ resetTo = "none"
      /\ torn' = torn /\ UNCHANGED <<Length, Last, LastStep, Repeated>>
      /\ lastRecord = Last /\ (lastStepRepeated <=> Repeated) /\ LastStep # "none"
      /\ lastRecord.step = LastStep /\ lastRecord.value = Last.value
      /\ runningFirmware = cpu2 /\ image = Last.image /\ ~torn /\ nextRecord = Length + 1
  <2>1. lastRecord.step # "none"
      BY DEF ContinueWithFirmwareUpgradeServices
  <2>2. /\ op.kind = "read" /\ op.then = "journalRead" /\ torn' = torn /\ Kept /\ resumed
        /\ polling = "none" /\ resetTo = "none"
      BY <2>1, CompletedIs, NoOpIs DEF JournalRead, Inv, ReadInv
  <2>3. lastRecord = Last /\ (lastStepRepeated <=> Repeated)
      BY <2>2 DEF Inv, ReadInv
  <2>4. LastStep # "none" /\ lastRecord.step = LastStep /\ lastRecord.value = Last.value
      BY <2>1, <2>3, Known
  <2> QED BY <2>2, <2>3, <2>4 DEF Kept, Inv, ReadInv
<1>b. cpu2 = FUS /\ GetStatus.state = IF fusFresh THEN "error" ELSE fusState
    BY <1>a DEF FUS, GetStatus
<1>c. \/ /\ LastStep \in RequestSteps /\ UNCHANGED <<polling, busySeen>>
         /\ nextRecord' = nextRecord + 1 /\ op'.kind = "append" /\ op' # NoOp
         /\ op'.record.image = image /\ op'.record.value = op'.value
         /\ \/ op'.record.step = LastStep /\ op'.then = "resetDevice" /\ ~Repeated
            \/ /\ op'.record.step = IF LastStep = "deleteRequested" THEN "deleteIssued"
                      ELSE "upgradeIssued"
               /\ op'.then = op'.record.step
               /\ fusFresh => Repeated
      \/ /\ LastStep \in IssueSteps /\ op' = NoOp /\ UNCHANGED <<lastRecord, nextRecord>>
         /\ polling' = (IF LastStep = "deleteIssued" THEN "DeleteDone" ELSE "UpgradeDone")
              /\ busySeen' = FALSE
      \/ /\ LastStep = "wirelessStackStartIssued" /\ UNCHANGED <<polling, busySeen>>
         /\ nextRecord' = nextRecord + 1 /\ op'.kind = "append" /\ op' # NoOp
         /\ op'.record.step = "wirelessStackStartRetried" /\ op'.then = "startIssued"
         /\ op'.record.image = image /\ op'.record.value = op'.value /\ op'.value = Last.value
      \/ /\ LastStep = "wirelessStackStartRetried" /\ UNCHANGED <<polling, busySeen>>
         /\ lastRecord' = NoRecord /\ nextRecord' = 1
         /\ op'.kind = "eraseJournal" /\ op'.then = "notStarted" /\ op'.value = Last.value
         /\ op' # NoOp
  <2>1. CASE /\ LastStep \in RequestSteps /\ IssueRequested(lastRecord, lastStepRepeated)
             /\ KeepToldAndPolls
    <3>1. UNCHANGED <<polling, busySeen>>
        BY <2>1 DEF KeepToldAndPolls, poll
    <3>2. CASE AppendRecord(LastStep, Last.value, "resetDevice") /\ ~Repeated
        BY <2>1, <3>1, <3>2, AppendStarted
    <3>3. CASE /\ (fusFresh => Repeated) /\ LastStep = "deleteRequested"
               /\ AppendRecord("deleteIssued", 0, "deleteIssued")
        BY <2>1, <3>1, <3>3, AppendStarted
    <3>4. CASE /\ (fusFresh => Repeated) /\ LastStep # "deleteRequested"
               /\ AppendRecord("upgradeIssued", Last.value, "upgradeIssued")
        BY <2>1, <3>1, <3>4, AppendStarted
    <3> QED BY <1>a, <1>b, <2>1, <3>2, <3>3, <3>4 DEF IssueRequested, IssueDelete, IssueUpgrade
  <2>2. CASE /\ LastStep \in IssueSteps /\ op' = NoOp /\ KeepRead
             /\ PollUntilDone(IF lastRecord.step = "deleteIssued" THEN "DeleteDone" ELSE "UpgradeDone")
      BY <1>a, <2>2 DEF PollUntilDone, KeepRead
  <2>3. CASE /\ LastStep = "wirelessStackStartIssued" /\ KeepToldAndPolls
             /\ AppendRecord("wirelessStackStartRetried", Last.value, "startIssued")
      BY <2>3, AppendStarted DEF KeepToldAndPolls, poll
  <2>4. CASE /\ LastStep = "wirelessStackStartRetried" /\ KeepToldAndPolls
             /\ EraseJournal("notStarted", Last.value)
      BY <2>4, EraseStarted DEF KeepToldAndPolls, poll
  <2> QED BY <1>a, <2>1, <2>2, <2>3, <2>4
          DEF ContinueWithFirmwareUpgradeServices, StartWirelessStack, RequestSteps, IssueSteps
<1>v. Installed' <=> Installed
    BY <1>u DEF Installed
<1>1. JournalInv'
    BY <1>u, <1>a, <1>v DEF Inv, JournalInv
<1>2. CommandInv'
    BY <1>u, <1>a DEF Inv, CommandInv
<1>3. ReadInv'
    BY <1>u, <1>a, <1>c, Known, NoOpIs DEF Inv, ReadInv
<1>4. AppendInv'
    BY <1>u, <1>a, <1>b, <1>c, <1>v, NoOpIs
       DEF Inv, JournalInv, AppendInv, OutcomeInv, RequestSteps, StartSteps
<1>5. EraseInv'
    BY <1>u, <1>a, <1>c, <1>v, NoOpIs DEF Inv, JournalInv, EraseInv, InstallSteps, StartSteps
<1>6. OpInv'
    BY <1>u, <1>a, <1>c, NoOpIs DEF Inv, OpInv, FusInv, RequestSteps
<1>7. WaitInv'
    BY <1>u, <1>a, <1>b, <1>c DEF Inv, WaitInv, IssueSteps
<1>8. FusInv'
    BY <1>u, <1>a, <1>c, Known DEF Inv, FusInv, RequestSteps, IssueSteps
<1>9. PreparedInv'
    BY <1>u, <1>a DEF Inv, PreparedInv
<1>10. OutcomeInv'
    BY <1>u, <1>a DEF Inv, OutcomeInv
<1> QED
    BY <1>1, <1>2, <1>3, <1>4, <1>5, <1>6, <1>7, <1>8, <1>9, <1>10 DEF Course

(* CPU2 resets the device to run the firmware it was asked for. *)
LEMMA RequestedResetKeeps ==
    ASSUME Inv, RequestedReset
    PROVE  Course'
<1>u. UNCHANGED <<stack, fus, procedure, target, outcome, commands, codeless>>
    BY DEF RequestedReset, services, held, poll, asked, flash
<1>a. /\ op' = NoOp /\ resumed' = FALSE /\ polling' = "none" /\ resetTo' = "none"
      /\ prepared' = "no"
      /\ fusFresh' <=> fusFresh /\ cpu2 # FUS
      /\ cpu2' = IF resetTo = "wirelessStack" /\ stack' = "none" THEN FUS ELSE resetTo
    BY DEF RequestedReset, Reboot, FUS
<1>v. Installed' <=> Installed
    BY <1>u DEF Installed
<1>c. \/ /\ Kept /\ (torn' = torn \/ op.kind \in {"append", "eraseJournal"})
         /\ area' = area \/ LastStep = "none"
      \/ op.kind = "append" /\ Appended /\ torn' = torn /\ area' = area
      \/ op.kind = "eraseJournal" /\ Erased /\ torn' = FALSE /\ area' = area
    BY CutShortIs DEF RequestedReset
<1>d. \/ /\ UNCHANGED <<Length, Last, LastStep, Repeated>>
         /\ (torn' = torn \/ op.kind \in {"append", "eraseJournal"})
      \/ op.kind = "append" /\ torn' = torn /\ Length' = Length + 1 /\ LastStep' = op.record.step
      \/ op.kind = "eraseJournal" /\ torn' = FALSE /\ Length' = 0 /\ LastStep' = "none"
    BY <1>c DEF Kept, Appended, Erased
<1>j. JournalInv' /\ CommandInv'
  <2>1. CASE op.kind = "append" /\ Appended /\ area' = area
      BY <2>1, <1>u, JournalInvAppended, CommandInvAppended
  <2>2. CASE Kept /\ (area' = area \/ LastStep = "none")
      BY <2>2, <1>u, <1>v, Known
         DEF Kept, Inv, JournalInv, CommandInv, InstallSteps, RequestSteps, IssueSteps, StartSteps
  <2>3. CASE Erased
      BY <2>3, <1>u, NoOpIs
         DEF Erased, Inv, JournalInv, CommandInv, InstallSteps, RequestSteps, IssueSteps, StartSteps
  <2> QED BY <1>c, <2>1, <2>2, <2>3
<1>f. /\ fusJob' = "none" /\ fusState' # "busy"
      /\ (fusState' = "error" => fusState = "error" /\ fusError' = fusError)
      /\ resetTo # "none"
    BY FusIsReset DEF RequestedReset
<1>1. JournalInv'
    BY <1>j
<1>2. CommandInv'
    BY <1>j
<1>3. ReadInv'
    BY <1>a, NoOpIs DEF Inv, ReadInv
<1>4. AppendInv'
    BY <1>a, NoOpIs DEF Inv, AppendInv
<1>5. EraseInv'
    BY <1>a, NoOpIs DEF Inv, EraseInv
<1>6. OpInv'
    BY <1>a, <1>f, Known DEF Inv, OpInv
<1>7. WaitInv'
    BY <1>a DEF Inv, WaitInv
<1>8. FusInv'
    BY <1>u, <1>a, <1>d, <1>f, NoOpIs DEF Inv, ReadInv, WaitInv, FusInv, FUS
<1>9. PreparedInv'
    BY <1>a DEF Inv, PreparedInv
<1>10. OutcomeInv'
    BY <1>u, <1>v, <1>d, <1>f DEF Inv, OpInv, OutcomeInv
<1> QED
    BY <1>1, <1>2, <1>3, <1>4, <1>5, <1>6, <1>7, <1>8, <1>9, <1>10 DEF Course

(* Power is lost. *)
LEMMA InterruptionKeeps ==
    ASSUME Inv, Interruption
    PROVE  Course'
<1>u. UNCHANGED <<stack, fus, procedure, target, outcome, commands, codeless>>
    BY DEF Interruption, services, held, poll, asked, flash
<1>a. /\ op' = NoOp /\ resumed' = FALSE /\ polling' = "none" /\ resetTo' = "none"
      /\ prepared' = "no"
      /\ fusFresh' <=> fusFresh /\ cpu2 # FUS
      /\ cpu2' = IF cpu2 = "wirelessStack" /\ stack' = "none" THEN FUS ELSE cpu2
    BY DEF Interruption, Reboot, FUS
<1>v. Installed' <=> Installed
    BY <1>u DEF Installed
<1>c. \/ /\ Kept /\ (torn' = torn \/ op.kind \in {"append", "eraseJournal"})
         /\ area' = area \/ LastStep = "none"
      \/ op.kind = "append" /\ Appended /\ torn' = torn /\ area' = area
      \/ op.kind = "eraseJournal" /\ Erased /\ torn' = FALSE /\ area' = area
    BY CutShortIs DEF Interruption
<1>d. \/ /\ UNCHANGED <<Length, Last, LastStep, Repeated>>
         /\ (torn' = torn \/ op.kind \in {"append", "eraseJournal"})
      \/ op.kind = "append" /\ torn' = torn /\ Length' = Length + 1 /\ LastStep' = op.record.step
      \/ op.kind = "eraseJournal" /\ torn' = FALSE /\ Length' = 0 /\ LastStep' = "none"
    BY <1>c DEF Kept, Appended, Erased
<1>j. JournalInv' /\ CommandInv'
  <2>1. CASE op.kind = "append" /\ Appended /\ area' = area
      BY <2>1, <1>u, JournalInvAppended, CommandInvAppended
  <2>2. CASE Kept /\ (area' = area \/ LastStep = "none")
      BY <2>2, <1>u, <1>v, Known
         DEF Kept, Inv, JournalInv, CommandInv, InstallSteps, RequestSteps, IssueSteps, StartSteps
  <2>3. CASE Erased
      BY <2>3, <1>u, NoOpIs
         DEF Erased, Inv, JournalInv, CommandInv, InstallSteps, RequestSteps, IssueSteps, StartSteps
  <2> QED BY <1>c, <2>1, <2>2, <2>3
<1>f. /\ fusJob' \in {fusJob, "none"} /\ (fusState' = "busy" => fusJob' # "none")
      /\ fusState' = "error" => fusJob' = "none" /\ fusState = "error" /\ fusError' = fusError
    BY FusIsReset DEF Interruption
<1>1. JournalInv'
    BY <1>j
<1>2. CommandInv'
    BY <1>j
<1>3. ReadInv'
    BY <1>a, NoOpIs DEF Inv, ReadInv
<1>4. AppendInv'
    BY <1>a, NoOpIs DEF Inv, AppendInv
<1>5. EraseInv'
    BY <1>a, NoOpIs DEF Inv, EraseInv
<1>6. OpInv'
    BY <1>a, NoOpIs DEF Inv, OpInv
<1>7. WaitInv'
    BY <1>a DEF Inv, WaitInv
<1>8. FusInv'
    BY <1>u, <1>a, <1>d, <1>f DEF Inv, JournalInv, AppendInv, OpInv, FusInv, RequestSteps
<1>9. PreparedInv'
    BY <1>a DEF Inv, PreparedInv
<1>10. OutcomeInv'
    BY <1>u, <1>v, <1>d DEF Inv, AppendInv, OutcomeInv
<1> QED
    BY <1>1, <1>2, <1>3, <1>4, <1>5, <1>6, <1>7, <1>8, <1>9, <1>10 DEF Course

(* CPU1 resets the device for a FUS that never ran. *)
LEMMA ResetDeviceKeeps ==
    ASSUME Inv, ResetDevice
    PROVE  Course'
<1>u. UNCHANGED <<stack, fus, procedure, target, outcome, area, codeless>>
    BY DEF ResetDevice, services, held, poll, asked, flash
<1>a. /\ op' = NoOp /\ resumed' = FALSE /\ polling' = "none" /\ resetTo' = "none"
      /\ prepared' = "no"
      /\ fusFresh' <=> fusFresh /\ cpu2 # FUS
      /\ cpu2' = IF cpu2 = "wirelessStack" /\ stack' = "none" THEN FUS ELSE cpu2
    BY DEF ResetDevice, Reboot, FUS
<1>v. Installed' <=> Installed
    BY <1>u DEF Installed
<1>c. op.kind = "append" /\ op.then = "resetDevice" /\ Appended /\ torn' = torn
    BY CompletedIs DEF ResetDevice, AppendThens
<1>d. Length' = Length + 1 /\ Last' = op.record /\ LastStep' = op.record.step
    BY <1>c DEF Appended
<1>f. /\ fusJob' = "none" /\ fusState' # "busy"
      /\ (fusState' = "error" => fusState = "error" /\ fusError' = fusError)
    BY FusIsReset DEF ResetDevice
<1>g. /\ commands'["reset"] = commands["reset"] + 1
      /\ \A other \in {"delete", "upgrade", "start", "reset"} \ {"reset"} :
           commands'[other] = commands[other]
  <2>1. TypeOK
      BY DEF Inv
  <2> QED BY <2>1, Counted DEF ResetDevice
<1>h. commands["reset"] \in Nat
    BY CommandTypes DEF Inv
<1>j. JournalInv'
    BY <1>c, <1>u, JournalInvAppended
<1>1. JournalInv'
    BY <1>j
<1>2. CommandInv'
    BY <1>c, <1>d, <1>g DEF Inv, CommandInv, AppendInv
<1>3. ReadInv'
    BY <1>a, NoOpIs DEF Inv, ReadInv
<1>4. AppendInv'
    BY <1>a, NoOpIs DEF Inv, AppendInv
<1>5. EraseInv'
    BY <1>a, NoOpIs DEF Inv, EraseInv
<1>6. OpInv'
    BY <1>a, NoOpIs DEF Inv, OpInv
<1>7. WaitInv'
    BY <1>a DEF Inv, WaitInv
<1>8. FusInv'
    BY <1>u, <1>a, <1>c, <1>f DEF Inv, AppendInv, FusInv, RequestSteps
<1>9. PreparedInv'
    BY <1>a DEF Inv, PreparedInv
<1>10. OutcomeInv'
    BY <1>u, <1>c DEF Inv, AppendInv, OutcomeInv
<1> QED
    BY <1>1, <1>2, <1>3, <1>4, <1>5, <1>6, <1>7, <1>8, <1>9, <1>10 DEF Course

(* FUS has done what it was told, and starts the stack at once. *)
LEMMA FusSucceedsAndResetsKeeps ==
    ASSUME Inv, FusSucceedsAndResets
    PROVE  Course'
<1>u. UNCHANGED <<procedure, target, outcome, commands, codeless>>
    BY DEF FusSucceedsAndResets, services, held, poll, asked, flash, Succeeds
<1>a. /\ op' = NoOp /\ resumed' = FALSE /\ polling' = "none" /\ resetTo' = "none"
      /\ prepared' = "no"
      /\ fusFresh' <=> fusFresh /\ cpu2 # FUS
      /\ fusState = "busy" /\ cpu2 = FUS /\ fusJob' = "none" /\ fusState' = "idle"
    BY DEF FusSucceedsAndResets, Reboot, FUS, FusWorking
<1>v. /\ fusJob # "none"
      /\ LastStep = (IF fusJob = "delete" THEN "deleteIssued" ELSE "upgradeIssued")
      /\ op.kind \notin {"append", "eraseJournal", "erasePages", "writeImage"}
    BY <1>a, Known DEF Inv, FusInv, OpInv
<1>c. Kept /\ torn' = torn /\ area' = area
    BY <1>v, CutShortIs DEF FusSucceedsAndResets
<1>d. UNCHANGED <<Length, Last, LastStep, Repeated>>
    BY <1>c DEF Kept
<1>1. JournalInv'
    BY <1>u, <1>v, <1>c, <1>d DEF Inv, JournalInv, StartSteps
<1>2. CommandInv'
    BY <1>u, <1>d DEF Inv, CommandInv
<1>3. ReadInv'
    BY <1>a, NoOpIs DEF Inv, ReadInv
<1>4. AppendInv'
    BY <1>a, NoOpIs DEF Inv, AppendInv
<1>5. EraseInv'
    BY <1>a, NoOpIs DEF Inv, EraseInv
<1>6. OpInv'
    BY <1>a, NoOpIs DEF Inv, OpInv
<1>7. WaitInv'
    BY <1>a DEF Inv, WaitInv
<1>8. FusInv'
    BY <1>a DEF Inv, FusInv
<1>9. PreparedInv'
    BY <1>a DEF Inv, PreparedInv
<1>10. OutcomeInv'
    BY <1>u, <1>v DEF Inv, OutcomeInv
<1> QED
    BY <1>1, <1>2, <1>3, <1>4, <1>5, <1>6, <1>7, <1>8, <1>9, <1>10 DEF Course

(* The journal was read: the procedure goes on from its last record, with  *)
(* whatever firmware CPU2 runs.                                            *)
LEMMA JournalReadKeeps ==
    ASSUME Inv, JournalRead
    PROVE  Course'
BY NothingToContinueKeeps, ContinueWithWirelessStackKeeps, ContinueWithFirmwareUpgradeServicesKeeps
   DEF JournalRead

(* Nothing happens.                                                        *)
LEMMA UnchangedKeeps ==
    ASSUME Inv, UNCHANGED vars
    PROVE  Course'
<1>1. /\ UNCHANGED <<journal, torn, area, cpu2, stack, fus, fusJob, fusState, fusError, fusFresh,
                     resetTo>>
      /\ UNCHANGED <<resumed, runningFirmware, image, lastRecord, lastStepRepeated, nextRecord, op>>
      /\ UNCHANGED <<polling, busySeen, prepared, procedure, target, outcome, commands, codeless>>
    BY DEF vars, flash, services, held, read, poll, asked
<1>2. UNCHANGED <<Length, Last, LastStep, Repeated>> /\ (Installed' <=> Installed)
    BY <1>1, JournalKept DEF Installed
<1>3. JournalInv' /\ CommandInv' /\ ReadInv' /\ PreparedInv' /\ OutcomeInv'
    BY <1>1, <1>2 DEF Inv, JournalInv, CommandInv, ReadInv, PreparedInv, OutcomeInv
<1>4. AppendInv' /\ EraseInv' /\ OpInv' /\ WaitInv' /\ FusInv'
    BY <1>1, <1>2 DEF Inv, AppendInv, EraseInv, OpInv, WaitInv, FusInv
<1> QED BY <1>3, <1>4 DEF Course

(* The invariant holds when the device is new.                             *)
LEMMA InvInit ==
    ASSUME Init
    PROVE  Inv
<1>1. Types
    BY TypesInit
<1>2. /\ journal = <<>> /\ torn = FALSE /\ cpu2 = "wirelessStack" /\ stack = "old"
      /\ fusJob = "none"
      /\ fusState = "idle" /\ resetTo = "none" /\ resumed = FALSE /\ op = NoOp /\ polling = "none"
      /\ prepared = "no" /\ outcome = "none" /\ commands = NoCommands
    BY DEF Init
<1>3. Length = 0 /\ Last = NoRecord /\ LastStep = "none"
  <2>1. Len(<<>>) = 0
      OBVIOUS
  <2> QED BY <1>2, <2>1 DEF Length, Last, LastStep, NoRecord
<1>4. JournalInv /\ CommandInv
    BY <1>2, <1>3, NoCommandsIs
       DEF JournalInv, CommandInv, RequestSteps, IssueSteps, InstallSteps, StartSteps
<1>5. ReadInv /\ AppendInv /\ EraseInv /\ OpInv
    BY <1>2, <1>3, NoOpIs DEF ReadInv, AppendInv, EraseInv, OpInv
<1>6. WaitInv /\ FusInv /\ PreparedInv /\ OutcomeInv
    BY <1>2, <1>3, NoOpIs DEF WaitInv, FusInv, PreparedInv, OutcomeInv, FUS
<1> QED BY <1>1, <1>4, <1>5, <1>6, TypesAre DEF Inv

(* Every step keeps the invariant: one case per action.                    *)
LEMMA InvStep ==
    ASSUME Inv, FusBeginsInTime, [Next]_vars
    PROVE  Inv'
<1>1. Types
    BY TypesAre DEF Inv
<1>2. Types'
    BY <1>1, TypesStep
<1>3. (TypeOK /\ OpTypes)'
    BY <1>2
       DEF TypeOK, OpTypes, Types, FlashTypes, ServiceTypes, ReadTypes, OperationTypes, PollTypes,
           AskedTypes,
                CountTypes
<1>4. Course'
  <2>1. CASE Cpu1
      BY <2>1, ResumeKeeps, JournalReadKeeps, ReportWhenErasedKeeps, DeleteJournalErasedKeeps,
         RequestedKeeps,
         DeleteIssuedKeeps, UpgradeIssuedKeeps, StartIssuedKeeps, PollKeeps,
         PrepareJournalErasedKeeps,
         PagesErasedKeeps, WrittenKeeps, TailWrittenKeeps, ResetDeviceKeeps DEF Cpu1
  <2>2. CASE Application
      BY <2>2, PrepareKeeps, WriteKeeps, InstallKeeps, DeleteWirelessStackKeeps DEF Application
  <2>3. CASE FusProgress
      BY <2>3, FusBeginsKeeps, FusSucceedsKeeps, FusFailsKeeps DEF FusProgress
  <2>4. CASE FusSucceedsAndResets
      BY <2>4, FusSucceedsAndResetsKeeps
  <2>5. CASE RequestedReset \/ Interruption \/ UNCHANGED vars
      BY <2>5, RequestedResetKeeps, InterruptionKeeps, UnchangedKeeps
  <2> QED BY <2>1, <2>2, <2>3, <2>4, <2>5 DEF Next
<1> QED BY <1>3, <1>4 DEF Inv, Course

(* The invariant holds in every state. *)
THEOREM Invariant == FusBeginsInTime => (Spec => []Inv)
<1>1. Init => Inv
    BY InvInit
<1>2. FusBeginsInTime /\ Inv /\ [Next]_vars => Inv'
    BY InvStep
<1> SUFFICES ASSUME FusBeginsInTime
             PROVE  Spec => []Inv
    OBVIOUS
<1>3. Inv /\ [Next]_vars => Inv'
    BY <1>2
<1> QED BY <1>1, <1>3, PTL DEF Spec

(* Whatever codes the errors of FUS have, an install is told installed only *)
(* when FUS installed the image, or showed an error without a code; and     *)
(* nothing is under way in FUS when the application may begin another       *)
(* procedure.                                                               *)
THEOREM ToldTheTruth == FusBeginsInTime => (Spec => []OutcomeIsTrue)
<1> SUFFICES ASSUME FusBeginsInTime
             PROVE  Spec => []OutcomeIsTrue
    OBVIOUS
<1>1. Inv => OutcomeIsTrue
  <2> SUFFICES ASSUME Inv
               PROVE  OutcomeIsTrue
      OBVIOUS
  <2>1. outcome = "installed" =>
          (IF target = "wirelessStack" THEN stack = "new" ELSE fus = "new") \/ codeless
      BY DEF Inv, OutcomeInv, Installed, WirelessStack
  <2>2. AtRest => fusJob = "none"
      BY NoOpIs DEF AtRest, Inv, FusInv
  <2> QED BY <2>1, <2>2 DEF OutcomeIsTrue
<1> QED BY <1>1, Invariant, PTL

(* Wherever power is lost, FUS is only asked to install an image that lies *)
(* complete, no command is given more often than it may be, and a record   *)
(* goes to a place that is erased and in the sector: five records at most. *)
THEOREM LossesOfPowerDoNoHarm == FusBeginsInTime /\ JournalCapacity >= 5 => (Spec => []ResetsDoNoHarm)
<1> SUFFICES ASSUME FusBeginsInTime, JournalCapacity >= 5
             PROVE  Spec => []ResetsDoNoHarm
    OBVIOUS
<1>1. Inv => ResetsDoNoHarm
  <2> SUFFICES ASSUME Inv
               PROVE  ResetsDoNoHarm
      OBVIOUS
  <2>1. UpgradeFindsImage
    <3>1. fusJob = "upgrade" => area = target
        BY Known DEF Inv, FusInv, JournalInv
    <3>2. journal # <<>>
              => LastStep = journal[Len(journal)].step /\ Last.image = journal[Len(journal)].image
        BY DEF LastStep, Last
    <3>3. LastStep \in {"installRequested", "upgradeIssued"} => area = Last.image
        BY DEF Inv, JournalInv, InstallSteps
    <3> QED BY <3>1, <3>2, <3>3 DEF UpgradeFindsImage
  <2>2. CommandsBounded
      BY DEF CommandsBounded, Inv, CommandInv
  <2>3. AppendsToErased
    <3> SUFFICES ASSUME op.kind = "append"
                 PROVE  ~torn /\ nextRecord = Len(journal) + 2 /\ nextRecord <= JournalCapacity + 1
        BY DEF AppendsToErased
    <3>1. resumed
        BY NoOpIs DEF Inv, ReadInv
    <3>2. ~torn /\ nextRecord = Length + 2
        BY <3>1 DEF Inv, ReadInv
    <3>3. Length <= 4
        BY Known DEF Inv, AppendInv, JournalInv, RequestSteps, IssueSteps
    <3> QED BY <3>2, <3>3, Known, JournalCapacityAssumption DEF Length
  <2> QED BY <2>1, <2>2, <2>3 DEF ResetsDoNoHarm
<1> QED BY <1>1, Invariant, PTL
-----------------------------------------------------------------------------
(* The bytes of the image (WirelessImage), for every size of a double word *)
(* and of an image, and however the image is cut into chunks.              *)

(* What is programmed ends here: where the write under way begins.         *)
Done == IF program.from = "none" THEN writeAddress ELSE program.to

(* What an address holds in the end. *)
Final(address) == IF address < imageSize THEN address + 1 ELSE erasedByte

(* The bytes given are in flash, in the write under way, in `tail` or, while  *)
(* the tail is written, in `pending`: each one at its place.               *)
IdleInv ==
    program.then = "none" =>
        /\ program = Idle /\ caller # "install"
        /\ caller = "free" => ~reporting
        /\ caller = "installed" => ~reporting /\ written = imageSize /\ writeAddress >= imageSize
        /\ caller # "installed" =>
             /\ writeAddress + tailSize = written
             /\ \A i \in 1 .. tailSize : tail[i] = writeAddress + i

AlignedInv ==
    program.then = "onWritten" =>
        /\ program.from = "pending" /\ program.bytes > 0
        /\ program.to + program.bytes = writeAddress
        /\ program.bytes <= Len(pending) /\ caller = "write" /\ ~reporting
        /\ \A i \in 1 .. program.bytes : pending[i] = program.to + i
        /\ writeAddress + tailSize = written
        /\ \A i \in 1 .. tailSize : tail[i] = writeAddress + i

TailInv ==
    program.then = "writeAligned" =>
        /\ program.from = "tail" /\ program.bytes = DoubleWord
        /\ program.to + DoubleWord = writeAddress
        /\ \A i \in 1 .. DoubleWord : tail[i] = program.to + i
        /\ tailSize = 0 /\ caller = "write" /\ ~reporting
        /\ writeAddress + Len(pending) = written
        /\ \A i \in 1 .. Len(pending) : pending[i] = writeAddress + i

LastInv ==
    program.then = "requestInstall" =>
        /\ program.from = "tail" /\ program.bytes = DoubleWord
        /\ program.to + DoubleWord = writeAddress
        /\ \A i \in 1 .. DoubleWord : tail[i] = Final(program.to + i - 1)
        /\ tailSize = 0 /\ caller = "install" /\ ~reporting
        /\ written = imageSize /\ program.to < imageSize /\ imageSize < writeAddress

(* Double words are programmed one after the other, each once.             *)
MemoryInv ==
    /\ writeAddress % DoubleWord = 0 /\ Done % DoubleWord = 0
    /\ \A address \in 0 .. Ceiling(imageSize) - 1 :
         memory[address] = IF address < Done THEN <<Final(address)>> ELSE <<>>

BytesInv == ImageTypeOK /\ IdleInv /\ AlignedInv /\ TailInv /\ LastInv /\ MemoryInv

-----------------------------------------------------------------------------
(* Whole double words. *)

(* A number of bytes is whole double words and a rest. *)
LEMMA Division ==
    ASSUME NEW n \in Nat
    PROVE  /\ n = DoubleWord * (n \div DoubleWord) + (n % DoubleWord)
           /\ n \div DoubleWord \in Nat /\ n % DoubleWord \in 0 .. DoubleWord - 1
<1>1. DoubleWord \in Nat \ {0}
    BY DoubleWordAssumption
<1> QED BY <1>1, SMTT(30)

(* A number of whole double words has no rest.                             *)
LEMMA Whole ==
    ASSUME NEW words \in Nat
    PROVE  (DoubleWord * words) % DoubleWord = 0 /\ DoubleWord * words \in Nat
<1>1. DoubleWord \in Nat \ {0}
    BY DoubleWordAssumption
<1> QED BY <1>1, SMTT(30)

(* Whole double words together are whole double words.                     *)
LEMMA WholeSum ==
    ASSUME NEW m \in Nat, NEW n \in Nat, m % DoubleWord = 0, n % DoubleWord = 0
    PROVE  (m + n) % DoubleWord = 0
<1> DEFINE p == m \div DoubleWord
           q == n \div DoubleWord
<1>1. m = DoubleWord * p /\ n = DoubleWord * q /\ p \in Nat /\ q \in Nat
    BY Division, DoubleWordAssumption
<1> HIDE DEF p, q
<1>2. m + n = DoubleWord * (p + q) /\ p + q \in Nat
    BY <1>1, DoubleWordAssumption, SMTT(30)
<1> QED BY <1>2, Whole

(* One double word, and none, are whole.                                   *)
LEMMA WholeWord ==
    DoubleWord % DoubleWord = 0 /\ 0 % DoubleWord = 0
<1>1. DoubleWord = DoubleWord * 1 /\ 0 = DoubleWord * 0
    BY DoubleWordAssumption
<1>2. (DoubleWord * 1) % DoubleWord = 0 /\ (DoubleWord * 0) % DoubleWord = 0
    BY Whole
<1> QED BY <1>1, <1>2

(* Two places where a double word begins are not less than one apart.      *)
LEMMA Apart ==
    ASSUME NEW m \in Nat, NEW n \in Nat, m % DoubleWord = 0, n % DoubleWord = 0,
           m < n + DoubleWord
    PROVE  m <= n
<1> DEFINE p == m \div DoubleWord
           q == n \div DoubleWord
<1>1. m = DoubleWord * p /\ n = DoubleWord * q /\ p \in Nat /\ q \in Nat
    BY Division, DoubleWordAssumption
<1> HIDE DEF p, q
<1>2. CASE p <= q
  <2>1. PICK k \in Nat : q = p + k
      BY <1>1, <1>2
  <2>2. n = m + DoubleWord * k /\ DoubleWord * k >= 0
      BY <1>1, <2>1, DoubleWordAssumption, SMTT(30)
  <2> QED BY <2>2, DoubleWordAssumption
<1>3. CASE p > q
  <2>1. PICK k \in Nat : p = q + 1 + k
    <3>1. p - q - 1 \in Nat /\ p = q + 1 + (p - q - 1)
        BY <1>1, <1>3
    <3> QED BY <3>1
  <2>2. m = n + DoubleWord + DoubleWord * k /\ DoubleWord * k >= 0
      BY <1>1, <2>1, DoubleWordAssumption, SMTT(30)
  <2> QED BY <2>2, DoubleWordAssumption
<1> QED BY <1>1, <1>2, <1>3

(* AlignedSize is the largest number of whole double words in what there   *)
(* is.                                                                     *)
LEMMA AlignedSizeIs ==
    ASSUME NEW size \in Nat
    PROVE  /\ AlignedSize(size) \in 0 .. size /\ AlignedSize(size) % DoubleWord = 0
           /\ size - AlignedSize(size) < DoubleWord
<1> DEFINE words == size \div DoubleWord
           rest == size % DoubleWord
<1>1. size = DoubleWord * words + rest /\ words \in Nat /\ rest \in 0 .. DoubleWord - 1
    BY Division, DoubleWordAssumption
<1>2. AlignedSize(size) = size - rest
    BY DEF AlignedSize
<1> HIDE DEF words, rest
<1>3. (DoubleWord * words) % DoubleWord = 0 /\ DoubleWord * words \in Nat
    BY <1>1, Whole
<1>4. AlignedSize(size) = DoubleWord * words
    BY <1>1, <1>2, <1>3, DoubleWordAssumption
<1>5. AlignedSize(size) \in 0 .. size /\ size - AlignedSize(size) < DoubleWord
    BY <1>1, <1>2, <1>3, <1>4, DoubleWordAssumption
<1> QED BY <1>3, <1>4, <1>5

(* Ceiling is the smallest number of whole double words that what there is *)
(* fits in.                                                                *)
LEMMA CeilingIs ==
    ASSUME NEW size \in Nat
    PROVE  /\ Ceiling(size) \in Nat /\ Ceiling(size) % DoubleWord = 0
           /\ size <= Ceiling(size) /\ Ceiling(size) < size + DoubleWord
<1> DEFINE n == size + DoubleWord - 1
           words == n \div DoubleWord
           rest == n % DoubleWord
<1>1. n \in Nat
    BY DoubleWordAssumption
<1>2. n = DoubleWord * words + rest /\ words \in Nat /\ rest \in 0 .. DoubleWord - 1
    BY <1>1, Division
<1>3. Ceiling(size) = words * DoubleWord
    BY DEF Ceiling
<1>4. n = size + DoubleWord - 1
    OBVIOUS
<1> HIDE DEF n, words, rest
<1>5. (DoubleWord * words) % DoubleWord = 0 /\ DoubleWord * words \in Nat
    BY <1>2, Whole
<1>6. Ceiling(size) = DoubleWord * words
    BY <1>2, <1>3, DoubleWordAssumption
<1> QED BY <1>2, <1>4, <1>5, <1>6, DoubleWordAssumption

-----------------------------------------------------------------------------
(* What a step leaves. *)

(* What is known of the types, in the words the steps below need.          *)
LEMMA BytesKnown ==
    ASSUME BytesInv
    PROVE  /\ imageSize \in Nat /\ imageSize > 0 /\ written \in 0 .. imageSize
           /\ tail \in [1 .. DoubleWord -> Byte] /\ tailSize \in 0 .. DoubleWord - 1
           /\ pending \in Seq(Byte) /\ Len(pending) \in Nat
           /\ writeAddress \in Nat /\ program.to \in Nat /\ program.bytes \in Nat
           /\ DoubleWord \in Nat \ {0}
           /\ program.then \in {"none", "writeAligned", "onWritten", "requestInstall"}
           /\ program.from = "none" <=> program.then = "none"
           /\ imageSize <= MaxImageSize
<1>1. ImageTypeOK /\ DoubleWord \in Nat \ {0} /\ MaxImageSize \in Nat \ {0}
    BY DoubleWordAssumption, MaxImageSizeAssumption DEF BytesInv
<1>2. /\ imageSize \in Nat /\ imageSize > 0 /\ imageSize <= MaxImageSize
      /\ Ceiling(imageSize) \in Nat
  <2>1. imageSize \in Nat /\ imageSize > 0 /\ imageSize <= MaxImageSize
      BY <1>1 DEF ImageTypeOK
  <2> QED BY <2>1, CeilingIs
<1>3. writeAddress \in Nat /\ program.to \in Nat /\ program.bytes \in Nat
    BY <1>1, <1>2 DEF ImageTypeOK
<1>4. /\ program.then \in {"none", "writeAligned", "onWritten", "requestInstall"}
      /\ program.from = "none" <=> program.then = "none"
    BY <1>1 DEF ImageTypeOK, BytesInv, IdleInv, AlignedInv, TailInv, LastInv, Idle
<1>5. /\ written \in 0 .. imageSize
      /\ tail \in [1 .. DoubleWord -> Byte] /\ tailSize \in 0 .. DoubleWord - 1
      /\ pending \in Seq(Byte) /\ Len(pending) \in Nat
    BY <1>1 DEF ImageTypeOK
<1> QED BY <1>1, <1>2, <1>3, <1>4, <1>5

(* WriteAligned, of bytes that follow what is written: the rest goes to    *)
(* `tail`, and whole double words are on their way.                        *)
LEMMA WriteAlignedIs ==
    ASSUME NEW bytes \in Seq(Byte), NEW filled \in [1 .. DoubleWord -> Byte],
           NEW size \in 0 .. DoubleWord - 1,
           size = 0 \/ bytes = <<>>, WriteAligned(bytes, filled, size), writeAddress \in Nat
    PROVE  /\ pending' = bytes /\ tail' \in [1 .. DoubleWord -> Byte]
           /\ tailSize' = Len(bytes) - AlignedSize(Len(bytes)) + size
           /\ tailSize' \in 0 .. DoubleWord - 1
           /\ \A i \in 1 .. DoubleWord :
                tail'[i] = IF i <= Len(bytes) - AlignedSize(Len(bytes))
                    THEN bytes[AlignedSize(Len(bytes)) + i]
                           ELSE filled[i]
           /\ writeAddress' = writeAddress + AlignedSize(Len(bytes))
           /\ IF AlignedSize(Len(bytes)) = 0
              THEN reporting' = TRUE /\ program' = Idle
              ELSE /\ reporting' = reporting
                   /\ program' = [from |-> "pending", bytes |-> AlignedSize(Len(bytes)),
                                  to |-> writeAddress,
                                  then |-> "onWritten"]
<1> DEFINE aligned == AlignedSize(Len(bytes))
           rest == SubSeq(bytes, aligned + 1, Len(bytes))
<1>1. /\ tail' = [i \in 1 .. DoubleWord |-> IF i <= Len(rest) THEN rest[i] ELSE filled[i]]
      /\ tailSize' = IF rest = <<>> THEN size ELSE Len(rest)
      /\ pending' = bytes
      /\ IF aligned = 0
         THEN reporting' = TRUE /\ program' = Idle /\ UNCHANGED writeAddress
         ELSE WriteBuffer("pending", aligned, "onWritten") /\ UNCHANGED reporting
    BY DEF WriteAligned
<1>2. Len(bytes) \in Nat /\ aligned \in 0 .. Len(bytes) /\ Len(bytes) - aligned < DoubleWord
    BY AlignedSizeIs
<1>3. /\ rest \in Seq(Byte) /\ Len(rest) = Len(bytes) - aligned
      /\ \A i \in 1 .. Len(rest) : rest[i] = bytes[aligned + i]
  <2>1. \A i \in aligned + 1 .. Len(bytes) : bytes[i] \in Byte
      BY <1>2
  <2>2. /\ rest \in Seq(Byte)
        /\ Len(rest) = IF aligned + 1 <= Len(bytes) THEN Len(bytes) - (aligned + 1) + 1 ELSE 0
        /\ \A i \in 1 .. Len(bytes) - (aligned + 1) + 1 : rest[i] = bytes[(aligned + 1) + i - 1]
      BY <1>2, <2>1, SubSeqProperties
  <2> HIDE DEF rest, aligned
  <2>3. Len(rest) = Len(bytes) - aligned
      BY <1>2, <2>2
  <2>4. ASSUME NEW i \in 1 .. Len(rest)
        PROVE  rest[i] = bytes[aligned + i]
    <3>1. i \in 1 .. Len(bytes) - (aligned + 1) + 1 /\ (aligned + 1) + i - 1 = aligned + i
        BY <1>2, <2>3
    <3> QED BY <2>2, <3>1
  <2> QED BY <2>2, <2>3, <2>4
<1>4. rest = <<>> <=> Len(bytes) = aligned
    BY <1>2, <1>3, EmptySeq
<1>5. bytes = <<>> => Len(bytes) = aligned
    BY <1>2
<1> HIDE DEF rest, aligned
<1>6. tailSize' = Len(bytes) - aligned + size /\ tailSize' \in 0 .. DoubleWord - 1
  <2>1. CASE Len(bytes) = aligned
    <3>1. tailSize' = size
        BY <1>1, <1>4, <2>1
    <3> QED BY <1>2, <2>1, <3>1
  <2>2. CASE Len(bytes) # aligned
    <3>1. size = 0 /\ tailSize' = Len(rest)
        BY <1>1, <1>4, <1>5, <2>2
    <3> QED BY <1>2, <1>3, <2>2, <3>1, DoubleWordAssumption
  <2> QED BY <2>1, <2>2
<1>7. /\ tail' \in [1 .. DoubleWord -> Byte]
      /\ \A i \in 1 .. DoubleWord :
           tail'[i] = IF i <= Len(bytes) - aligned THEN bytes[aligned + i] ELSE filled[i]
  <2>1. ASSUME NEW i \in 1 .. DoubleWord
        PROVE  /\ (IF i <= Len(rest) THEN rest[i] ELSE filled[i]) \in Byte
               /\ tail'[i] = IF i <= Len(bytes) - aligned THEN bytes[aligned + i] ELSE filled[i]
    <3>1. tail'[i] = IF i <= Len(rest) THEN rest[i] ELSE filled[i]
        BY <1>1
    <3>2. CASE i <= Len(rest)
      <4>1. i \in 1 .. Len(rest)
          BY <1>2, <1>3, <3>2, DoubleWordAssumption
      <4> QED BY <1>3, <3>1, <3>2, <4>1
    <3>3. CASE ~(i <= Len(rest))
        BY <1>3, <3>1, <3>3
    <3> QED BY <3>2, <3>3
  <2> QED BY <1>1, <2>1
<1>8. /\ writeAddress' = writeAddress + aligned
      /\ IF aligned = 0
         THEN reporting' = TRUE /\ program' = Idle
         ELSE /\ reporting' = reporting
              /\ program' = [from |-> "pending", bytes |-> aligned, to |-> writeAddress,
                             then |-> "onWritten"]
    BY <1>1, <1>2 DEF WriteBuffer, Behind
<1> QED BY <1>1, <1>6, <1>7, <1>8 DEF aligned

(* What a completed write leaves in flash. *)
LEMMA ProgrammedIs ==
    ASSUME BytesInv, Programmed
    PROVE  /\ memory' \in [0 .. Ceiling(imageSize) - 1 -> Seq(Byte)]
           /\ \A address \in 0 .. Ceiling(imageSize) - 1 :
                memory'[address] = IF address < program.to + program.bytes THEN <<Final(address)>>
                    ELSE <<>>
<1>1. /\ program.from # "none"
      /\ memory' = [address \in DOMAIN memory |->
            IF address \in program.to .. program.to + program.bytes - 1
            THEN Append(memory[address], Source(program.from)[address - program.to + 1])
            ELSE memory[address]]
    BY DEF Programmed
<1>2. /\ memory \in [0 .. Ceiling(imageSize) - 1 -> Seq(Byte)]
      /\ \A address \in 0 .. Ceiling(imageSize) - 1 :
           memory[address] = IF address < program.to THEN <<Final(address)>> ELSE <<>>
    BY <1>1 DEF BytesInv, ImageTypeOK, MemoryInv, Done
<1>3. \A i \in 1 .. program.bytes : Source(program.from)[i] = Final(program.to + i - 1)
  <2>1. CASE program.then = "onWritten"
    <3>1. /\ program.from = "pending" /\ program.to + program.bytes = writeAddress
          /\ \A i \in 1 .. program.bytes : pending[i] = program.to + i
          /\ writeAddress + tailSize = written
        BY <2>1 DEF BytesInv, AlignedInv
    <3>2. /\ program.to + program.bytes <= imageSize /\ program.to \in Nat /\ program.bytes \in Nat
          /\ imageSize \in Nat
        BY <3>1, BytesKnown
    <3>3. ASSUME NEW i \in 1 .. program.bytes
          PROVE  Source(program.from)[i] = Final(program.to + i - 1)
      <4>1. program.to + i - 1 < imageSize /\ (program.to + i - 1) + 1 = program.to + i
          BY <3>2
      <4> QED BY <3>1, <4>1 DEF Source, Final
    <3> QED BY <3>3
  <2>2. CASE program.then = "writeAligned"
    <3>1. /\ program.from = "tail" /\ program.bytes = DoubleWord
          /\ program.to + DoubleWord = writeAddress
          /\ \A i \in 1 .. DoubleWord : tail[i] = program.to + i
          /\ writeAddress + Len(pending) = written
        BY <2>2 DEF BytesInv, TailInv
    <3>2. /\ program.to + program.bytes <= imageSize /\ program.to \in Nat /\ program.bytes \in Nat
          /\ imageSize \in Nat
        BY <3>1, BytesKnown
    <3>3. ASSUME NEW i \in 1 .. program.bytes
          PROVE  Source(program.from)[i] = Final(program.to + i - 1)
      <4>1. program.to + i - 1 < imageSize /\ (program.to + i - 1) + 1 = program.to + i
          BY <3>2
      <4> QED BY <3>1, <4>1 DEF Source, Final
    <3> QED BY <3>3
  <2>3. CASE program.then = "requestInstall"
      BY <2>3 DEF BytesInv, LastInv, Source
  <2> QED BY <1>1, <2>1, <2>2, <2>3, BytesKnown
<1>4. Ceiling(imageSize) \in Nat
    BY BytesKnown, CeilingIs
<1>5. ASSUME NEW address \in 0 .. Ceiling(imageSize) - 1
      PROVE  /\ memory'[address] = IF address < program.to + program.bytes THEN <<Final(address)>>
                    ELSE <<>>
             /\ memory'[address] \in Seq(Byte)
  <2>1. Final(address) \in Byte
    <3>1. imageSize \in Nat /\ imageSize <= MaxImageSize /\ MaxImageSize \in Nat /\ address \in Nat
        BY BytesKnown, MaxImageSizeAssumption, <1>4
    <3> QED BY <3>1 DEF Final, Byte, erasedByte
  <2>2. <<Final(address)>> \in Seq(Byte) /\ <<>> \in Seq(Byte)
      BY <2>1
  <2>3. CASE address \in program.to .. program.to + program.bytes - 1
    <3>1. /\ address - program.to + 1 \in 1 .. program.bytes
          /\ program.to + (address - program.to + 1) - 1 = address
        BY <2>3, BytesKnown
    <3>2. Source(program.from)[address - program.to + 1] = Final(address)
        BY <1>3, <3>1
    <3>3. memory[address] = <<>> /\ address < program.to + program.bytes
        BY <1>2, <2>3, BytesKnown
    <3>4. memory'[address] = Append(<<>>, Final(address))
        BY <1>1, <1>2, <2>3, <3>2, <3>3
    <3>5. Append(<<>>, Final(address)) = <<Final(address)>>
        OBVIOUS
    <3> QED BY <2>2, <3>3, <3>4, <3>5
  <2>4. CASE ~(address \in program.to .. program.to + program.bytes - 1)
    <3>1. memory'[address] = memory[address]
        BY <1>1, <1>2, <2>4
    <3>2. address < program.to + program.bytes <=> address < program.to
        BY <1>4, <2>4, BytesKnown
    <3> QED BY <1>2, <2>2, <3>1, <3>2
  <2> QED BY <2>3, <2>4
<1>6. memory' = [address \in 0 .. Ceiling(imageSize) - 1 |-> memory'[address]]
    BY <1>1, <1>2
<1> QED BY <1>5, <1>6

-----------------------------------------------------------------------------
(* The invariant. *)

(* WriteAligned keeps to it when what it is given follows what is written. *)
LEMMA WriteAlignedKeeps ==
    ASSUME BytesInv, NEW bytes \in Seq(Byte),
           NEW filled \in [1 .. DoubleWord -> Byte], NEW size \in 0 .. DoubleWord - 1,
           size = 0 \/ bytes = <<>>, WriteAligned(bytes, filled, size), ~reporting,
           writeAddress + Len(bytes) + size = written', caller' = "write", imageSize' = imageSize,
           written' \in 0 .. imageSize,
           \A i \in 1 .. Len(bytes) : bytes[i] = writeAddress + i,
           \A i \in 1 .. size : filled[i] = writeAddress + i,
           memory' \in [0 .. Ceiling(imageSize) - 1 -> Seq(Byte)],
           \A address \in 0 .. Ceiling(imageSize) - 1 :
              memory'[address] = IF address < writeAddress THEN <<Final(address)>> ELSE <<>>
    PROVE  BytesInv'
<1> DEFINE aligned == AlignedSize(Len(bytes))
<1>1. /\ pending' = bytes /\ tail' \in [1 .. DoubleWord -> Byte]
      /\ tailSize' = Len(bytes) - aligned + size /\ tailSize' \in 0 .. DoubleWord - 1
      /\ \A i \in 1 .. DoubleWord :
           tail'[i] = IF i <= Len(bytes) - aligned THEN bytes[aligned + i] ELSE filled[i]
      /\ writeAddress' = writeAddress + aligned
      /\ IF aligned = 0
         THEN reporting' = TRUE /\ program' = Idle
         ELSE /\ reporting' = reporting
              /\ program' = [from |-> "pending", bytes |-> aligned, to |-> writeAddress,
                             then |-> "onWritten"]
    BY WriteAlignedIs, BytesKnown
<1>2. Len(bytes) \in Nat /\ aligned \in 0 .. Len(bytes) /\ aligned % DoubleWord = 0
    BY AlignedSizeIs
<1>3. /\ writeAddress \in Nat /\ imageSize \in Nat /\ DoubleWord \in Nat \ {0}
      /\ writeAddress % DoubleWord = 0
      /\ imageSize <= Ceiling(imageSize) /\ Ceiling(imageSize) \in Nat
  <2>1. writeAddress % DoubleWord = 0
      BY DEF BytesInv, MemoryInv
  <2> QED BY <2>1, BytesKnown, CeilingIs
<1> HIDE DEF aligned
<1>4. writeAddress' + tailSize' = written'
    BY <1>1, <1>2, <1>3
<1>5. ASSUME NEW i \in 1 .. tailSize'
      PROVE  tail'[i] = writeAddress' + i
  <2>1. i \in 1 .. DoubleWord
      BY <1>1, <1>3
  <2>2. CASE i <= Len(bytes) - aligned
    <3>1. aligned + i \in 1 .. Len(bytes)
        BY <1>2, <2>1, <2>2
    <3>2. tail'[i] = writeAddress + (aligned + i)
        BY <1>1, <2>1, <2>2, <3>1
    <3> QED BY <1>1, <1>2, <1>3, <2>1, <3>2
  <2>3. CASE ~(i <= Len(bytes) - aligned)
    <3>1. size # 0
        BY <1>1, <1>2, <2>1, <2>3
    <3>2. Len(bytes) = 0 /\ aligned = 0
      <4>1. bytes = <<>>
          BY <3>1
      <4>2. Len(bytes) = 0
          BY <4>1
      <4> QED BY <1>2, <4>2
    <3>3. i \in 1 .. size
        BY <1>1, <2>1, <3>2
    <3> QED BY <1>1, <1>3, <2>1, <2>3, <3>2, <3>3
  <2> QED BY <2>2, <2>3
<1>6. writeAddress' \in 0 .. imageSize /\ writeAddress' % DoubleWord = 0
  <2>1. writeAddress' % DoubleWord = 0
    <3>1. aligned \in Nat
        BY <1>2
    <3> QED BY <1>1, <1>2, <1>3, <3>1, WholeSum
  <2> QED BY <1>1, <1>2, <1>3, <1>4, <2>1
<1>7. /\ Ceiling(imageSize)' = Ceiling(imageSize)
      /\ (\A address : Final(address)' = Final(address))
    BY DEF Ceiling, Final
<1>t. /\ imageSize' \in 1 .. MaxImageSize
      /\ memory' \in [0 .. Ceiling(imageSize)' - 1 -> Seq(Byte)]
      /\ written' \in 0 .. imageSize' /\ tail' \in [1 .. DoubleWord -> Byte]
      /\ tailSize' \in 0 .. DoubleWord - 1 /\ pending' \in Seq(Byte)
      /\ writeAddress' \in 0 .. Ceiling(imageSize)'
      /\ caller' \in {"free", "write", "install", "installed"}
  <2>1. imageSize \in 1 .. MaxImageSize
      BY DEF BytesInv, ImageTypeOK
  <2>2. writeAddress' \in 0 .. Ceiling(imageSize)
      BY <1>3, <1>6
  <2> QED BY <1>1, <1>7, <2>1, <2>2
<1>8. CASE aligned = 0
  <2>1. reporting' = TRUE /\ program' = Idle /\ writeAddress' = writeAddress
      BY <1>1, <1>3, <1>8
  <2>2. Done' = writeAddress
      BY <2>1 DEF Done, Idle
  <2>3. MemoryInv'
      BY <1>3, <1>7, <2>1, <2>2 DEF MemoryInv
  <2>4. IdleInv' /\ AlignedInv' /\ TailInv' /\ LastInv'
      BY <1>4, <1>5, <2>1 DEF IdleInv, AlignedInv, TailInv, LastInv, Idle
  <2>5. reporting' \in BOOLEAN
      BY <2>1
  <2>6. program' \in [from : {"none", "tail", "pending"}, bytes : 0 .. Ceiling(imageSize),
                      to : 0 .. Ceiling(imageSize),
                      then : {"none", "writeAligned", "onWritten", "requestInstall"}]
      BY <1>3, <2>1 DEF Idle
  <2>7. ImageTypeOK'
      BY <1>t, <1>7, <2>5, <2>6 DEF ImageTypeOK
  <2> QED BY <2>3, <2>4, <2>7 DEF BytesInv
<1>9. CASE aligned # 0
  <2>1. /\ reporting' = FALSE
        /\ program' = [from |-> "pending", bytes |-> aligned, to |-> writeAddress,
                       then |-> "onWritten"]
      BY <1>1, <1>9
  <2>2. Done' = writeAddress
      BY <2>1 DEF Done
  <2>3. MemoryInv'
      BY <1>3, <1>6, <1>7, <2>1, <2>2 DEF MemoryInv
  <2>4. AlignedInv'
    <3>1. \A i \in 1 .. aligned : bytes[i] = writeAddress + i
        BY <1>2
    <3> QED BY <1>1, <1>2, <1>3, <1>4, <1>5, <1>9, <2>1, <3>1 DEF AlignedInv
  <2>5. IdleInv' /\ TailInv' /\ LastInv'
      BY <2>1 DEF IdleInv, TailInv, LastInv
  <2>6. program' \in [from : {"none", "tail", "pending"}, bytes : 0 .. Ceiling(imageSize),
                      to : 0 .. Ceiling(imageSize),
                      then : {"none", "writeAligned", "onWritten", "requestInstall"}]
    <3>1. /\ aligned \in 0 .. Ceiling(imageSize)
          /\ writeAddress \in 0 .. Ceiling(imageSize)
        BY <1>1, <1>2, <1>3, <1>6
    <3> QED BY <2>1, <3>1
  <2>7. reporting' \in BOOLEAN
      BY <2>1
  <2>8. ImageTypeOK'
      BY <1>t, <1>7, <2>6, <2>7 DEF ImageTypeOK
  <2> QED BY <2>3, <2>4, <2>5, <2>8 DEF BytesInv
<1> QED BY <1>8, <1>9

(* The invariant holds before any byte is given.                           *)
LEMMA BytesInvInit ==
    ASSUME ImageInit
    PROVE  BytesInv
<1>1. /\ imageSize \in 1 .. MaxImageSize /\ written = 0 /\ tailSize = 0 /\ pending = <<>>
      /\ writeAddress = 0
      /\ program = Idle /\ reporting = FALSE /\ caller = "free"
      /\ memory = [address \in 0 .. Ceiling(imageSize) - 1 |-> <<>>]
      /\ tail = [i \in 1 .. DoubleWord |-> erasedByte]
    BY DEF ImageInit
<1>2. /\ Ceiling(imageSize) \in Nat /\ imageSize \in Nat /\ MaxImageSize \in Nat
      /\ DoubleWord \in Nat \ {0}
      /\ 0 % DoubleWord = 0
    BY <1>1, CeilingIs, WholeWord, DoubleWordAssumption, MaxImageSizeAssumption
<1>3. ImageTypeOK
  <2>1. erasedByte \in Byte
      BY <1>2 DEF erasedByte, Byte
  <2>2. tail \in [1 .. DoubleWord -> Byte]
      BY <1>1, <2>1
  <2>3. pending \in Seq(Byte)
      BY <1>1
  <2>4. memory \in [0 .. Ceiling(imageSize) - 1 -> Seq(Byte)]
      BY <1>1
  <2>5. reporting \in BOOLEAN
      BY <1>1
  <2>6. program \in [from : {"none", "tail", "pending"}, bytes : 0 .. Ceiling(imageSize),
                     to : 0 .. Ceiling(imageSize),
                     then : {"none", "writeAligned", "onWritten", "requestInstall"}]
      BY <1>1, <1>2 DEF Idle
  <2>7. /\ written \in 0 .. imageSize /\ tailSize \in 0 .. DoubleWord - 1
        /\ writeAddress \in 0 .. Ceiling(imageSize)
        /\ caller \in {"free", "write", "install", "installed"}
      BY <1>1, <1>2
  <2> QED BY <1>1, <2>2, <2>3, <2>4, <2>5, <2>6, <2>7 DEF ImageTypeOK
<1>4. IdleInv /\ AlignedInv /\ TailInv /\ LastInv
    BY <1>1 DEF IdleInv, AlignedInv, TailInv, LastInv, Idle
<1>5. MemoryInv
  <2>1. Done = 0
      BY <1>1 DEF Done, Idle
  <2> QED BY <1>1, <1>2, <2>1 DEF MemoryInv
<1> QED BY <1>3, <1>4, <1>5 DEF BytesInv

(* The image from where it was given to. *)
LEMMA Given ==
    ASSUME BytesInv, NEW first \in Nat, NEW last \in Nat, last <= imageSize, first < last
    PROVE  /\ SubSeq(ImageBytes, first + 1, last) \in Seq(Byte)
           /\ Len(SubSeq(ImageBytes, first + 1, last)) = last - first
           /\ \A i \in 1 .. last - first : SubSeq(ImageBytes, first + 1, last)[i] = first + i
<1>1. imageSize \in Nat /\ imageSize <= MaxImageSize /\ MaxImageSize \in Nat
    BY BytesKnown, MaxImageSizeAssumption
<1>2. \A i \in 1 .. imageSize : ImageBytes[i] = i
    BY DEF ImageBytes
<1>3. \A i \in first + 1 .. last : ImageBytes[i] \in Byte
    BY <1>1, <1>2 DEF Byte
<1>4. /\ SubSeq(ImageBytes, first + 1, last) \in Seq(Byte)
      /\ Len(SubSeq(ImageBytes, first + 1, last)) =
           IF first + 1 <= last THEN last - (first + 1) + 1 ELSE 0
      /\ \A i \in 1 .. last - (first + 1) + 1 :
           SubSeq(ImageBytes, first + 1, last)[i] = ImageBytes[(first + 1) + i - 1]
    BY <1>3, SubSeqProperties
<1>5. ASSUME NEW i \in 1 .. last - first
      PROVE  SubSeq(ImageBytes, first + 1, last)[i] = first + i
  <2>1. /\ i \in 1 .. last - (first + 1) + 1 /\ (first + 1) + i - 1 = first + i
        /\ first + i \in 1 .. imageSize
      BY <1>1
  <2> QED BY <1>2, <1>4, <2>1
<1> QED BY <1>4, <1>5

(* Bytes that fill up the tail, or a part of it. *)
LEMMA FillIs ==
    ASSUME NEW bytes \in Seq(Byte), tail \in [1 .. DoubleWord -> Byte],
           tailSize \in 0 .. DoubleWord - 1,
           tailSize + Len(bytes) <= DoubleWord
    PROVE  /\ Fill(bytes) \in [1 .. DoubleWord -> Byte]
           /\ \A i \in 1 .. tailSize : Fill(bytes)[i] = tail[i]
           /\ \A i \in 1 .. Len(bytes) : Fill(bytes)[tailSize + i] = bytes[i]
<1>1. Fill(bytes) = [i \in 1 .. DoubleWord |->
                        IF i > tailSize /\ i <= tailSize + Len(bytes) THEN bytes[i - tailSize]
                            ELSE tail[i]]
    BY DEF Fill
<1>2. DoubleWord \in Nat /\ Len(bytes) \in Nat
    BY DoubleWordAssumption
<1>3. ASSUME NEW i \in 1 .. DoubleWord
      PROVE  (IF i > tailSize /\ i <= tailSize + Len(bytes) THEN bytes[i - tailSize] ELSE tail[i]) \in Byte
  <2>1. CASE i > tailSize /\ i <= tailSize + Len(bytes)
    <3>1. i - tailSize \in 1 .. Len(bytes)
        BY <1>2, <2>1
    <3> QED BY <2>1, <3>1
  <2> QED BY <2>1
<1>4. Fill(bytes) \in [1 .. DoubleWord -> Byte]
    BY <1>1, <1>3
<1>5. ASSUME NEW i \in 1 .. tailSize
      PROVE  Fill(bytes)[i] = tail[i]
  <2>1. i \in 1 .. DoubleWord /\ ~(i > tailSize)
      BY <1>2
  <2> QED BY <1>1, <2>1
<1>6. ASSUME NEW i \in 1 .. Len(bytes)
      PROVE  Fill(bytes)[tailSize + i] = bytes[i]
  <2>1. /\ tailSize + i \in 1 .. DoubleWord /\ tailSize + i > tailSize
        /\ tailSize + i <= tailSize + Len(bytes)
        /\ (tailSize + i) - tailSize = i
      BY <1>2
  <2> QED BY <1>1, <2>1
<1> QED BY <1>4, <1>5, <1>6

(* Write: bytes that fill the tail go to flash with it, bytes that do not  *)
(* wait in it, and when the tail is empty whole double words go at once.   *)
LEMMA BytesWriteKeeps ==
    ASSUME BytesInv, NEW size \in 1 .. MaxImageSize, WriteBytes(size)
    PROVE  BytesInv'
<1> DEFINE data == SubSeq(ImageBytes, written + 1, written + size)
           toTail == IF DoubleWord - tailSize < size THEN DoubleWord - tailSize ELSE size
<1>1. /\ caller = "free" /\ written + size <= imageSize
      /\ written' = written + size /\ caller' = "write"
      /\ IF tailSize = 0
         THEN WriteAligned(data, tail, 0)
         ELSE IF tailSize + toTail = DoubleWord
         THEN /\ tail' = Fill(SubSeq(data, 1, toTail))
              /\ pending' = SubSeq(data, toTail + 1, size)
              /\ WriteTail("writeAligned")
              /\ UNCHANGED reporting
         ELSE WriteAligned(<<>>, Fill(data), tailSize + toTail)
      /\ imageSize' = imageSize /\ memory' = memory
    BY DEF WriteBytes
<1>2. program.then = "none"
    BY <1>1, BytesKnown DEF BytesInv, AlignedInv, TailInv, LastInv
<1>3. /\ program = Idle /\ ~reporting /\ writeAddress + tailSize = written
      /\ \A i \in 1 .. tailSize : tail[i] = writeAddress + i
    BY <1>1, <1>2 DEF BytesInv, IdleInv
<1>4. /\ size \in Nat /\ size > 0 /\ written \in Nat /\ written + size \in Nat
      /\ imageSize \in Nat /\ writeAddress \in Nat /\ DoubleWord \in Nat \ {0}
      /\ tail \in [1 .. DoubleWord -> Byte] /\ tailSize \in 0 .. DoubleWord - 1
    BY BytesKnown, MaxImageSizeAssumption
<1>5. data \in Seq(Byte) /\ Len(data) = size /\ (\A i \in 1 .. size : data[i] = written + i)
  <2>1. written < written + size /\ (written + size) - written = size
      BY <1>4
  <2> QED BY <1>1, <1>4, <2>1, Given
<1>6. /\ toTail \in 1 .. size /\ toTail <= DoubleWord - tailSize
      /\ (tailSize + toTail # DoubleWord => toTail = size)
    BY <1>4
<1>7. Done = writeAddress
    BY <1>3 DEF Done, Idle
<1>8. /\ memory' \in [0 .. Ceiling(imageSize) - 1 -> Seq(Byte)]
      /\ \A address \in 0 .. Ceiling(imageSize) - 1 :
           memory'[address] = IF address < writeAddress THEN <<Final(address)>> ELSE <<>>
    BY <1>1, <1>7 DEF BytesInv, ImageTypeOK, MemoryInv
<1> HIDE DEF data, toTail
<1>9. written' \in 0 .. imageSize
    BY <1>1, <1>4
<1>10. CASE tailSize = 0
  <2>1. WriteAligned(data, tail, 0) /\ 0 \in 0 .. DoubleWord - 1
      BY <1>1, <1>4, <1>10
  <2>2. writeAddress + Len(data) + 0 = written'
      BY <1>1, <1>3, <1>4, <1>5, <1>10
  <2>3. \A i \in 1 .. Len(data) : data[i] = writeAddress + i
      BY <1>3, <1>4, <1>5, <1>10
  <2>4. \A i \in 1 .. 0 : tail[i] = writeAddress + i
      OBVIOUS
  <2> QED BY <1>1, <1>3, <1>4, <1>5, <1>8, <1>9, <2>1, <2>2, <2>3, <2>4, WriteAlignedKeeps
<1>11. CASE tailSize # 0 /\ tailSize + toTail # DoubleWord
  <2>1. WriteAligned(<<>>, Fill(data), tailSize + toTail) /\ toTail = size
      BY <1>1, <1>6, <1>11
  <2>2. tailSize + size \in 0 .. DoubleWord - 1 /\ tailSize + size < DoubleWord
      BY <1>4, <1>6, <1>11, <2>1
  <2>3. /\ Fill(data) \in [1 .. DoubleWord -> Byte]
        /\ \A i \in 1 .. tailSize : Fill(data)[i] = tail[i]
        /\ \A i \in 1 .. size : Fill(data)[tailSize + i] = data[i]
    <3>1. tailSize + Len(data) <= DoubleWord
        BY <1>4, <1>5, <2>2
    <3> QED BY <1>4, <1>5, <3>1, FillIs
  <2>4. ASSUME NEW i \in 1 .. tailSize + size
        PROVE  Fill(data)[i] = writeAddress + i
    <3>1. CASE i <= tailSize
        BY <1>3, <1>4, <2>3, <3>1
    <3>2. CASE i > tailSize
      <4>1. i - tailSize \in 1 .. size /\ tailSize + (i - tailSize) = i
          BY <1>4, <3>2
      <4>2. Fill(data)[i] = written + (i - tailSize)
          BY <1>5, <2>3, <4>1
      <4> QED BY <1>3, <1>4, <3>2, <4>2
    <3> QED BY <1>4, <3>1, <3>2
  <2>5. <<>> \in Seq(Byte) /\ Len(<<>>) = 0
      OBVIOUS
  <2>6. writeAddress + Len(<<>>) + (tailSize + size) = written'
      BY <1>1, <1>3, <1>4, <2>5
  <2>7. \A i \in 1 .. Len(<<>>) : <<>>[i] = writeAddress + i
      BY <2>5
  <2> QED BY <1>1, <1>3, <1>4, <1>8, <1>9, <2>1, <2>2, <2>3, <2>4, <2>5, <2>6, <2>7,
             WriteAlignedKeeps
<1>12. CASE tailSize # 0 /\ tailSize + toTail = DoubleWord
  <2>1. /\ tail' = Fill(SubSeq(data, 1, toTail)) /\ pending' = SubSeq(data, toTail + 1, size)
        /\ tailSize' = 0 /\ reporting' = reporting
        /\ program' = [from |-> "tail", bytes |-> DoubleWord, to |-> writeAddress,
                       then |-> "writeAligned"]
        /\ writeAddress' = writeAddress + DoubleWord
      BY <1>1, <1>12 DEF WriteTail, WriteBuffer, Behind
  <2>2. \A i \in 1 .. toTail : data[i] \in Byte
      BY <1>4, <1>5, <1>6
  <2>3. \A i \in toTail + 1 .. size : data[i] \in Byte
      BY <1>4, <1>5, <1>6
  <2>4. /\ SubSeq(data, 1, toTail) \in Seq(Byte) /\ Len(SubSeq(data, 1, toTail)) = toTail
        /\ \A i \in 1 .. toTail : SubSeq(data, 1, toTail)[i] = data[i]
    <3>1. /\ SubSeq(data, 1, toTail) \in Seq(Byte)
          /\ Len(SubSeq(data, 1, toTail)) = IF 1 <= toTail THEN toTail - 1 + 1 ELSE 0
          /\ \A i \in 1 .. toTail - 1 + 1 : SubSeq(data, 1, toTail)[i] = data[1 + i - 1]
        BY <1>6, <2>2, SubSeqProperties
    <3>2. toTail - 1 + 1 = toTail /\ 1 <= toTail /\ (\A i \in 1 .. toTail : 1 + i - 1 = i)
        BY <1>4, <1>6
    <3> QED BY <3>1, <3>2
  <2>5. /\ pending' \in Seq(Byte) /\ Len(pending') = size - toTail
        /\ \A i \in 1 .. size - toTail : pending'[i] = data[toTail + i]
    <3>1. /\ SubSeq(data, toTail + 1, size) \in Seq(Byte)
          /\ Len(SubSeq(data, toTail + 1, size)) =
               IF toTail + 1 <= size THEN size - (toTail + 1) + 1 ELSE 0
          /\ \A i \in 1 .. size - (toTail + 1) + 1 :
               SubSeq(data, toTail + 1, size)[i] = data[(toTail + 1) + i - 1]
      <4>1. toTail + 1 \in Nat /\ size \in Nat
          BY <1>4, <1>6
      <4> QED BY <2>3, <4>1, SubSeqProperties
    <3>2. /\ size - (toTail + 1) + 1 = size - toTail /\ (~(toTail + 1 <= size) => size - toTail = 0)
          /\ \A i \in 1 .. size - toTail : (toTail + 1) + i - 1 = toTail + i
        BY <1>4, <1>6
    <3> QED BY <2>1, <3>1, <3>2
  <2>6. /\ tail' \in [1 .. DoubleWord -> Byte]
        /\ \A i \in 1 .. tailSize : tail'[i] = tail[i]
        /\ \A i \in 1 .. toTail : tail'[tailSize + i] = data[i]
    <3>1. tailSize + Len(SubSeq(data, 1, toTail)) <= DoubleWord
        BY <1>4, <1>6, <1>12, <2>4
    <3>2. /\ Fill(SubSeq(data, 1, toTail)) \in [1 .. DoubleWord -> Byte]
          /\ \A i \in 1 .. tailSize : Fill(SubSeq(data, 1, toTail))[i] = tail[i]
          /\ \A i \in 1 .. Len(SubSeq(data, 1, toTail)) :
               Fill(SubSeq(data, 1, toTail))[tailSize + i] = SubSeq(data, 1, toTail)[i]
        BY <1>4, <2>4, <3>1, FillIs
    <3> QED BY <2>1, <2>4, <3>2
  <2>7. ASSUME NEW i \in 1 .. DoubleWord
        PROVE  tail'[i] = writeAddress + i
    <3>1. CASE i <= tailSize
        BY <1>3, <1>4, <2>6, <3>1
    <3>2. CASE i > tailSize
      <4>1. i - tailSize \in 1 .. toTail /\ tailSize + (i - tailSize) = i
          BY <1>4, <1>6, <1>12, <3>2
      <4>2. tail'[i] = data[i - tailSize]
          BY <2>6, <4>1
      <4>3. i - tailSize \in 1 .. size
          BY <1>4, <1>6, <4>1
      <4>4. tail'[i] = written + (i - tailSize)
          BY <1>5, <4>2, <4>3
      <4> QED BY <1>3, <1>4, <3>2, <4>4
    <3> QED BY <1>4, <3>1, <3>2
  <2>8. ASSUME NEW i \in 1 .. Len(pending')
        PROVE  pending'[i] = writeAddress' + i
    <3>1. i \in 1 .. size - toTail /\ toTail + i \in 1 .. size
        BY <1>4, <1>6, <2>5
    <3>2. pending'[i] = written + (toTail + i)
        BY <1>5, <2>5, <3>1
    <3>3. written + toTail = writeAddress' /\ written \in Int /\ toTail \in Int /\ i \in Int
        BY <1>3, <1>4, <1>6, <1>12, <2>1, <3>1
    <3> QED BY <3>2, <3>3
  <2>9. writeAddress' + Len(pending') = written'
      BY <1>1, <1>3, <1>4, <1>6, <1>12, <2>1, <2>5
  <2>10. TailInv'
      BY <1>1, <1>3, <2>1, <2>7, <2>8, <2>9 DEF TailInv
  <2>11. IdleInv' /\ AlignedInv' /\ LastInv'
      BY <2>1 DEF IdleInv, AlignedInv, LastInv
  <2>12. /\ Ceiling(imageSize)' = Ceiling(imageSize)
         /\ (\A address : Final(address)' = Final(address))
      BY <1>1 DEF Ceiling, Final
  <2>13. writeAddress % DoubleWord = 0 /\ writeAddress' % DoubleWord = 0
      BY <1>4, <2>1, WholeSum, WholeWord DEF BytesInv, MemoryInv
  <2>14. MemoryInv'
    <3>1. Done' = writeAddress
        BY <2>1 DEF Done
    <3> QED BY <1>8, <2>12, <2>13, <3>1 DEF MemoryInv
  <2>15. /\ writeAddress \in 0 .. Ceiling(imageSize)
         /\ writeAddress' \in 0 .. Ceiling(imageSize)
         /\ DoubleWord \in 0 .. Ceiling(imageSize)
    <3>1. /\ writeAddress' <= written' /\ Ceiling(imageSize) \in Nat
          /\ imageSize <= Ceiling(imageSize)
      <4>1. Len(pending') \in Nat /\ writeAddress' \in Nat
          BY <1>4, <2>1, <2>5
      <4>2. writeAddress' <= written'
          BY <2>9, <4>1
      <4> QED BY <1>4, <4>2, CeilingIs
    <3>2. written' \in Nat /\ written' <= imageSize
        BY <1>4, <1>9
    <3> QED BY <1>4, <2>1, <3>1, <3>2
  <2>16. program' \in [from : {"none", "tail", "pending"}, bytes : 0 .. Ceiling(imageSize),
                       to : 0 .. Ceiling(imageSize),
                       then : {"none", "writeAligned", "onWritten", "requestInstall"}]
      BY <2>1, <2>15
  <2>17. reporting' \in BOOLEAN /\ imageSize \in 1 .. MaxImageSize
      BY <2>1 DEF BytesInv, ImageTypeOK
  <2>18. tailSize' \in 0 .. DoubleWord - 1
      BY <1>4, <2>1
  <2>19. ImageTypeOK'
      BY <1>1, <1>8, <1>9, <2>5, <2>6, <2>12, <2>15, <2>16, <2>17, <2>18 DEF ImageTypeOK
  <2> QED BY <2>10, <2>11, <2>14, <2>19 DEF BytesInv
<1> QED BY <1>10, <1>11, <1>12

(* The tail is in flash: the bytes that waited in `pending` follow it.     *)
LEMMA TailProgrammedKeeps ==
    ASSUME BytesInv, TailProgrammed
    PROVE  BytesInv'
<1>1. /\ program.then = "writeAligned" /\ Programmed
      /\ WriteAligned(pending, tail, tailSize)
      /\ UNCHANGED <<imageSize, written, caller>>
    BY DEF TailProgrammed
<1>2. /\ program.bytes = DoubleWord /\ program.to + DoubleWord = writeAddress
      /\ tailSize = 0 /\ caller = "write" /\ ~reporting /\ writeAddress + Len(pending) = written
      /\ \A i \in 1 .. Len(pending) : pending[i] = writeAddress + i
    BY <1>1 DEF BytesInv, TailInv
<1>3. /\ memory' \in [0 .. Ceiling(imageSize) - 1 -> Seq(Byte)]
      /\ \A address \in 0 .. Ceiling(imageSize) - 1 :
           memory'[address] = IF address < writeAddress THEN <<Final(address)>> ELSE <<>>
    BY <1>1, <1>2, ProgrammedIs
<1>4. /\ tail \in [1 .. DoubleWord -> Byte] /\ tailSize \in 0 .. DoubleWord - 1
      /\ pending \in Seq(Byte)
      /\ written \in 0 .. imageSize /\ imageSize \in Nat /\ writeAddress \in Nat
      /\ Len(pending) \in Nat
    BY BytesKnown
<1>5. /\ writeAddress + Len(pending) + tailSize = written'
      /\ (\A i \in 1 .. tailSize : tail[i] = writeAddress + i)
    BY <1>1, <1>2, <1>4
<1> QED BY <1>1, <1>2, <1>3, <1>4, <1>5, WriteAlignedKeeps

(* No byte is under way any more, and the bytes before writeAddress are in *)
(* flash.                                                                  *)
LEMMA IdleKeeps ==
    ASSUME BytesInv, program' = Idle,
           UNCHANGED <<imageSize, written, tail, tailSize, pending, writeAddress>>,
           IdleInv', reporting' \in BOOLEAN, caller' \in {"free", "write", "install", "installed"},
           memory' \in [0 .. Ceiling(imageSize) - 1 -> Seq(Byte)],
           \A address \in 0 .. Ceiling(imageSize) - 1 :
              memory'[address] = IF address < writeAddress THEN <<Final(address)>> ELSE <<>>
    PROVE  BytesInv'
<1>1. /\ Ceiling(imageSize)' = Ceiling(imageSize)
      /\ (\A address : Final(address)' = Final(address))
    BY DEF Ceiling, Final
<1>2. Done' = writeAddress
    BY DEF Done, Idle
<1>3. MemoryInv'
    BY <1>1, <1>2 DEF MemoryInv, BytesInv
<1>4. AlignedInv' /\ TailInv' /\ LastInv'
    BY DEF AlignedInv, TailInv, LastInv, Idle
<1>5. program' \in [from : {"none", "tail", "pending"}, bytes : 0 .. Ceiling(imageSize),
                    to : 0 .. Ceiling(imageSize),
                    then : {"none", "writeAligned", "onWritten", "requestInstall"}]
  <2>1. 0 \in 0 .. Ceiling(imageSize)
      BY BytesKnown, CeilingIs
  <2> QED BY <2>1 DEF Idle
<1>6. /\ imageSize \in 1 .. MaxImageSize /\ written \in 0 .. imageSize
      /\ tail \in [1 .. DoubleWord -> Byte]
      /\ tailSize \in 0 .. DoubleWord - 1 /\ pending \in Seq(Byte)
      /\ writeAddress \in 0 .. Ceiling(imageSize)
    BY DEF BytesInv, ImageTypeOK
<1>7. ImageTypeOK'
    BY <1>1, <1>5, <1>6 DEF ImageTypeOK
<1> QED BY <1>3, <1>4, <1>7 DEF BytesInv

(* The whole double words are in flash: the application may go on.         *)
LEMMA AlignedProgrammedKeeps ==
    ASSUME BytesInv, AlignedProgrammed
    PROVE  BytesInv'
<1>1. /\ program.then = "onWritten" /\ Programmed /\ program' = Idle /\ caller' = "free"
      /\ UNCHANGED <<imageSize, written, tail, tailSize, pending, writeAddress, reporting>>
    BY DEF AlignedProgrammed
<1>2. /\ program.to + program.bytes = writeAddress /\ ~reporting
      /\ writeAddress + tailSize = written
      /\ \A i \in 1 .. tailSize : tail[i] = writeAddress + i
    BY <1>1 DEF BytesInv, AlignedInv
<1>3. /\ memory' \in [0 .. Ceiling(imageSize) - 1 -> Seq(Byte)]
      /\ \A address \in 0 .. Ceiling(imageSize) - 1 :
           memory'[address] = IF address < writeAddress THEN <<Final(address)>> ELSE <<>>
    BY <1>1, <1>2, ProgrammedIs
<1>4. IdleInv'
    BY <1>1, <1>2 DEF IdleInv, Idle
<1>5. reporting' \in BOOLEAN
    BY <1>1 DEF BytesInv, ImageTypeOK
<1> QED BY <1>1, <1>3, <1>4, <1>5, IdleKeeps

(* The padded tail is in flash: the image is complete.                     *)
LEMMA LastProgrammedKeeps ==
    ASSUME BytesInv, LastProgrammed
    PROVE  BytesInv'
<1>1. /\ program.then = "requestInstall" /\ Programmed /\ program' = Idle
      /\ caller' = "installed"
      /\ UNCHANGED <<imageSize, written, tail, tailSize, pending, writeAddress, reporting>>
    BY DEF LastProgrammed
<1>2. /\ program.bytes = DoubleWord /\ program.to + DoubleWord = writeAddress /\ ~reporting
      /\ written = imageSize /\ imageSize < writeAddress
    BY <1>1 DEF BytesInv, LastInv
<1>3. /\ memory' \in [0 .. Ceiling(imageSize) - 1 -> Seq(Byte)]
      /\ \A address \in 0 .. Ceiling(imageSize) - 1 :
           memory'[address] = IF address < writeAddress THEN <<Final(address)>> ELSE <<>>
    BY <1>1, <1>2, ProgrammedIs
<1>4. imageSize \in Nat /\ writeAddress \in Nat
    BY BytesKnown
<1>5. IdleInv'
    BY <1>1, <1>2, <1>4 DEF IdleInv, Idle
<1>6. reporting' \in BOOLEAN
    BY <1>1 DEF BytesInv, ImageTypeOK
<1> QED BY <1>1, <1>3, <1>5, <1>6, IdleKeeps

(* The scheduled onWritten reports bytes that all fitted in the tail.      *)
LEMMA OnWrittenKeeps ==
    ASSUME BytesInv, OnWritten
    PROVE  BytesInv'
<1>1. /\ reporting /\ reporting' = FALSE /\ caller' = "free"
      /\ UNCHANGED <<imageSize, memory, written, tail, tailSize, pending, writeAddress, program>>
    BY DEF OnWritten
<1>2. program.then = "none"
    BY <1>1, BytesKnown DEF BytesInv, AlignedInv, TailInv, LastInv
<1>3. /\ program = Idle /\ writeAddress + tailSize = written
      /\ \A i \in 1 .. tailSize : tail[i] = writeAddress + i
    BY <1>1, <1>2 DEF BytesInv, IdleInv
<1>4. Done = writeAddress
    BY <1>3 DEF Done, Idle
<1>5. /\ memory' \in [0 .. Ceiling(imageSize) - 1 -> Seq(Byte)]
      /\ \A address \in 0 .. Ceiling(imageSize) - 1 :
           memory'[address] = IF address < writeAddress THEN <<Final(address)>> ELSE <<>>
    BY <1>1, <1>4 DEF BytesInv, ImageTypeOK, MemoryInv
<1>6. IdleInv'
    BY <1>1, <1>3 DEF IdleInv, Idle
<1>7. reporting' \in BOOLEAN
    BY <1>1
<1> QED BY <1>1, <1>3, <1>5, <1>6, <1>7, IdleKeeps

(* Install pads what is left in the tail, if anything is.                  *)
LEMMA BytesInstallKeeps ==
    ASSUME BytesInv, InstallBytes
    PROVE  BytesInv'
<1>1. /\ caller = "free" /\ written = imageSize
      /\ UNCHANGED <<imageSize, memory, written, pending, reporting>>
    BY DEF InstallBytes
<1>2. program.then = "none"
    BY <1>1, BytesKnown DEF BytesInv, AlignedInv, TailInv, LastInv
<1>3. /\ program = Idle /\ ~reporting /\ writeAddress + tailSize = imageSize
      /\ \A i \in 1 .. tailSize : tail[i] = writeAddress + i
    BY <1>1, <1>2 DEF BytesInv, IdleInv
<1>4. Done = writeAddress
    BY <1>3 DEF Done, Idle
<1>5. /\ memory' \in [0 .. Ceiling(imageSize) - 1 -> Seq(Byte)]
      /\ \A address \in 0 .. Ceiling(imageSize) - 1 :
           memory'[address] = IF address < writeAddress THEN <<Final(address)>> ELSE <<>>
    BY <1>1, <1>4 DEF BytesInv, ImageTypeOK, MemoryInv
<1>6. /\ imageSize \in Nat /\ writeAddress \in Nat /\ DoubleWord \in Nat \ {0}
      /\ tailSize \in 0 .. DoubleWord - 1
      /\ tail \in [1 .. DoubleWord -> Byte]
      /\ Ceiling(imageSize) \in Nat /\ imageSize <= Ceiling(imageSize)
      /\ Ceiling(imageSize) % DoubleWord = 0
  <2>1. imageSize \in Nat
      BY BytesKnown
  <2> QED BY <2>1, BytesKnown, CeilingIs
<1>7. reporting' \in BOOLEAN
    BY <1>1 DEF BytesInv, ImageTypeOK
<1>8. CASE tailSize = 0
  <2>1. caller' = "installed" /\ UNCHANGED <<tail, tailSize, writeAddress, program>>
      BY <1>8 DEF InstallBytes
  <2>2. IdleInv'
      BY <1>1, <1>3, <1>6, <1>8, <2>1 DEF IdleInv, Idle
  <2> QED BY <1>1, <1>3, <1>5, <1>7, <2>1, <2>2, IdleKeeps
<1>9. CASE tailSize # 0
  <2>1. /\ caller' = "install" /\ tailSize' = 0
        /\ tail' = [i \in 1 .. DoubleWord |-> IF i > tailSize THEN erasedByte ELSE tail[i]]
        /\ program' = [from |-> "tail", bytes |-> DoubleWord, to |-> writeAddress,
                       then |-> "requestInstall"]
        /\ writeAddress' = writeAddress + DoubleWord
      BY <1>9 DEF InstallBytes, WriteTail, WriteBuffer, Behind
  <2>2. writeAddress < imageSize /\ imageSize < writeAddress'
      BY <1>3, <1>6, <1>9, <2>1
  <2>3. ASSUME NEW i \in 1 .. DoubleWord
        PROVE  tail'[i] = Final(writeAddress + i - 1)
    <3>1. CASE i <= tailSize
      <4>1. i \in 1 .. tailSize /\ ~(i > tailSize) /\ writeAddress + i - 1 < imageSize
            /\ (writeAddress + i - 1) + 1 = writeAddress + i
          BY <1>3, <1>6, <3>1
      <4> QED BY <1>3, <2>1, <4>1 DEF Final
    <3>2. CASE i > tailSize
      <4>1. ~(writeAddress + i - 1 < imageSize)
          BY <1>3, <1>6, <3>2
      <4> QED BY <2>1, <3>2, <4>1 DEF Final
    <3> QED BY <1>6, <3>1, <3>2
  <2>4. /\ Ceiling(imageSize)' = Ceiling(imageSize)
        /\ (\A address : Final(address)' = Final(address))
      BY <1>1 DEF Ceiling, Final
  <2>5. LastInv'
      BY <1>1, <1>3, <2>1, <2>2, <2>3, <2>4 DEF LastInv
  <2>6. IdleInv' /\ AlignedInv' /\ TailInv'
      BY <2>1 DEF IdleInv, AlignedInv, TailInv
  <2>7. writeAddress % DoubleWord = 0 /\ writeAddress' % DoubleWord = 0
      BY <1>6, <2>1, WholeSum, WholeWord DEF BytesInv, MemoryInv
  <2>8. MemoryInv'
    <3>1. Done' = writeAddress
        BY <2>1 DEF Done
    <3> QED BY <1>5, <2>4, <2>7, <3>1 DEF MemoryInv
  <2>9. writeAddress' <= Ceiling(imageSize)
    <3>1. writeAddress' \in Nat /\ writeAddress' < Ceiling(imageSize) + DoubleWord
        BY <1>6, <2>1, <2>2
    <3> QED BY <1>6, <2>7, <3>1, Apart
  <2>10. program' \in [from : {"none", "tail", "pending"}, bytes : 0 .. Ceiling(imageSize),
                       to : 0 .. Ceiling(imageSize),
                       then : {"none", "writeAligned", "onWritten", "requestInstall"}]
    <3>1. /\ writeAddress \in 0 .. Ceiling(imageSize)
          /\ DoubleWord \in 0 .. Ceiling(imageSize)
        BY <1>6, <2>1, <2>9
    <3> QED BY <2>1, <3>1
  <2>11. tail' \in [1 .. DoubleWord -> Byte]
    <3>1. erasedByte \in Byte
        BY MaxImageSizeAssumption DEF erasedByte, Byte
    <3> QED BY <1>6, <2>1, <3>1
  <2>12. /\ imageSize \in 1 .. MaxImageSize /\ written \in 0 .. imageSize
         /\ pending \in Seq(Byte)
         /\ writeAddress' \in 0 .. Ceiling(imageSize) /\ tailSize' \in 0 .. DoubleWord - 1
    <3>1. writeAddress' \in 0 .. Ceiling(imageSize) /\ tailSize' \in 0 .. DoubleWord - 1
        BY <1>6, <2>1, <2>9
    <3> QED BY <3>1 DEF BytesInv, ImageTypeOK
  <2>13. ImageTypeOK'
      BY <1>1, <1>5, <1>7, <2>1, <2>4, <2>10, <2>11, <2>12 DEF ImageTypeOK
  <2> QED BY <2>5, <2>6, <2>8, <2>13 DEF BytesInv
<1> QED BY <1>8, <1>9

(* Nothing happens.                                                        *)
LEMMA BytesUnchangedKeeps ==
    ASSUME BytesInv, UNCHANGED imageVars
    PROVE  BytesInv'
<1>1. UNCHANGED <<imageSize, memory, written, tail, tailSize, pending, writeAddress, program,
                  reporting, caller>>
    BY DEF imageVars
<1>2. /\ Ceiling(imageSize)' = Ceiling(imageSize)
      /\ (\A address : Final(address)' = Final(address)) /\ Done' = Done
    BY <1>1 DEF Ceiling, Final, Done
<1>3. ImageTypeOK'
    BY <1>1, <1>2 DEF BytesInv, ImageTypeOK
<1>4. IdleInv' /\ AlignedInv' /\ TailInv' /\ LastInv' /\ MemoryInv'
    BY <1>1, <1>2 DEF BytesInv, IdleInv, AlignedInv, TailInv, LastInv, MemoryInv
<1> QED BY <1>3, <1>4 DEF BytesInv

(* The invariant holds in every state. *)
THEOREM BytesInvariant == ImageSpec => []BytesInv
<1>1. ImageInit => BytesInv
    BY BytesInvInit
<1>2. BytesInv /\ [ImageNext]_imageVars => BytesInv'
    BY BytesWriteKeeps, TailProgrammedKeeps, AlignedProgrammedKeeps, OnWrittenKeeps,
       BytesInstallKeeps, LastProgrammedKeeps,
       BytesUnchangedKeeps DEF ImageNext
<1> QED BY <1>1, <1>2, PTL DEF ImageSpec

(* Every variable keeps its type. *)
THEOREM BytesTypeCorrect == ImageSpec => []ImageTypeOK
<1>1. BytesInv => ImageTypeOK
    BY DEF BytesInv
<1> QED BY <1>1, BytesInvariant, PTL

(* However the image is cut into chunks, every double word is programmed   *)
(* once, with its bytes, and all are when FUS is asked to install.         *)
THEOREM ImageProgrammed == ImageSpec => []ProgrammedOnceInPlace
<1>1. BytesInv => ProgrammedOnceInPlace
  <2> SUFFICES ASSUME BytesInv
               PROVE  ProgrammedOnceInPlace
      OBVIOUS
  <2>1. program.from # "none" => program.bytes > 0 /\ program.to % DoubleWord = 0
    <3> SUFFICES ASSUME program.from # "none"
                 PROVE  program.bytes > 0 /\ program.to % DoubleWord = 0
        OBVIOUS
    <3>1. program.to % DoubleWord = 0
        BY DEF BytesInv, MemoryInv, Done
    <3>2. program.bytes > 0
        BY BytesKnown DEF BytesInv, AlignedInv, TailInv, LastInv
    <3> QED BY <3>1, <3>2
  <2>2. memory \in [0 .. Ceiling(imageSize) - 1 -> Seq(Byte)]
      BY DEF BytesInv, ImageTypeOK
  <2>3. ASSUME NEW address \in 0 .. Ceiling(imageSize) - 1
        PROVE  \/ memory[address] = <<>> /\ caller # "installed"
               \/ memory[address] = <<IF address < imageSize THEN ImageBytes[address + 1] ELSE erasedByte>>
    <3>1. /\ imageSize \in Nat /\ Ceiling(imageSize) \in Nat
          /\ Ceiling(imageSize) < imageSize + DoubleWord
          /\ Ceiling(imageSize) % DoubleWord = 0 /\ writeAddress \in Nat
          /\ DoubleWord \in Nat \ {0}
      <4>1. imageSize \in Nat
          BY BytesKnown
      <4> QED BY <4>1, BytesKnown, CeilingIs
    <3>2. Final(address) = IF address < imageSize THEN ImageBytes[address + 1]
              ELSE erasedByte
      <4>1. address < imageSize => address + 1 \in 1 .. imageSize
          BY <3>1
      <4> QED BY <4>1 DEF Final, ImageBytes
    <3>3. CASE address < Done
        BY <3>2, <3>3 DEF BytesInv, MemoryInv
    <3>4. CASE ~(address < Done)
      <4>1. memory[address] = <<>>
          BY <3>4 DEF BytesInv, MemoryInv
      <4>2. SUFFICES ASSUME caller = "installed"
                     PROVE  FALSE
          BY <4>1
      <4>3. program.then = "none"
          BY <4>2, BytesKnown DEF BytesInv, AlignedInv, TailInv, LastInv
      <4>4. Done = writeAddress /\ writeAddress >= imageSize
          BY <4>2, <4>3 DEF BytesInv, IdleInv, Done, Idle
      <4>5. writeAddress % DoubleWord = 0 /\ Ceiling(imageSize) < writeAddress + DoubleWord
          BY <3>1, <4>4 DEF BytesInv, MemoryInv
      <4>6. Ceiling(imageSize) <= writeAddress
          BY <3>1, <4>5, Apart
      <4> QED BY <3>1, <3>4, <4>4, <4>6
    <3> QED BY <3>3, <3>4
  <2> QED BY <2>1, <2>2, <2>3 DEF ProgrammedOnceInPlace
<1> QED BY <1>1, BytesInvariant, PTL
=============================================================================

--------------------------- MODULE WirelessUpgrade ---------------------------
(***************************************************************************)
(* hal::WirelessCoprocessorUpgradeWb: CPU1 has the firmware upgrade        *)
(* services (FUS) on CPU2 delete the wireless stack or install an image,   *)
(* across the resets this causes.  A journal in one sector of flash says   *)
(* how far the procedure is; whatever firmware CPU2 reports after a reset, *)
(* Resume continues from the last record.                                  *)
(*                                                                         *)
(* A flash operation is asynchronous: `op` is the one under way and what   *)
(* its completion does.  A reset or a loss of power at any moment cuts it  *)
(* short and may leave a record that is neither erased nor valid.          *)
(***************************************************************************)
EXTENDS Integers, Sequences

CONSTANTS
    FusErrorCodes,        \* codes FUS gives with its error state
    IdlePollsBeforeDone,  \* Config::idlePollsBeforeDone
    JournalCapacity,      \* records that fit in the journal sector
    FusBeginsInTime,      \* FUS begins a command within IdlePollsBeforeDone polls
    MaxInterruptions      \* bound of the model: resets nobody asked for

noError == 0
unknownError == 255
installUnconfirmed == 256
ImageAddress == 512       \* FLASH_BASE + imageAddress, in a record's value
NoRecord == [step |-> "none", image |-> "none", value |-> noError]

ASSUME FusErrorCodesAssumption == FusErrorCodes \subseteq 0 .. 255
ASSUME IdlePollsAssumption == IdlePollsBeforeDone \in Nat \ {0}
ASSUME JournalCapacityAssumption == JournalCapacity \in Nat \ {0}
ASSUME FusBeginsInTimeAssumption == FusBeginsInTime \in BOOLEAN
ASSUME MaxInterruptionsAssumption == MaxInterruptions \in Nat

Firmware == {"wirelessStack", "firmwareUpgradeServices"}
Image == Firmware
Step == {"deleteRequested", "deleteIssued", "installRequested", "upgradeIssued",
         "wirelessStackStartIssued", "wirelessStackStartRetried"}
Value == 0 .. ImageAddress
Record == [step : Step, image : Image, value : Value]
Result == {"idle", "readyForImage", "installed", "installFailed",
           "installUnconfirmed", "deleteFailed"}

VARIABLES
    (* Flash. *)
    journal,         \* the valid records at the start of the journal sector
    torn,            \* a record after them is neither erased nor valid
    area,            \* what lies complete below the secure flash
    (* CPU2. *)
    cpu2,            \* the firmware it runs or boots
    stack,           \* the wireless stack it holds
    fus,             \* the FUS it holds
    fusJob,          \* the command FUS has accepted and not finished
    fusState,
    fusError,        \* the code that goes with state "error"
    fusFresh,        \* FUS never ran on this device
    resetTo,         \* the firmware a reset CPU2 is about to do starts
    (* CPU1, lost in a reset. *)
    resumed,         \* CPU2 reported its firmware since the reset
    runningFirmware,
    image,
    lastRecord,
    lastStepRepeated,
    nextRecord,      \* index of the record at nextRecordAddress
    op,              \* the flash operation under way
    polling,         \* onFirmwareUpgradeServicesDone while pollTimer runs
    busySeen,
    idlePolls,
    prepared,        \* how far the application is in giving the image
    (* What the application asked for and was told, and what was done.  The *)
    (* model keeps this; the code does not.                                 *)
    procedure,       \* "none", "delete" or "install"
    target,          \* the image of the procedure
    outcome,         \* the last outcome reported since it was requested
    commands,        \* FUS commands of the procedure, by kind
    codeless,        \* since it was requested FUS showed an error without a code
    interruptions

flash == <<journal, torn, area>>
services == <<fusJob, fusState, fusError>>
held == <<stack, fus, fusFresh>>
read == <<image, lastRecord, lastStepRepeated, nextRecord>>
poll == <<polling, busySeen, idlePolls>>
asked == <<procedure, target, commands, codeless>>
vars == <<flash, cpu2, services, held, resetTo, resumed, runningFirmware, read,
          op, poll, prepared, asked, outcome, interruptions>>

NoOp == [kind |-> "none", then |-> "none", value |-> noError, record |-> NoRecord]
Continuations ==
    {"none", "journalRead", "erasePages", "prepared", "written", "installTail",
     "appendDeleteRequested", "deleteRequested", "deleteIssued",
     "installRequested", "upgradeIssued", "startIssued", "resetDevice", "idle",
     "deleteFailed", "installUnconfirmed", "started", "notStarted"}

TypeOK ==
    /\ journal \in Seq(Record)
    /\ torn \in BOOLEAN
    /\ area \in Image \cup {"other"}
    /\ cpu2 \in Firmware
    /\ stack \in {"old", "new", "none"}
    /\ fus \in {"old", "new"}
    /\ fusJob \in {"none", "delete", "upgrade"}
    /\ fusState \in {"idle", "busy", "error"}
    /\ fusError \in 0 .. 255
    /\ fusFresh \in BOOLEAN
    /\ resetTo \in Firmware \cup {"none"}
    /\ resumed \in BOOLEAN
    /\ runningFirmware \in Firmware
    /\ image \in Image
    /\ lastRecord \in Record \cup {NoRecord}
    /\ lastStepRepeated \in BOOLEAN
    /\ nextRecord \in Nat \ {0}
    /\ op \in [kind : {"none", "read", "append", "eraseJournal", "erasePages", "writeImage"},
               then : Continuations, value : Value, record : Record \cup {NoRecord}]
    /\ polling \in {"none", "DeleteDone", "UpgradeDone"}
    /\ busySeen \in BOOLEAN
    /\ idlePolls \in Nat
    /\ prepared \in {"no", "prepared", "written", "tail"}
    /\ procedure \in {"none", "delete", "install"}
    /\ target \in Image
    /\ outcome \in Result \cup {"none"}
    /\ commands \in [{"delete", "upgrade", "start", "reset"} -> Nat]
    /\ codeless \in BOOLEAN
    /\ interruptions \in Nat

(* Mutant: records are counted from zero. *)
ZeroBased == 0
FirstRecord == 1

NoCommands == [c \in {"delete", "upgrade", "start", "reset"} |-> 0]

Init ==
    /\ journal = <<>> /\ torn = FALSE /\ area = "other"
    /\ cpu2 = "wirelessStack" /\ stack = "old" /\ fus = "old"
    /\ fusJob = "none" /\ fusState = "idle" /\ fusError = noError /\ fusFresh \in BOOLEAN
    /\ resetTo = "none" /\ resumed = FALSE
    /\ runningFirmware = "wirelessStack" /\ image = "wirelessStack"
    /\ lastRecord = NoRecord /\ lastStepRepeated = FALSE /\ nextRecord = FirstRecord
    /\ op = NoOp /\ polling = "none" /\ busySeen = FALSE /\ idlePolls = 0
    /\ prepared = "no" /\ procedure = "none" /\ target = "wirelessStack"
    /\ outcome = "none" /\ commands = NoCommands
    /\ codeless = FALSE /\ interruptions = 0

-----------------------------------------------------------------------------
(* The flash operations the procedure starts.  Each is the whole effect of *)
(* the call on the variables of `read` and `op`.                           *)

EraseJournal(then, value) ==
    /\ lastRecord' = NoRecord
    /\ lastStepRepeated' = FALSE
    /\ nextRecord' = FirstRecord
    /\ op' = [kind |-> "eraseJournal", then |-> then, value |-> value, record |-> NoRecord]

AppendRecord(step, value, then) ==
    LET record == [step |-> step, image |-> image, value |-> value]
    IN  /\ lastRecord' = record
        /\ nextRecord' = nextRecord + 1
        /\ op' = [kind |-> "append", then |-> then, value |-> value, record |-> record]
        /\ UNCHANGED lastStepRepeated

ImageOp(kind, then) ==
    op' = [kind |-> kind, then |-> then, value |-> noError, record |-> NoRecord]

(* Report: the application is told, and the procedure is over unless FUS   *)
(* is ready for the image the application deleted the stack for.           *)
Report(result) ==
    /\ outcome' = result
    /\ procedure' = "none"

Told(result) ==
    /\ Report(result)
    /\ op' = NoOp

-----------------------------------------------------------------------------
(* FUS commands.  An accepted one may or may not be seen to start.         *)

(* Mutant: the request is not given. *)
RequestNothing == resetTo' = "none"
RequestFirmwareUpgradeServices == resetTo' = "firmwareUpgradeServices"

Count(command) == commands' = [commands EXCEPT ![command] = @ + 1]

GetStatus ==
    IF fusFresh THEN [state |-> "error", errorCode |-> 254]
    ELSE [state |-> fusState, errorCode |-> IF fusState = "error" THEN fusError ELSE noError]

Accept(job) ==
    /\ fusJob' = job
    /\ fusState' = "idle"
    /\ fusError' = noError

-----------------------------------------------------------------------------
(* The steps of the procedure that a completed flash operation continues   *)
(* with, or that Resume continues with.                                    *)

PollUntilDone(onDone) ==
    /\ busySeen' = FALSE
    /\ idlePolls' = 0
    /\ polling' = onDone

IssueDelete == AppendRecord("deleteIssued", 0, "deleteIssued")
IssueUpgrade(address) == AppendRecord("upgradeIssued", address, "upgradeIssued")
StartWirelessStack(step, installResult) == AppendRecord(step, installResult, "startIssued")

IssueRequested(last, repeated) ==
    IF GetStatus.state = "error" /\ ~repeated
    THEN AppendRecord(last.step, last.value, "resetDevice")
    ELSE IF last.step = "deleteRequested" THEN IssueDelete ELSE IssueUpgrade(last.value)

StartedResult(installResult) ==
    IF installResult = installUnconfirmed THEN "installUnconfirmed"
    ELSE IF installResult = noError THEN "installed"
    ELSE "installFailed"

NotStartedResult(installResult) ==
    IF installResult = installUnconfirmed THEN "installUnconfirmed"
    ELSE IF installResult = noError /\ image = "firmwareUpgradeServices" THEN "installed"
    ELSE "installFailed"

-----------------------------------------------------------------------------
(* A flash operation completes: its effect, and what its callback does.    *)

Completed(then) ==
    /\ op.kind # "none"
    /\ op.then = then
    /\ journal' = IF op.kind = "append" THEN Append(journal, op.record)
                  ELSE IF op.kind = "eraseJournal" THEN <<>> ELSE journal
    /\ torn' = (torn /\ op.kind # "eraseJournal")

KeepRead == UNCHANGED <<lastRecord, lastStepRepeated, nextRecord>>
KeepToldAndPolls == UNCHANGED <<outcome, procedure, poll>>

(* Mutant: an invalid record ends the journal like no record. *)
AllValid == FALSE
InvalidRecord == torn

(* Resume: the callback of SystemTransportLayerWb that tells which         *)
(* firmware CPU2 runs.  Eight records are read at a time; nothing but a    *)
(* reset can come between.                                                 *)
Resume ==
    /\ ~resumed
    /\ resumed' = TRUE
    /\ runningFirmware' = cpu2
    /\ polling' = "none"
    /\ IF InvalidRecord
       THEN EraseJournal("journalRead", noError) /\ UNCHANGED image
       ELSE /\ nextRecord' = Len(journal) + 1
            /\ lastRecord' = IF journal = <<>> THEN NoRecord ELSE journal[Len(journal)]
            /\ lastStepRepeated' =
                 (Len(journal) > 1 /\ journal[Len(journal)].step = journal[Len(journal) - 1].step)
            /\ image' = IF journal = <<>> THEN image ELSE journal[Len(journal)].image
            /\ op' = [NoOp EXCEPT !.kind = "read", !.then = "journalRead"]
    /\ UNCHANGED <<flash, cpu2, services, held, resetTo, busySeen, idlePolls,
                   prepared, asked, outcome, interruptions>>

(* A valid record has one of these steps: the branches for any other are   *)
(* never taken.                                                            *)
NothingToContinue ==
    /\ lastRecord = NoRecord
    /\ Told("idle")
    /\ KeepRead
    /\ UNCHANGED <<resetTo, poll>>

ContinueWithWirelessStack ==
    \/ /\ lastRecord.step \in {"deleteRequested", "installRequested"}
       /\ RequestFirmwareUpgradeServices
       /\ op' = NoOp
       /\ KeepRead
       /\ KeepToldAndPolls
    \/ /\ lastRecord.step = "deleteIssued"
       /\ EraseJournal("deleteFailed", unknownError)
       /\ KeepToldAndPolls
       /\ UNCHANGED resetTo
    \/ /\ lastRecord.step = "upgradeIssued"
       /\ EraseJournal("installUnconfirmed", noError)
       /\ KeepToldAndPolls
       /\ UNCHANGED resetTo
    \/ /\ lastRecord.step \in {"wirelessStackStartIssued", "wirelessStackStartRetried"}
       /\ EraseJournal("started", lastRecord.value)
       /\ KeepToldAndPolls
       /\ UNCHANGED resetTo

ContinueWithFirmwareUpgradeServices ==
    /\ UNCHANGED resetTo
    /\ \/ /\ lastRecord.step \in {"deleteRequested", "installRequested"}
          /\ IssueRequested(lastRecord, lastStepRepeated)
          /\ KeepToldAndPolls
       \/ /\ lastRecord.step \in {"deleteIssued", "upgradeIssued"}
          /\ PollUntilDone(IF lastRecord.step = "deleteIssued" THEN "DeleteDone" ELSE "UpgradeDone")
          /\ op' = NoOp
          /\ KeepRead
          /\ UNCHANGED <<outcome, procedure>>
       \/ /\ lastRecord.step = "wirelessStackStartIssued"
          /\ StartWirelessStack("wirelessStackStartRetried", lastRecord.value)
          /\ KeepToldAndPolls
       \/ /\ lastRecord.step = "wirelessStackStartRetried"
          /\ EraseJournal("notStarted", lastRecord.value)
          /\ KeepToldAndPolls

JournalRead ==
    /\ Completed("journalRead")
    /\ \/ NothingToContinue
       \/ runningFirmware = "wirelessStack" /\ ContinueWithWirelessStack
       \/ runningFirmware = "firmwareUpgradeServices" /\ ContinueWithFirmwareUpgradeServices
    /\ UNCHANGED <<area, cpu2, services, held, resumed, runningFirmware, image,
                   prepared, target, commands, codeless, interruptions>>

(* The callbacks that only report. *)
ReportWhenErased ==
    /\ \E then \in {"deleteFailed", "installUnconfirmed", "started", "notStarted"} :
         /\ Completed(then)
         /\ Told(IF then = "started" THEN StartedResult(op.value)
                 ELSE IF then = "notStarted" THEN NotStartedResult(op.value) ELSE then)
    /\ UNCHANGED <<area, cpu2, services, held, resetTo, resumed, runningFirmware,
                   read, poll, prepared, target, commands, codeless, interruptions>>

(* The callbacks of DeleteWirelessStack and Install. *)
DeleteJournalErased ==
    /\ Completed("appendDeleteRequested")
    /\ AppendRecord("deleteRequested", 0, "deleteRequested")
    /\ UNCHANGED <<area, cpu2, services, held, resetTo, resumed, runningFirmware,
                   image, poll, prepared, asked, outcome, interruptions>>

Requested ==
    /\ Completed("deleteRequested") \/ Completed("installRequested")
    /\ IF runningFirmware = "firmwareUpgradeServices"
       THEN /\ IF op.then = "deleteRequested" THEN IssueDelete ELSE IssueUpgrade(ImageAddress)
            /\ UNCHANGED resetTo
       ELSE /\ RequestFirmwareUpgradeServices
            /\ op' = NoOp
            /\ KeepRead
    /\ UNCHANGED <<area, cpu2, services, held, resumed, runningFirmware, image,
                   poll, prepared, asked, outcome, interruptions>>

DeleteIssued(accepted) ==
    /\ Completed("deleteIssued")
    /\ Count("delete")
    /\ IF accepted
       THEN /\ Accept("delete")
            /\ PollUntilDone("DeleteDone")
            /\ op' = NoOp
            /\ KeepRead
       ELSE /\ EraseJournal("deleteFailed", unknownError)
            /\ UNCHANGED <<services, poll>>
    /\ UNCHANGED <<area, cpu2, held, resetTo, resumed, runningFirmware, image,
                   prepared, procedure, target, codeless, outcome, interruptions>>

UpgradeIssued(accepted) ==
    /\ Completed("upgradeIssued")
    /\ Count("upgrade")
    /\ IF accepted
       THEN /\ Accept("upgrade")
            /\ PollUntilDone("UpgradeDone")
            /\ op' = NoOp
            /\ KeepRead
       ELSE /\ StartWirelessStack("wirelessStackStartIssued", unknownError)
            /\ UNCHANGED <<services, poll>>
    /\ UNCHANGED <<area, cpu2, held, resetTo, resumed, runningFirmware, image,
                   prepared, procedure, target, codeless, outcome, interruptions>>

StartIssued(accepted) ==
    /\ Completed("startIssued")
    /\ Count("start")
    /\ IF accepted
       THEN /\ resetTo' = "wirelessStack"
            /\ op' = NoOp
            /\ KeepRead
       ELSE /\ EraseJournal("notStarted", op.value)
            /\ UNCHANGED resetTo
    /\ UNCHANGED <<area, cpu2, services, held, resumed, runningFirmware, image,
                   poll, prepared, procedure, target, codeless, outcome, interruptions>>

-----------------------------------------------------------------------------
(* pollTimer. *)

DeleteDone(status) ==
    IF status.state = "idle"
    THEN Report("readyForImage") /\ KeepRead /\ UNCHANGED op
    ELSE EraseJournal("deleteFailed", status.errorCode) /\ UNCHANGED <<outcome, procedure>>

(* Mutant: an upgrade FUS was not seen to begin counts as done. *)
ErrorCode(status) == status.errorCode

UpgradeResult(status) ==
    IF status.state = "error" THEN status.errorCode
    ELSE IF busySeen THEN noError ELSE installUnconfirmed

UpgradeDone(status) ==
    /\ StartWirelessStack("wirelessStackStartIssued", UpgradeResult(status))
    /\ UNCHANGED <<outcome, procedure>>

Poll ==
    LET status == GetStatus
        waits == status.state = "idle" /\ ~busySeen /\ idlePolls + 1 < IdlePollsBeforeDone
    IN  /\ polling # "none"
        /\ FusBeginsInTime /\ fusJob # "none" /\ status.state = "idle" => waits
        /\ idlePolls' = IF status.state = "idle" /\ ~busySeen THEN idlePolls + 1 ELSE idlePolls
        /\ busySeen' = (busySeen \/ status.state = "busy")
        /\ IF waits \/ status.state = "busy"
           THEN KeepRead /\ UNCHANGED <<polling, op, outcome, procedure>>
           ELSE /\ polling' = "none"
                /\ IF polling = "DeleteDone" THEN DeleteDone(status) ELSE UpgradeDone(status)
        /\ UNCHANGED <<flash, cpu2, services, held, resetTo, resumed, runningFirmware,
                       image, prepared, target, commands, codeless, interruptions>>

-----------------------------------------------------------------------------
(* The application, between procedures.  A procedure makes "old" what the  *)
(* procedure before it installed.                                          *)

AtRest ==
    /\ resumed
    /\ op = NoOp
    /\ polling = "none"
    /\ resetTo = "none"
    /\ procedure = "none"

NewProcedure(kind, img) ==
    /\ procedure' = kind
    /\ target' = img
    /\ outcome' = "none"
    /\ commands' = NoCommands
    /\ codeless' = (fusState = "error" /\ fusError = noError)
    /\ stack' = IF stack = "new" THEN "old" ELSE stack
    /\ fus' = "old"

(* Prepare, when the image fits; when it does not, nothing changes. *)
Prepare(img) ==
    /\ AtRest
    /\ image' = img
    /\ prepared' = "no"
    /\ EraseJournal("erasePages", noError)
    /\ UNCHANGED <<flash, cpu2, services, held, resetTo, resumed, runningFirmware,
                   poll, asked, outcome, interruptions>>

PrepareJournalErased ==
    /\ Completed("erasePages")
    /\ ImageOp("erasePages", "prepared")
    /\ UNCHANGED <<area, cpu2, services, held, resetTo, resumed, runningFirmware,
                   read, poll, prepared, asked, outcome, interruptions>>

PagesErased ==
    /\ Completed("prepared")
    /\ area' = "other"
    /\ prepared' = "prepared"
    /\ op' = NoOp
    /\ UNCHANGED <<cpu2, services, held, resetTo, resumed, runningFirmware, read,
                   poll, asked, outcome, interruptions>>

(* Every call of Write up to the last byte; see WirelessImage. *)
Write ==
    /\ AtRest
    /\ prepared = "prepared"
    /\ ImageOp("writeImage", "written")
    /\ UNCHANGED <<flash, cpu2, services, held, resetTo, resumed, runningFirmware,
                   read, poll, prepared, asked, outcome, interruptions>>

Written ==
    /\ Completed("written")
    /\ prepared' \in {"written", "tail"}
    /\ area' = IF prepared' = "written" THEN image ELSE area
    /\ op' = NoOp
    /\ UNCHANGED <<cpu2, services, held, resetTo, resumed, runningFirmware, read,
                   poll, asked, outcome, interruptions>>

RequestInstall == AppendRecord("installRequested", ImageAddress, "installRequested")

Install ==
    /\ AtRest
    /\ prepared \in {"written", "tail"}
    /\ NewProcedure("install", image)
    /\ prepared' = "written"
    /\ IF prepared = "written"
       THEN RequestInstall
       ELSE ImageOp("writeImage", "installTail") /\ KeepRead
    /\ UNCHANGED <<flash, cpu2, services, fusFresh, resetTo, resumed,
                   runningFirmware, image, poll, interruptions>>

TailWritten ==
    /\ Completed("installTail")
    /\ area' = image
    /\ RequestInstall
    /\ UNCHANGED <<cpu2, services, held, resetTo, resumed, runningFirmware, image,
                   poll, prepared, asked, outcome, interruptions>>

(* The secure flash moves: the application prepares the image again. *)
DeleteWirelessStack ==
    /\ AtRest
    /\ NewProcedure("delete", "wirelessStack")
    /\ image' = "wirelessStack"
    /\ prepared' = "no"
    /\ EraseJournal("appendDeleteRequested", noError)
    /\ UNCHANGED <<flash, cpu2, services, fusFresh, resetTo, resumed,
                   runningFirmware, poll, interruptions>>

-----------------------------------------------------------------------------
(* Resets.  The flash operation under way is cut short: it happened, it    *)
(* did not, or it left a record that reads as neither.                     *)

CutShort ==
    /\ \/ UNCHANGED <<journal, torn>>
       \/ op.kind = "append" /\ journal' = Append(journal, op.record) /\ UNCHANGED torn
       \/ op.kind = "eraseJournal" /\ journal' = <<>> /\ torn' = FALSE
       \/ op.kind \in {"append", "eraseJournal"} /\ torn' = TRUE /\ UNCHANGED journal
    /\ \/ UNCHANGED area
       \/ op.kind = "erasePages" /\ area' = "other"
       \/ op.kind = "writeImage" /\ area' = image

Reboot(firmware) ==
    /\ cpu2' = IF firmware = "wirelessStack" /\ stack' = "none"
               THEN "firmwareUpgradeServices" ELSE firmware
    /\ resumed' = FALSE
    /\ runningFirmware' = "wirelessStack"
    /\ image' = "wirelessStack"
    /\ lastRecord' = NoRecord
    /\ lastStepRepeated' = FALSE
    /\ nextRecord' = 1
    /\ op' = NoOp
    /\ polling' = "none"
    /\ busySeen' = FALSE
    /\ idlePolls' = 0
    /\ prepared' = "no"
    /\ resetTo' = "none"
    /\ fusFresh' = (fusFresh /\ cpu2 # "firmwareUpgradeServices")

(* FUS forgets an error in a reset, or does not; a job it loses, it loses. *)
FusAfterReset(job) ==
    /\ fusJob' = job
    /\ fusState' \in IF job = "none" THEN {fusState, "idle"} \ {"busy"} ELSE {"busy", "idle"}
    /\ fusError' = IF fusState' = "error" THEN fusError ELSE noError

(* CPU2 resets the device because CPU1 asked for the other firmware. *)
RequestedReset ==
    /\ resetTo # "none"
    /\ UNCHANGED <<stack, fus>>
    /\ Reboot(resetTo)
    /\ CutShort
    /\ FusAfterReset("none")
    /\ UNCHANGED <<asked, outcome, interruptions>>

(* IssueRequested resets the device when its record is written. *)
ResetDevice ==
    /\ Completed("resetDevice")
    /\ Reboot(cpu2)
    /\ FusAfterReset("none")
    /\ Count("reset")
    /\ UNCHANGED <<area, stack, fus, procedure, target, codeless, outcome, interruptions>>

(* Power is lost, or FUS resets the device while it works.  FUS goes on    *)
(* with its job afterwards, or has lost it.                                *)
Interruption ==
    /\ interruptions < MaxInterruptions
    /\ interruptions' = interruptions + 1
    /\ UNCHANGED <<stack, fus>>
    /\ Reboot(cpu2)
    /\ CutShort
    /\ \E job \in {fusJob, "none"} : FusAfterReset(job)
    /\ UNCHANGED <<asked, outcome>>

-----------------------------------------------------------------------------
(* FUS at work. *)

FusBegins ==
    /\ cpu2 = "firmwareUpgradeServices"
    /\ fusJob # "none"
    /\ fusState = "idle"
    /\ fusState' = "busy"
    /\ UNCHANGED <<flash, cpu2, fusJob, fusError, held, resetTo, resumed,
                   runningFirmware, read, op, poll, prepared, asked, outcome,
                   interruptions>>

(* FUS deletes the stack, or installs the image it finds. *)
Succeeds ==
    IF fusJob = "delete"
    THEN stack' = "none" /\ UNCHANGED fus
    ELSE /\ area # "other"
         /\ stack' = IF area = "wirelessStack" THEN "new" ELSE stack
         /\ fus' = IF area = "wirelessStack" THEN fus ELSE "new"

FusWorking ==
    /\ cpu2 = "firmwareUpgradeServices"
    /\ fusState = "busy"
    /\ resetTo = "none"

FusSucceeds ==
    /\ FusWorking
    /\ Succeeds
    /\ fusJob' = "none"
    /\ fusState' = "idle"
    /\ UNCHANGED <<flash, cpu2, fusError, fusFresh, resetTo, resumed,
                   runningFirmware, read, op, poll, prepared, asked, outcome,
                   interruptions>>

FusFails ==
    /\ FusWorking
    /\ fusJob' = "none"
    /\ fusState' = "error"
    /\ fusError' \in FusErrorCodes
    /\ codeless' = (codeless \/ fusError' = noError)
    /\ UNCHANGED <<flash, cpu2, held, resetTo, resumed, runningFirmware, read, op,
                   poll, prepared, procedure, target, commands, outcome, interruptions>>

(* FUS may start the stack it installed before CPU1 has asked it to. *)
FusSucceedsAndResets ==
    /\ FusWorking
    /\ interruptions < MaxInterruptions
    /\ interruptions' = interruptions + 1
    /\ Succeeds
    /\ \E firmware \in Firmware : Reboot(firmware)
    /\ CutShort
    /\ fusJob' = "none"
    /\ fusState' = "idle"
    /\ fusError' = noError
    /\ UNCHANGED <<asked, outcome>>

-----------------------------------------------------------------------------
Cpu1 ==
    \/ Resume
    \/ JournalRead
    \/ ReportWhenErased
    \/ DeleteJournalErased
    \/ Requested
    \/ \E accepted \in BOOLEAN :
         DeleteIssued(accepted) \/ UpgradeIssued(accepted) \/ StartIssued(accepted)
    \/ Poll
    \/ PrepareJournalErased
    \/ PagesErased
    \/ Written
    \/ TailWritten
    \/ ResetDevice

Application ==
    \/ \E img \in Image : Prepare(img)
    \/ Write
    \/ Install
    \/ DeleteWirelessStack

FusProgress ==
    \/ FusBegins
    \/ FusSucceeds
    \/ FusFails

Next ==
    \/ Cpu1
    \/ Application
    \/ FusProgress
    \/ FusSucceedsAndResets
    \/ RequestedReset
    \/ Interruption

(* Callbacks run, the timer fires, FUS finishes what it began and CPU2     *)
(* does the reset it was asked for.                                        *)
Fairness ==
    /\ WF_vars(Cpu1)
    /\ WF_vars(FusProgress)
    /\ WF_vars(RequestedReset)

Spec == Init /\ [][Next]_vars
FairSpec == Spec /\ Fairness

-----------------------------------------------------------------------------
(* Properties. *)

(* "installed" is only ever reported of an image FUS did install; except   *)
(* that an error to which FUS gives no code is recorded like no error, and *)
(* then reported as installed.  The application is not told that a         *)
(* procedure is over, nor free to begin another, while FUS still works on  *)
(* a command of it.                                                        *)
OutcomeIsTrue ==
    /\ outcome = "installed" =>
           \/ IF target = "wirelessStack" THEN stack = "new" ELSE fus = "new"
           \/ codeless
    /\ AtRest => fusJob = "none"

(* FUS is only asked to install an image that lies complete where it will  *)
(* look: no reset makes CPU1 continue an install of a half erased one.     *)
UpgradeFindsImage ==
    /\ fusJob = "upgrade" => area = target
    /\ journal # <<>> /\ journal[Len(journal)].step \in {"installRequested", "upgradeIssued"} =>
           area = journal[Len(journal)].image

(* A command is given once, the device is reset once for a FUS that never  *)
(* ran, and the stack is started twice at most.                            *)
CommandsBounded ==
    /\ \A command \in {"delete", "upgrade", "reset"} : commands[command] <= 1
    /\ commands["start"] <= 2

(* A record goes to a double word that was not written since the journal   *)
(* was last erased, after the records that are there.                      *)
AppendsToErased ==
    op.kind = "append" => ~torn /\ nextRecord = Len(journal) + 2 /\ nextRecord <= JournalCapacity + 1

(* Wherever power is lost, the journal leads on from what was done.        *)
ResetsDoNoHarm == UpgradeFindsImage /\ CommandsBounded /\ AppendsToErased

(* Every procedure ends with an outcome, once resets nobody asked for end. *)
ProceduresEnd == procedure # "none" ~> procedure = "none"
=============================================================================

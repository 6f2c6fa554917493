------------------------------ MODULE Upgrade -------------------------------
(***************************************************************************)
(* The upgrade library (src/adk/src/libs/upgrade, with the sources of its  *)
(* directory CONFIG_HYDRACORE) and the DFU domain that grants it           *)
(* permission: an update file is received into the other image bank,       *)
(* checked, completed with the sections it does not change, tried, and     *)
(* committed.  A resume point in the persistent store says how far that    *)
(* has come, for power may be lost and the host may go away at any time.   *)
(*                                                                         *)
(* The device is one whose peer, if any, takes no part (a headset).        *)
(* External: the host, which follows the protocol but may abort or go away *)
(* whenever it likes; and the firmware, which erases, hashes and copies in *)
(* the background, one job at a time, and reports each with a message.  An *)
(* erase that is requested while another one waits is one with it, and a   *)
(* section is written when no job is in progress.                          *)
(*                                                                         *)
(* Left out: the low battery state, which nothing enters, validation of    *)
(* executable partitions, which this configuration skips, the lack of      *)
(* memory or of space in the persistent store, versions, and DFU of a      *)
(* peer.                                                                   *)
(***************************************************************************)
EXTENDS Queues

CONSTANTS Files,     \* the update files that a host may have
          Sections,  \* how many image sections each has
          MAX_QUEUE, \* bound: messages queued when a host connects
          SESSIONS   \* bound: how often a host starts or resumes an upgrade

ASSUME UpgradeAssumption ==
    /\ Files \subseteq Nat \ {0, 1} \* an id in progress of 0 is none
    /\ Sections \in Nat \ {0}
    /\ MAX_QUEUE \in Nat /\ SESSIONS \in Nat

VARIABLES
    smState,  \* UpgradeState
    ps,       \* UPGRADE_LIB_PSKEY, in the persistent store
    ram,      \* the context in memory
    flash,    \* the image banks
    jobs,     \* what the firmware does in the background, in order
    messages, \* the message queue
    blocked,  \* messages that are sent when no copy is in progress any more
    timers,   \* messages that are sent later
    host      \* what the host sends next, and whether it has sent it

vars == <<smState, ps, ram, flash, jobs, messages, blocked, timers, host>>

ResumePoints == {"START", "PRE_VALIDATE", "PRE_REBOOT", "POST_REBOOT", "ERASE", "ERROR"}

Factory == 0 \* a section of an image of earlier days
Erased == 1  \* a section that holds no data

In(e, seq) == \E i \in DOMAIN seq : seq[i] = e

Msg(id, arg) == [id |-> id, arg |-> arg]
Signal(id) == Msg(id, 0)

(* Arguments of the host's answers, and of the firmware's reports. *)
Yes == 0
No == 1
Failed == 0
Done == 1

(* Where the data parser is: the header, a section, the footer, or nowhere *)
(* as its context is not allocated.                                        *)
Header == 0
Footer == Sections + 1
NoData == Sections + 2

ClearedKeys == [key |-> "START", id |-> 0, upgrading |-> FALSE, closed |-> 0]

(* No host is connected; how many may yet come. *)
Away(n) == [next |-> "away", sent |-> FALSE, file |-> 0, at |-> "START", left |-> n]

RamInit == [is_validated |-> 0, copy_done |-> FALSE, hashing |-> FALSE,
            asynchronous_abort |-> FALSE, revert |-> FALSE, data |-> NoData]

Init ==
    /\ smState = "SYNC"
    /\ ps = ClearedKeys
    /\ ram = RamInit
    /\ \E old \in {[s \in 1..Sections |-> Erased], [s \in 1..Sections |-> Factory]} :
       flash = [boot |-> [s \in 1..Sections |-> Factory],
                other |-> old, copied |-> FALSE,
                running |-> "boot"]
    /\ jobs = <<>> /\ messages = <<>> /\ blocked = <<>> /\ timers = {}
    /\ host = Away(SESSIONS)

(* The messages of the state machine that only some states handle. *)
HandledIn == [
    START_REQ |-> {"READY"},
    START_DATA_REQ |-> {"DATA_READY"},
    DATA |-> {"DATA_TRANSFER"},
    IS_CSR_VALID_DONE_REQ |-> {"DATA_HASH_CHECKING", "VALIDATING", "VALIDATED"},
    TRANSFER_COMPLETE_RES |-> {"VALIDATED"},
    IN_PROGRESS_RES |-> {"COMMIT_HOST_CONTINUE"},
    COMMIT_CFM |-> {"COMMIT_CONFIRM"},
    ERRORWARN_RES |-> {"ABORTING"},
    CONTINUE |-> {"DATA_HASH_CHECKING", "VALIDATING", "VALIDATED", "COMMIT_VERIFICATION",
                  "COMMIT_CONFIRM", "COMMIT"},
    HASH_STATUS |-> {"DATA_HASH_CHECKING"},
    DELAY_REBOOT |-> {"VALIDATED"},
    REBOOT |-> {"VALIDATED"},
    RECONNECTION_TIMEOUT |-> {"SYNC", "COMMIT_HOST_CONTINUE"}]

(* After an erase of the bank it runs from, nothing is known of the device. *)
Running == flash.running # "erased"

Received(id) == Running /\ messages # <<>> /\ Head(messages).id = id
Handled(id, state) == Received(id) /\ smState = state
Arg == Head(messages).arg
Rest == Tail(messages)

(* The host hears something that answers one of these requests. *)
Tell(requests, next) ==
    host' = IF host.sent /\ host.next \in requests
            THEN [host EXCEPT !.next = next, !.sent = FALSE]
            ELSE host

(* UPGRADE_HOST_ABORT_CFM ends the session; to try again is another one. *)
TellAborted ==
    host' = IF host.sent /\ host.next = "ABORT_REQ" THEN Away(host.left) ELSE host

(* SendErrorInd; a host that aborts anyway does not care. *)
TellError ==
    host' = IF host.next \in {"away", "ABORT_REQ"}
            THEN host
            ELSE [host EXCEPT !.next = "ERRORWARN_RES", !.sent = FALSE]

SetState(state, msgs) == smState' = state /\ messages' = msgs

MoveToState(state, msgs) == SetState(state, Append(msgs, Signal("CONTINUE")))

FatalError(msgs) ==
    /\ TellError
    /\ SetState("ABORTING", msgs)
    /\ ps' = [ps EXCEPT !.key = "ERROR"]

(* Any reset: memory is lost, and UpgradeInit starts from the keys. *)
Reset(keys, banks) ==
    /\ ps' = keys
    /\ flash' = banks
    /\ smState' = CASE keys.key = "POST_REBOOT" -> "COMMIT_HOST_CONTINUE"
                    [] keys.key = "ERROR" -> "ABORTING"
                    [] OTHER -> "SYNC"
    /\ timers' = IF keys.key = "POST_REBOOT" THEN {"RECONNECTION_TIMEOUT"} ELSE {}
    /\ ram' = RamInit
    /\ jobs' = <<>> /\ messages' = <<>> /\ blocked' = <<>>

Boot(keys, banks) == Reset(keys, banks) /\ host' = Away(host.left)

FromBootBank == [flash EXCEPT !.running = "boot"]

(* UpgradePartitionsEraseAllManaged: once the new image is committed, the  *)
(* old one is left where it is.                                            *)
EraseAllManaged(key) ==
    IF key = "ERASE"
    THEN UNCHANGED <<jobs, flash>>
    ELSE /\ jobs' = IF In("erase", jobs)
                    THEN jobs ELSE Append(jobs, "erase")
         /\ flash' = [flash EXCEPT !.running = IF @ = "other" THEN "erased" ELSE @]

----------------------------------------------------------------------------
(* Synchronisation with the host, and the transfer of the file. *)

(* Variant for the mutation of HandleSyncReq: any file may be resumed. *)
SyncsAnyFile ==
    /\ Received("SYNC_REQ")
    /\ IF smState = "ABORTING"
       THEN TellError /\ SetState(smState, Rest) /\ UNCHANGED ps
       ELSE /\ host' = IF host.sent /\ host.next = "SYNC_REQ"
                       THEN [host EXCEPT !.next = "START_REQ", !.sent = FALSE, !.at = ps.key]
                       ELSE host
            /\ ps' = [ps EXCEPT !.id = Arg]
            /\ SetState("READY", Rest)
    /\ UNCHANGED <<ram, flash, jobs, blocked, timers>>

(* upgradeSmDefaultHandlerHandleUpgradeHostSyncReq *)
HandleSyncReq ==
    /\ Received("SYNC_REQ")
    /\ IF smState = "ABORTING" \/ ps.id \notin {0, Arg}
       THEN TellError /\ SetState(smState, Rest) /\ UNCHANGED ps
       ELSE /\ host' = IF host.sent /\ host.next = "SYNC_REQ"
                       THEN [host EXCEPT !.next = "START_REQ", !.sent = FALSE, !.at = ps.key]
                       ELSE host
            /\ ps' = [ps EXCEPT !.id = Arg]
            /\ SetState("READY", Rest)
    /\ UNCHANGED <<ram, flash, jobs, blocked, timers>>

ResumesIn == [
    START |-> "DATA_READY", PRE_VALIDATE |-> "VALIDATING", PRE_REBOOT |-> "VALIDATED",
    POST_REBOOT |-> "COMMIT_HOST_CONTINUE", ERASE |-> "COMMIT", ERROR |-> "ABORTING"]

(* What the host does next depends on the resume point it was told. *)
HostResumes == [
    START |-> "START_DATA_REQ", PRE_VALIDATE |-> "IS_CSR_VALID_DONE_REQ",
    PRE_REBOOT |-> "TRANSFER_COMPLETE_RES", POST_REBOOT |-> "IN_PROGRESS_RES",
    ERASE |-> "COMPLETE", ERROR |-> "ABORT_REQ"]

(* HandleReady *)
HandleReady ==
    /\ Handled("START_REQ", "READY")
    /\ IF ps.key \in {"PRE_VALIDATE", "ERASE"}
       THEN MoveToState(ResumesIn[ps.key], Rest)
       ELSE SetState(ResumesIn[ps.key], Rest)
    /\ host' = IF host.sent /\ host.next = "START_REQ"
               THEN [host EXCEPT !.next = HostResumes[host.at], !.sent = FALSE, !.at = "START"]
               ELSE host
    /\ UNCHANGED <<ps, ram, flash, jobs, blocked, timers>>

(* UpgradePartitionDataInit: what an interrupted transfer has brought is kept. *)
PartialUpdate == ps.key = "START" /\ ps.upgrading /\ ps.closed > 0

(* HandleDataReady *)
HandleDataReady ==
    /\ Handled("START_DATA_REQ", "DATA_READY")
    /\ ram' = [ram EXCEPT !.data = Header]
    /\ \/ /\ PartialUpdate
          /\ Tell({"START_DATA_REQ"}, "DATA")
          /\ SetState("DATA_TRANSFER", Rest)
          /\ UNCHANGED <<jobs, flash>>
       \/ /\ ~PartialUpdate
          /\ EraseAllManaged(ps.key)
          /\ SetState("DATA_READY", Rest)
          /\ UNCHANGED host
    /\ UNCHANGED <<ps, blocked, timers>>

(* A section that was closed in an earlier session is skipped.             *)
(* last_closed_partition is the number of the last one and one.            *)
AlreadyHandled(section) == ps.closed >= section

(* UpgradePartitionDataParse for the header and the sections. *)
HandleData ==
    /\ Handled("DATA", "DATA_TRANSFER")
    /\ ram.data < Footer
    /\ IF ram.data = Header
       THEN ps' = [ps EXCEPT !.upgrading = TRUE] /\ UNCHANGED flash
       ELSE IF AlreadyHandled(ram.data)
            THEN UNCHANGED <<ps, flash>>
            ELSE /\ jobs = <<>>
                 /\ flash' = [flash EXCEPT !.other[ram.data] = Arg]
                 /\ ps' = [ps EXCEPT !.closed = ram.data]
    /\ ram' = [ram EXCEPT !.data = @ + 1]
    /\ Tell({"DATA"}, "DATA")
    /\ SetState(smState, Rest)
    /\ UNCHANGED <<jobs, blocked, timers>>

(* The footer: the transfer is complete. *)
HandleLastData ==
    /\ Handled("DATA", "DATA_TRANSFER")
    /\ ram.data = Footer
    /\ ram' = [ram EXCEPT !.copy_done = FALSE]
    /\ MoveToState("DATA_HASH_CHECKING", Rest)
    /\ Tell({"DATA"}, "IS_CSR_VALID_DONE_REQ")
    /\ UNCHANGED <<ps, flash, jobs, blocked, timers>>

(* Data that is not what it should be, or a section that cannot be written. *)
HandleBadData ==
    /\ Handled("DATA", "DATA_TRANSFER")
    /\ FatalError(Rest)
    /\ UNCHANGED <<ram, flash, jobs, blocked, timers>>

----------------------------------------------------------------------------
(* Checking what was received, and completing the image. *)

(* UPGRADE_INTERNAL_CONTINUE in HandleDataHashChecking *)
StartHash ==
    /\ Handled("CONTINUE", "DATA_HASH_CHECKING")
    /\ jobs' = IF ram.hashing THEN jobs ELSE Append(jobs, "hash")
    /\ ram' = [ram EXCEPT !.hashing = TRUE]
    /\ SetState(smState, Rest)
    /\ UNCHANGED <<ps, flash, blocked, timers, host>>

(* UpgradeSMHashAllSectionsUpdateStatus *)
HandleHashStatus ==
    /\ Handled("HASH_STATUS", "DATA_HASH_CHECKING")
    /\ ram' = [ram EXCEPT !.hashing = FALSE]
    /\ \/ /\ Arg = Done
          /\ ps' = [ps EXCEPT !.key = "PRE_VALIDATE"]
          /\ MoveToState("VALIDATING", Rest)
          /\ UNCHANGED host
       \/ Arg = Failed /\ FatalError(Rest)
    /\ UNCHANGED <<flash, jobs, blocked, timers>>

(* UPGRADE_INTERNAL_CONTINUE in HandleValidating; UpgradeSMActionOnValidated *)
HandleValidating ==
    /\ Handled("CONTINUE", "VALIDATING")
    /\ ps' = [ps EXCEPT !.key = "PRE_REBOOT"]
    /\ jobs' = Append(jobs, "copy")
    /\ MoveToState("VALIDATED", Rest)
    /\ UNCHANGED <<ram, flash, blocked, timers, host>>

(* UPGRADE_HOST_IS_CSR_VALID_DONE_REQ before the image is validated: the   *)
(* host is to ask again later, or is told when there is news.              *)
HandleIsCsrValidDone ==
    /\ Received("IS_CSR_VALID_DONE_REQ")
    /\ \/ smState = "DATA_HASH_CHECKING" /\ UNCHANGED host
       \/ smState = "VALIDATING" /\ Tell({"IS_CSR_VALID_DONE_REQ"}, "IS_CSR_VALID_DONE_REQ")
    /\ SetState(smState, Rest)
    /\ UNCHANGED <<ps, ram, flash, jobs, blocked, timers>>

(* UpgradeSMHandleValidated tells the host that the image is ready; the    *)
(* message comes back once a copy succeeds, and a second one like it would *)
(* only say the same again.  (Neither message comes in this state after a  *)
(* reset, when no copy is in progress.)                                    *)
TransferComplete ==
    /\ Handled("CONTINUE", "VALIDATED") \/ Handled("IS_CSR_VALID_DONE_REQ", "VALIDATED")
    /\ \/ /\ ram.copy_done
          /\ Tell({"IS_CSR_VALID_DONE_REQ"}, "TRANSFER_COMPLETE_RES")
          /\ SetState(smState, Rest)
          /\ UNCHANGED blocked
       \/ /\ ~ram.copy_done
          /\ blocked' = IF In(Head(messages), blocked) THEN blocked ELSE Append(blocked, Head(messages))
          /\ SetState(smState, Rest)
          /\ UNCHANGED host
    /\ UNCHANGED <<ps, ram, flash, jobs, timers>>

(* IsValidatedToTrySwap(FALSE): both the copy and the host's confirmation  *)
(* count.                                                                  *)
TrySwap(counters, msgs) ==
    IF counters.is_validated = 0
    THEN ram' = [counters EXCEPT !.is_validated = 1] /\ messages' = msgs
    ELSE ram' = counters /\ messages' = Append(msgs, Signal("SHUT_AUDIO"))

(* UpgradeSMBlockingOpIsDone *)
BlockingOpIsDone(msgs) == CancelAll(msgs, {Signal("BLOCKING_IND")})

(* UpgradeSMCopyStatus; a copy that is over lets the blocked messages go. *)
HandleCopyStatus ==
    /\ Received("COPY_STATUS")
    /\ LET queue == BlockingOpIsDone(Rest)
       IN \/ /\ Arg = Done
             /\ TrySwap([ram EXCEPT !.copy_done = TRUE],
                        blocked \o queue)
             /\ blocked' = <<>>
             /\ UNCHANGED <<smState, ps, host>>
          \/ /\ Arg = Failed
             /\ ram' = [ram EXCEPT !.copy_done = TRUE]
             /\ TellError
             /\ ps' = [ps EXCEPT !.key = "ERROR"]
             /\ MoveToState("SYNC", queue)
             /\ UNCHANGED blocked
    /\ UNCHANGED <<flash, jobs, timers>>

----------------------------------------------------------------------------
(* The host confirms, and the new image is tried. *)

(* UPGRADE_HOST_TRANSFER_COMPLETE_RES *)
HandleTransferCompleteRes ==
    /\ Handled("TRANSFER_COMPLETE_RES", "VALIDATED")
    /\ \/ /\ Arg = Yes
          /\ ps' = [ps EXCEPT !.key = "POST_REBOOT"]
          /\ timers' = timers \cup {"DELAY_REBOOT"}
          /\ SetState(smState, Rest)
          /\ UNCHANGED <<ram, host>>
       \/ /\ Arg = Yes \* the key could not be stored
          /\ FatalError(Rest)
          /\ UNCHANGED <<ram, timers>>
       \/ /\ Arg = No
          /\ ram' = [ram EXCEPT !.is_validated = 0]
          /\ MoveToState("SYNC", Rest)
          /\ UNCHANGED <<ps, timers, host>>
    /\ UNCHANGED <<flash, jobs, blocked>>

(* The DFU domain is asked for permission to reboot, and gives it. *)
AskToApply ==
    /\ \/ /\ Handled("DELAY_REBOOT", "VALIDATED")
          /\ SetState(smState, Append(Rest, Signal("APPLY_IND")))
       \/ /\ Received("APPLY_IND")
          /\ SetState(smState, Append(Rest, Signal("REBOOT")))
    /\ UNCHANGED <<ps, ram, flash, jobs, blocked, timers, host>>

(* Variant for the mutation of HandleReboot: a confirmation that comes     *)
(* before the copy is over is forgotten.                                   *)
RebootsAfterCopy ==
    /\ Handled("REBOOT", "VALIDATED")
    /\ IF ram.copy_done THEN TrySwap(ram, Rest) ELSE messages' = Rest /\ UNCHANGED ram
    /\ UNCHANGED <<smState, ps, flash, jobs, blocked, timers, host>>

(* UPGRADE_INTERNAL_REBOOT *)
HandleReboot ==
    /\ Handled("REBOOT", "VALIDATED")
    /\ TrySwap(ram, Rest)
    /\ UNCHANGED <<smState, ps, flash, jobs, blocked, timers, host>>

(* dfu_HandleUpgradeShutAudio: ImageUpgradeSwapTry resets the chip, which  *)
(* falls back to the boot bank when the new image does not start.  The     *)
(* host is expected back.                                                  *)
SwapTry ==
    /\ Received("SHUT_AUDIO")
    /\ \E bank \in {"boot", "other"} : Reset(ps, [flash EXCEPT !.running = bank])
    /\ host' = Away(host.left + 1)

----------------------------------------------------------------------------
(* After the reboot: verification and commit. *)

NoReconnectionTimeout(msgs) == CancelAll(msgs, {Signal("RECONNECTION_TIMEOUT")})

(* UPGRADE_HOST_IN_PROGRESS_RES in HandleCommitHostContinue *)
HandleInProgressRes ==
    /\ Handled("IN_PROGRESS_RES", "COMMIT_HOST_CONTINUE")
    /\ timers' = timers \ {"RECONNECTION_TIMEOUT"}
    /\ MoveToState(IF Arg = Yes THEN "COMMIT_VERIFICATION" ELSE "SYNC",
                   NoReconnectionTimeout(Rest))
    /\ UNCHANGED <<ps, ram, flash, jobs, blocked, host>>

(* UPGRADE_INTERNAL_RECONNECTION_TIMEOUT: a reset, which reverts what is   *)
(* not committed.                                                          *)
HandleReconnectionTimeout ==
    \/ /\ Handled("RECONNECTION_TIMEOUT", "COMMIT_HOST_CONTINUE")
       /\ Boot([ps EXCEPT !.key = "ERROR"], FromBootBank)
    \/ /\ Handled("RECONNECTION_TIMEOUT", "SYNC")
       /\ Boot(ps, FromBootBank)

(* Variant for the mutation of HandleCommitVerification: it goes on by     *)
(* itself, as if no host had to be asked.                                  *)
VerifiesAndContinues ==
    /\ Handled("CONTINUE", "COMMIT_VERIFICATION")
    /\ \/ /\ flash.running = "other"
          /\ Tell({"IN_PROGRESS_RES"}, "COMMIT_CFM")
          /\ MoveToState("COMMIT_CONFIRM", Rest)
          /\ UNCHANGED ps
       \/ flash.running # "other" /\ FatalError(Rest)
    /\ UNCHANGED <<ram, flash, jobs, blocked, timers>>

(* HandleCommitVerification *)
HandleCommitVerification ==
    /\ Handled("CONTINUE", "COMMIT_VERIFICATION")
    /\ \/ /\ flash.running = "other"
          /\ Tell({"IN_PROGRESS_RES"}, "COMMIT_CFM")
          /\ SetState("COMMIT_CONFIRM", Rest)
          /\ UNCHANGED ps
       \/ flash.running # "other" /\ FatalError(Rest)
    /\ UNCHANGED <<ram, flash, jobs, blocked, timers>>

(* HandleCommitConfirm: CommitConfirmYes, with ImageUpgradeSwapCommit *)
HandleCommitConfirm ==
    /\ Running /\ smState = "COMMIT_CONFIRM" /\ messages # <<>>
    /\ Head(messages) \in {Msg("COMMIT_CFM", Yes), Signal("CONTINUE")}
    /\ flash' = [boot |-> flash.other, other |-> flash.boot, copied |-> TRUE, running |-> "boot"]
    /\ MoveToState("COMMIT", Rest)
    /\ UNCHANGED <<ps, ram, jobs, blocked, timers, host>>

(* The host refuses: an abort is to follow. *)
HandleCommitRefused ==
    /\ Handled("COMMIT_CFM", "COMMIT_CONFIRM") /\ Arg = No
    /\ ram' = [ram EXCEPT !.revert = TRUE]
    /\ SetState("SYNC", Rest)
    /\ UNCHANGED <<ps, flash, jobs, blocked, timers, host>>

(* HandleCommit: permission to erase is asked for. *)
HandleCommit ==
    /\ Handled("CONTINUE", "COMMIT")
    /\ ps' = [ps EXCEPT !.key = "ERASE"]
    /\ SetState("COMMIT", Append(Rest, Signal("BLOCKING_IND")))
    /\ UNCHANGED <<ram, flash, jobs, blocked, timers, host>>

----------------------------------------------------------------------------
(* Aborts and erasures. *)

(* UpgradeSMAbort, which answers at once only if a reset will follow. *)
SMAbort(flags) ==
    /\ ram' = [flags EXCEPT !.is_validated = 0]
    /\ SetState(smState, IF ram.revert THEN Rest ELSE Append(Rest, Signal("BLOCKING_IND")))

(* UPGRADE_HOST_ABORT_REQ, in HandleAborting and in DefaultHandler *)
HandleAbortReq ==
    /\ Received("ABORT_REQ") /\ smState # "COMMIT"
    /\ SMAbort([ram EXCEPT !.asynchronous_abort = ~ram.revert])
    /\ IF ram.revert
       THEN /\ TellAborted
            /\ timers' = IF smState = "ABORTING"
                         THEN timers ELSE timers \cup {"DELAY_REVERT_REBOOT"}
       ELSE UNCHANGED <<host, timers>>
    /\ UNCHANGED <<ps, flash, jobs, blocked>>

(* UPGRADE_HOST_ERRORWARN_RES in HandleAborting *)
HandleErrorWarnRes ==
    /\ Handled("ERRORWARN_RES", "ABORTING")
    /\ SMAbort(ram)
    /\ UNCHANGED <<ps, flash, jobs, blocked, timers, host>>

(* UPGRADE_INTERNAL_DELAY_REVERT_REBOOT: a reset in a mode in which        *)
(* UpgradeHandleCommitRevert clears the keys.                              *)
HandleDelayRevertReboot ==
    /\ Received("DELAY_REVERT_REBOOT")
    /\ Boot(ClearedKeys, FromBootBank)

(* UPGRADE_BLOCKING_IND in the DFU domain, which always permits it *)
HandleBlockingInd ==
    /\ Received("BLOCKING_IND")
    /\ SetState(smState, Append(Rest, Signal("ERASE")))
    /\ UNCHANGED <<ps, ram, flash, jobs, blocked, timers, host>>

(* Variants for mutations of HandleErase: the keys are left to be cleared  *)
(* when the erase is over; and the state is not changed.                   *)
ErasesBeforeClearing ==
    /\ Received("ERASE")
    /\ EraseAllManaged(ps.key)
    /\ ram' = [ram EXCEPT !.data = NoData]
    /\ SetState("SYNC", Rest)
    /\ UNCHANGED <<ps, blocked, timers, host>>

ErasesInPlace ==
    /\ Received("ERASE")
    /\ EraseAllManaged(ps.key)
    /\ ps' = ClearedKeys
    /\ ram' = [ram EXCEPT !.data = NoData]
    /\ SetState(smState, Rest)
    /\ UNCHANGED <<blocked, timers, host>>

(* UPGRADE_INTERNAL_ERASE: UpgradeSMErase, and in the commit state         *)
(* InformAppsCompleteGotoSync.                                             *)
HandleErase ==
    /\ Received("ERASE")
    /\ EraseAllManaged(ps.key)
    /\ ps' = ClearedKeys
    /\ ram' = [ram EXCEPT !.data = NoData]
    /\ \/ /\ smState = "COMMIT"
          /\ SetState("SYNC", BlockingOpIsDone(Rest))
          /\ host' = Away(host.left)
       \/ /\ smState # "COMMIT"
          /\ SetState("SYNC", Rest)
          /\ UNCHANGED host
    /\ UNCHANGED <<blocked, timers>>

(* UpgradeSMEraseStatus.  The status of an erase that an abort asked for   *)
(* may come before START_DATA_REQ allocates the context it refers to.      *)
HandleEraseStatus ==
    /\ Received("ERASE_STATUS")
    /\ LET queue == BlockingOpIsDone(Rest)
           ready == ps.key = "START" /\ smState = "DATA_READY"
           aborted == ps.key = "START" /\ smState = "SYNC" /\ ram.asynchronous_abort
       IN \/ /\ ready /\ Arg = Done /\ ram.data = NoData
             /\ Boot(ps, FromBootBank)
          \/ /\ ready /\ Arg = Done /\ ram.data # NoData
             /\ Tell({"START_DATA_REQ"}, "DATA")
             /\ SetState("DATA_TRANSFER", queue)
             /\ UNCHANGED <<ps, ram, flash, jobs, blocked, timers>>
          \/ /\ ready /\ Arg = Failed
             /\ FatalError(queue)
             /\ UNCHANGED <<ram, flash, jobs, blocked, timers>>
          \/ /\ aborted
             /\ TellAborted
             /\ ram' = [ram EXCEPT !.asynchronous_abort = FALSE]
             /\ SetState("SYNC", queue)
             /\ UNCHANGED <<ps, flash, jobs, blocked, timers>>
          \/ /\ ~ready /\ ~aborted
             /\ SetState(smState, queue)
             /\ UNCHANGED <<ps, ram, flash, jobs, blocked, timers, host>>

(* No state handles every message. *)
Ignore ==
    /\ Running /\ messages # <<>>
    /\ LET id == Head(messages).id
       IN \/ id \in DOMAIN HandledIn /\ smState \notin HandledIn[id]
          \/ id = "ABORT_REQ" /\ smState = "COMMIT"
    /\ SetState(smState, Rest)
    /\ UNCHANGED <<ps, ram, flash, jobs, blocked, timers, host>>

----------------------------------------------------------------------------
(* The host, the firmware and faults. *)

HostMessages ==
    {"SYNC_REQ", "START_REQ", "START_DATA_REQ", "DATA", "IS_CSR_VALID_DONE_REQ",
     "TRANSFER_COMPLETE_RES", "IN_PROGRESS_RES", "COMMIT_CFM", "ERRORWARN_RES", "ABORT_REQ"}

(* A transport that connects is told so by a message, behind everything    *)
(* that the last host has sent (UpgradeHostIFTransportConnect).            *)
Connects ==
    /\ Running /\ host.next = "away" /\ host.left > 0 /\ Len(messages) < MAX_QUEUE
    /\ \A i \in DOMAIN messages : messages[i].id \notin HostMessages
    /\ \E f \in Files :
          host' = [host EXCEPT !.next = "SYNC_REQ", !.file = f, !.left = @ - 1]
    /\ UNCHANGED <<smState, ps, ram, flash, jobs, messages, blocked, timers>>

(* UpgradeHostIFTransportDisconnect: the state machine is not told. *)
Disconnects ==
    /\ host.next # "away"
    /\ host' = Away(host.left)
    /\ UNCHANGED <<smState, ps, ram, flash, jobs, messages, blocked, timers>>

HostAborts ==
    /\ host.next \notin {"away", "ABORT_REQ", "SYNC_REQ"}
    /\ host' = [host EXCEPT !.next = "ABORT_REQ", !.sent = FALSE]
    /\ UNCHANGED <<smState, ps, ram, flash, jobs, messages, blocked, timers>>

Questions == {"TRANSFER_COMPLETE_RES", "IN_PROGRESS_RES", "COMMIT_CFM"}

HostArgs(id) ==
    CASE id \in {"SYNC_REQ", "DATA"} -> {host.file}
      [] id \in Questions -> {Yes, No}
      [] OTHER -> {0}

(* UpgradeHostIFDataBuildIncomingMsg.  A refusal, or the answer to an      *)
(* error, is followed by an abort.                                         *)
HostSends ==
    /\ Running /\ ~host.sent /\ host.next \notin {"away", "COMPLETE"}
    /\ \E arg \in HostArgs(host.next) :
          /\ messages' = Append(messages, Msg(host.next, arg))
          /\ host' = IF \/ host.next = "ERRORWARN_RES"
                        \/ host.next \in Questions /\ arg = No
                     THEN [host EXCEPT !.next = "ABORT_REQ"]
                     ELSE [host EXCEPT !.sent = TRUE]
    /\ UNCHANGED <<smState, ps, ram, flash, jobs, blocked, timers>>

Whole(image, file) == \A s \in 1..Sections : image[s] = file

EraseSome(sections) ==
    [flash EXCEPT !.other = [s \in 1..Sections |-> IF s \in sections THEN Erased ELSE @[s]],
                  !.copied = @ /\ sections = {}]

(* The first job ends.  One that fails may have done a part of its work. *)
JobEnds ==
    /\ Running /\ jobs # <<>>
    /\ jobs' = Tail(jobs)
    /\ \/ /\ Head(jobs) = "erase"
          /\ \/ /\ flash' = EraseSome(1..Sections)
                /\ messages' = Append(messages, Msg("ERASE_STATUS", Done))
             \/ /\ \E sections \in SUBSET (1..Sections) : flash' = EraseSome(sections)
                /\ messages' = Append(messages, Msg("ERASE_STATUS", Failed))
       \/ /\ Head(jobs) = "hash"
          /\ \E status \in {Failed, Done} :
                /\ status = Done => Whole(flash.other, ps.id)
                /\ messages' = Append(messages, Msg("HASH_STATUS", status))
          /\ UNCHANGED flash
       \/ /\ Head(jobs) = "copy"
          /\ \E status \in {Failed, Done} :
                /\ messages' = Append(messages, Msg("COPY_STATUS", status))
                /\ flash' = [flash EXCEPT !.copied = @ \/ status = Done]
    /\ UNCHANGED <<smState, ps, ram, blocked, timers, host>>

TimerExpires ==
    /\ Running
    /\ \E t \in timers : timers' = timers \ {t} /\ messages' = Append(messages, Signal(t))
    /\ UNCHANGED <<smState, ps, ram, flash, jobs, blocked, host>>

(* Power is lost, maybe during an erase; the loader starts the boot bank. *)
PowerLoss ==
    \E sections \in SUBSET (1..Sections) :
        /\ sections # {} => jobs # <<>> /\ Head(jobs) = "erase"
        /\ Boot(ps, [EraseSome(sections) EXCEPT !.running = "boot"])

(* Power is lost after a section was written and before that was recorded. *)
DiesWriting ==
    /\ Handled("DATA", "DATA_TRANSFER")
    /\ ram.data \in 1..Sections /\ ~AlreadyHandled(ram.data) /\ jobs = <<>>
    /\ Boot(ps, [FromBootBank EXCEPT !.other[ram.data] = Arg])

(* Power is lost in UpgradeSMErase, after the section that was being       *)
(* received was closed, which counts it as complete, and before the keys   *)
(* were cleared.                                                           *)
DiesErasing ==
    /\ Received("ERASE")
    /\ ram.data \in 1..Sections /\ ~AlreadyHandled(ram.data)
    /\ Boot([ps EXCEPT !.closed = ram.data], FromBootBank)

----------------------------------------------------------------------------

Deliver ==
    \/ HandleSyncReq \/ HandleReady \/ HandleDataReady
    \/ HandleData \/ HandleLastData \/ HandleBadData
    \/ StartHash \/ HandleHashStatus \/ HandleValidating \/ HandleIsCsrValidDone
    \/ TransferComplete \/ HandleCopyStatus
    \/ HandleTransferCompleteRes \/ AskToApply \/ HandleReboot \/ SwapTry
    \/ HandleInProgressRes \/ HandleReconnectionTimeout \/ HandleCommitVerification
    \/ HandleCommitConfirm \/ HandleCommitRefused \/ HandleCommit
    \/ HandleAbortReq \/ HandleErrorWarnRes \/ HandleDelayRevertReboot
    \/ HandleBlockingInd \/ HandleErase \/ HandleEraseStatus \/ Ignore

Next ==
    \/ Deliver \/ JobEnds \/ TimerExpires
    \/ Connects \/ Disconnects \/ HostAborts \/ HostSends
    \/ PowerLoss \/ DiesWriting \/ DiesErasing

(* Messages are delivered, jobs end and timers expire.  Nothing makes the  *)
(* host go on.                                                             *)
Fairness == WF_vars(Deliver) /\ WF_vars(JobEnds) /\ WF_vars(TimerExpires)

Spec == Init /\ [][Next]_vars /\ Fairness

----------------------------------------------------------------------------

States == {"SYNC", "READY", "ABORTING", "DATA_READY", "DATA_TRANSFER", "DATA_HASH_CHECKING",
           "VALIDATING", "VALIDATED", "COMMIT_HOST_CONTINUE", "COMMIT_VERIFICATION",
           "COMMIT_CONFIRM", "COMMIT"}

Images == [1..Sections -> Files \cup {Factory, Erased}]

(* The state has the types of the context and of the keys.  In particular, *)
(* data is only handled while the parser has a context.                    *)
TypeOK ==
    /\ smState \in States
    /\ ps \in [key : ResumePoints, id : Files \cup {0}, upgrading : BOOLEAN, closed : 0..Sections]
    /\ ram \in [is_validated : 0..1, copy_done : BOOLEAN, hashing : BOOLEAN,
               asynchronous_abort : BOOLEAN, revert : BOOLEAN, data : 0..NoData]
    /\ flash.boot \in Images /\ flash.other \in Images
    /\ flash.copied \in BOOLEAN /\ flash.running \in {"boot", "other", "erased"}
    /\ timers \subseteq {"DELAY_REBOOT", "RECONNECTION_TIMEOUT", "DELAY_REVERT_REBOOT"}
    /\ smState = "DATA_TRANSFER" => ram.data # NoData

(* The resume point that a reset finds in the persistent store is true of  *)
(* the flash: past PRE_VALIDATE the other bank holds every section of the  *)
(* file in progress, and at ERASE the boot bank does (upgrade_sm.h,        *)
(* UpdateResumePoint).                                                     *)
ResumePointHonest ==
    /\ ps.key \in {"PRE_VALIDATE", "PRE_REBOOT"} => Whole(flash.other, ps.id)
    /\ ps.key = "POST_REBOOT" => \E image \in {flash.other, flash.boot} : Whole(image, ps.id)
    /\ ps.key = "ERASE" => Whole(flash.boot, ps.id)

(* However a transfer was interrupted, resumed or aborted, the image that  *)
(* the loader starts has all its sections from one file: files are never   *)
(* mixed and nothing incomplete is committed (CommitConfirmYes).           *)
BootImageOneFile == \E file \in Files \cup {Factory} : Whole(flash.boot, file)

(* The new image becomes the boot image only when the host says so:        *)
(* UPGRADE_INTERNAL_CONTINUE, which would also commit, never comes in that *)
(* state (HandleCommitConfirm).                                            *)
CommitConfirmedByHost ==
    [][flash'.boot # flash.boot => Head(messages) = Msg("COMMIT_CFM", Yes)]_vars

(* Once the host has confirmed the upgrade, and the copy counts or has yet *)
(* to end, the device reboots, whichever of the two comes first, unless    *)
(* the host starts over or aborts (IsValidatedToTrySwap).                  *)
ConfirmedReboots ==
    /\ ps.key = "POST_REBOOT" /\ smState = "VALIDATED"
    /\ "DELAY_REBOOT" \in timers /\ (ram.is_validated = 1 \/ In("copy", jobs))
    ~> smState # "VALIDATED" \/ ram.asynchronous_abort

(* The other bank is erased only while the device runs from the boot bank, *)
(* as ImageUpgradeErase expects (UpgradeSMErase).                          *)
EraseFromBootBank == flash.running # "erased"

(* An upgrade that the host has confirmed does not stay in the last state  *)
(* before the reboot, also if it was resumed there, unless the host aborts *)
(* (upgrade_sm.h, UPGRADE_RESUME_POINT_PRE_REBOOT).                        *)
ResumedUpgradeReboots ==
    (ps.key = "POST_REBOOT" /\ smState = "VALIDATED")
        ~> smState # "VALIDATED" \/ ram.asynchronous_abort
=============================================================================

----------------------------- MODULE WebCfgServer -----------------------------
(***************************************************************************)
(* The web configuration and the firmware upload: WebCfgServer.cpp, Ota.cpp  *)
(* and what of the vendored WebServer decides when their handlers run.  All  *)
(* of it is executed by ntw, in WebCfgServer::update.                        *)
(*                                                                           *)
(* A handler that has answered waits in waitAndProcess, which calls          *)
(* handleClient: further requests are handled inside the first.  waits is    *)
(* the stack of these calls.  A multipart form keeps ntw in handleClient     *)
(* until its end has been read, and for ever when the client is gone before: *)
(* _parseForm then reads one empty line after another.  The data of an       *)
(* uploaded file comes in buffers of HTTP_UPLOAD_BUFLEN bytes.               *)
(*                                                                           *)
(* Times count from their beginning and stop where no test tells more.       *)
(***************************************************************************)
EXTENDS Integers, SequencesExt

CONSTANTS
  Settings,    \* the possible contents of the preferences
  MinUptime,   \* 60000: no upload is accepted earlier
  OtaTimeout,  \* 120000
  WaitTime,    \* waitAndProcess after a form or /restart, 1000
  PortalTime,  \* and after /wifimanager, 2000
  MaxWaits,    \* bound: requests handled inside one another
  MaxChunks    \* bound: the buffers of an upload

ASSUME WebAssumption ==
  /\ Settings # {}
  /\ {MinUptime, OtaTimeout, WaitTime, PortalTime} \subseteq Nat
  /\ {MaxWaits, MaxChunks} \subseteq Nat \ {0}

VARIABLES
  uptime,       \* millis(), as far as MinUptime
  preferences,  \* what is stored
  effective,    \* what was read at boot
  open,         \* the preferences are open for writing
  enabled,      \* _enabled
  pc,           \* ntw is in handleClient, called by update, in a form it reads,
                \* in one that was cut off, or elsewhere
  waits,        \* the calls of waitAndProcess: the time left, what comes then
  otaStarted,   \* _otaStartTs > 0
  otaAge,       \* millis() - _otaStartTs, as far as OtaTimeout + 1
  ota,          \* the members of Ota, and what is in the partition
  upload        \* the upload that is being read

settingVars == <<preferences, effective, open, enabled>>
otaVars == <<otaStarted, otaAge, ota>>
vars == <<uptime, settingVars, pc, waits, otaVars, upload>>

Sizes == {"full", "short", "empty"}  \* of a buffer: 1436 bytes, fewer, none
NoOta == [updateStarted |-> FALSE, handle |-> "none", image |-> 0, whole |-> FALSE]
NoUpload == [chunks |-> 0, last |-> "empty", valid |-> FALSE, named |-> FALSE,
             taken |-> FALSE, sent |-> 0]
Reading == upload # NoUpload

Init ==
  /\ uptime = 0
  /\ preferences \in Settings /\ effective = preferences /\ open = TRUE
  /\ enabled = TRUE /\ pc = "away" /\ waits = <<>>
  /\ otaStarted = FALSE /\ otaAge = 0 /\ ota = NoOta /\ upload = NoUpload

Boot ==
  /\ uptime' = 0
  /\ effective' = preferences /\ open' = TRUE /\ UNCHANGED preferences
  /\ enabled' = TRUE /\ pc' = "away" /\ waits' = <<>>
  /\ otaStarted' = FALSE /\ otaAge' = 0 /\ ota' = NoOta /\ upload' = NoUpload

-----------------------------------------------------------------------------
(* update and waitAndProcess                                                 *)

OtaTimeOutWhenEnabled ==  \* fault: an upload stays unless a form was sent
  otaStarted /\ otaAge > OtaTimeout /\ ~enabled
OtaTimeOut == otaStarted /\ otaAge > OtaTimeout

OtaTimeOutRestart == pc = "away" /\ waits = <<>> /\ OtaTimeOut /\ Boot

Update ==
  /\ pc = "away" /\ waits = <<>> /\ ~OtaTimeOut
  /\ enabled /\ pc' = "handleClient"
  /\ UNCHANGED <<uptime, settingVars, waits, otaVars, upload>>

(* handleClient is called by update, or by the innermost waitAndProcess.     *)
HandlesClient ==
  IF waits = <<>> THEN pc = "handleClient" ELSE pc = "away" /\ Last(waits).left > 0

(* There is no request, or one for a page.                                   *)
NothingToChange ==
  /\ HandlesClient /\ waits = <<>>
  /\ pc' = "away"
  /\ UNCHANGED <<uptime, settingVars, waits, otaVars, upload>>

WaitAndProcess(duration, then) ==
  /\ Len(waits) < MaxWaits
  /\ waits' = Append(waits, [left |-> duration, then |-> then])
  /\ pc' = "away"

WaitEnds ==
  /\ pc = "away" /\ waits # <<>> /\ Last(waits).left = 0
  /\ Last(waits).then = "return" /\ waits' = Front(waits)
  /\ UNCHANGED <<uptime, settingVars, pc, otaVars, upload>>

WaitEndsInRestart ==
  /\ pc = "away" /\ waits # <<>> /\ Last(waits).left = 0
  /\ Last(waits).then = "restart" /\ Boot

-----------------------------------------------------------------------------
(* The handlers                                                              *)

(* processArgs with a setting among the arguments: once the preferences are  *)
(* closed the writing fails, and nobody looks at that.                       *)
AfterConfigUnchanged == "return"   \* fault: configChanged stays false
AfterConfigChanged == "restart"

Save(settings) ==
  /\ HandlesClient /\ WaitAndProcess(WaitTime, AfterConfigChanged)
  /\ preferences' = IF open THEN settings ELSE preferences
  /\ open' = FALSE /\ enabled' = FALSE
  /\ UNCHANGED <<uptime, effective, otaVars, upload>>

(* processArgs with nothing to store                                         *)
NothingSaved ==
  /\ HandlesClient /\ WaitAndProcess(WaitTime, "return")
  /\ UNCHANGED <<uptime, settingVars, otaVars, upload>>

(* /restart and /wifimanager                                                 *)
RequestRestart ==
  /\ HandlesClient
  /\ \E duration \in {WaitTime, PortalTime} : WaitAndProcess(duration, "restart")
  /\ UNCHANGED <<uptime, settingVars, otaVars, upload>>

-----------------------------------------------------------------------------
(* _parseForm: a multipart request, for whatever path                        *)

BeginForm ==
  /\ HandlesClient /\ pc' = "form"
  /\ UNCHANGED <<uptime, settingVars, waits, otaVars, upload>>

(* The closing boundary was read, and the request is answered.               *)
EndForm ==
  /\ pc = "form" /\ ~Reading /\ pc' = "away"
  /\ UNCHANGED <<uptime, settingVars, waits, otaVars, upload>>

(* The client is gone in the head of a part, in a field or behind a file.    *)
FormCutOff ==
  /\ pc = "form" /\ ~Reading /\ pc' = "cutOff"
  /\ UNCHANGED <<uptime, settingVars, waits, otaVars, upload>>

-----------------------------------------------------------------------------
(* handleOtaUpload and Ota::updateFirmware                                   *)

(* A form without a file name is ignored as well.                            *)
Refused(named) == uptime < MinUptime \/ ~named

(* The buffers at the start of the partition are not those of the upload     *)
(* that is being read.                                                       *)
Broken == -1

(* UPLOAD_FILE_START.  Only an empty file leaves its last buffer empty.  An  *)
(* upload is taken from its start when it is not refused and no earlier one  *)
(* has used up the updater of this boot.                                     *)
BeginUpload ==
  /\ pc = "form" /\ ~Reading
  /\ \E chunks \in 1 .. MaxChunks, last \in Sizes, valid, named \in BOOLEAN :
       /\ last = "empty" => chunks = 1 /\ ~valid
       /\ upload' = [chunks |-> chunks, last |-> last, valid |-> valid,
                     named |-> named, sent |-> 0,
                     taken |-> ~Refused(named) /\ ~ota.updateStarted]
       /\ otaStarted' = (otaStarted \/ ~Refused(named))
       /\ otaAge' = IF Refused(named) THEN otaAge ELSE 0
  /\ ota' = [ota EXCEPT !.image = IF @ = 0 THEN 0 ELSE Broken]
  /\ UNCHANGED <<uptime, settingVars, pc, waits>>

(* UPLOAD_FILE_WRITE, after every full buffer and for the rest               *)
MoreChunksAtEnd == upload.sent <= upload.chunks  \* fault: one buffer too many
MoreChunks == upload.sent < upload.chunks
ChunkSize == IF upload.sent + 1 = upload.chunks THEN upload.last ELSE "full"

EndsAtEmpty(size) == size = "empty"  \* fault: waits for an empty buffer
EndsUpdate(size) == size # "full"

(* What esp_ota_begin, _write and _end leave: an ended handle takes nothing. *)
(* image is the number of buffers of this upload at the start of the         *)
(* partition; whole says that a valid image is there, whatever follows it.   *)
Begun == [updateStarted |-> TRUE, handle |-> "open", image |-> 0, whole |-> FALSE]
Updated(size) ==
  LET begun == IF ota.updateStarted THEN ota ELSE Begun
      image == IF begun.handle # "open" THEN begun.image
               ELSE IF begun.image = upload.sent THEN upload.sent + 1 ELSE Broken
  IN [updateStarted |-> TRUE,
      handle |-> IF EndsUpdate(size) THEN "ended" ELSE begun.handle,
      image |-> image,
      whole |-> begun.whole \/ (/\ begun.handle = "open" /\ upload.valid
                                /\ image = upload.chunks)]

(* esp_ota_set_boot_partition accepts nothing but a whole, valid image.      *)
BootPartitionSet == Updated(ChunkSize).whole

Ignored ==
  Refused(upload.named) \/ (ChunkSize = "empty" /\ ~ota.updateStarted)

WriteChunk ==
  /\ Reading /\ MoreChunks
  /\ Ignored \/ ~EndsUpdate(ChunkSize) \/ ~BootPartitionSet
  /\ upload' = [upload EXCEPT !.sent = @ + 1]
  /\ ota' = IF Ignored THEN ota ELSE Updated(ChunkSize)
  /\ UNCHANGED <<uptime, settingVars, pc, waits, otaStarted, otaAge>>

UpdateCompletes ==
  /\ Reading /\ MoreChunks /\ ~Ignored
  /\ EndsUpdate(ChunkSize) /\ BootPartitionSet
  /\ Boot

(* UPLOAD_FILE_END: the form goes on.                                        *)
EndUpload ==
  /\ Reading /\ ~MoreChunks
  /\ upload' = NoUpload
  /\ UNCHANGED <<uptime, settingVars, pc, waits, otaVars>>

(* UPLOAD_FILE_ABORTED: the client sends no more, or is gone.                *)
UploadAborted == Reading /\ MoreChunks /\ ~Refused(upload.named) /\ Boot
UploadIgnored ==
  /\ Reading /\ MoreChunks /\ Refused(upload.named)
  /\ upload' = NoUpload /\ pc' = "away"
  /\ UNCHANGED <<uptime, settingVars, waits, otaVars>>

-----------------------------------------------------------------------------
AtMost(bound, time) == IF time < bound THEN time ELSE bound
Tick ==
  /\ uptime' = AtMost(MinUptime, uptime + 1)
  /\ otaAge' = IF otaStarted THEN AtMost(OtaTimeout + 1, otaAge + 1) ELSE otaAge
  /\ waits' = [i \in DOMAIN waits |->
                 [waits[i] EXCEPT !.left = IF @ = 0 THEN 0 ELSE @ - 1]]
  /\ UNCHANGED <<settingVars, pc, otaStarted, ota, upload>>

(* Power loss, or a restart decided by another part of the firmware.         *)
OtherRestart == Boot

Next ==
  \/ OtaTimeOutRestart \/ Update \/ NothingToChange
  \/ WaitEnds \/ WaitEndsInRestart
  \/ (\E s \in Settings : Save(s)) \/ NothingSaved \/ RequestRestart
  \/ BeginForm \/ EndForm \/ FormCutOff
  \/ BeginUpload \/ WriteChunk \/ UpdateCompletes \/ EndUpload
  \/ UploadAborted \/ UploadIgnored
  \/ Tick \/ OtherRestart

Spec == Init /\ [][Next]_vars

(* Time passes and ntw goes on; the reading of an upload gets data or times  *)
(* out, and the client of a form sends its end at last, or is gone.          *)
FairSpec ==
  /\ Spec
  /\ WF_vars(Tick)
  /\ WF_vars(OtaTimeOutRestart) /\ WF_vars(Update) /\ WF_vars(NothingToChange)
  /\ WF_vars(WaitEnds) /\ WF_vars(WaitEndsInRestart)
  /\ WF_vars(WriteChunk \/ UpdateCompletes \/ UploadAborted \/ UploadIgnored)
  /\ WF_vars(EndUpload)
  /\ SF_vars(EndForm \/ FormCutOff)

-----------------------------------------------------------------------------
(* Properties                                                                *)

(* Every variable keeps its type, and no buffer is beyond the upload's end.  *)
Frames == [left : 0 .. (WaitTime + PortalTime), then : {"return", "restart"}]
Otas == [updateStarted : BOOLEAN, handle : {"none", "open", "ended"},
         image : Broken .. MaxChunks, whole : BOOLEAN]
Uploads == [chunks : 0 .. MaxChunks, last : Sizes, valid : BOOLEAN,
            named : BOOLEAN, taken : BOOLEAN, sent : 0 .. MaxChunks]
TypeOK ==
  /\ uptime \in 0 .. MinUptime /\ otaAge \in 0 .. OtaTimeout + 1
  /\ preferences \in Settings /\ effective \in Settings
  /\ open \in BOOLEAN /\ enabled \in BOOLEAN /\ otaStarted \in BOOLEAN
  /\ pc \in {"away", "handleClient", "form", "cutOff"}
  /\ waits \in Seq(Frames) /\ Len(waits) <= MaxWaits
  /\ ota \in Otas
  /\ upload \in Uploads /\ upload.sent <= upload.chunks

(* An upload of a valid image that is accepted after the first minute, when  *)
(* no buffer of an earlier one has reached the updater of this boot, ends in *)
(* the restart of updateFirmware, unless its size is a multiple of the       *)
(* buffer, for which updateFirmware never sees an end.                       *)
UploadTakesEffect ==
  [][EndUpload => ~(upload.taken /\ upload.valid /\ upload.last # "full")]_vars

(* Settings that were stored come into effect, whatever is requested while   *)
(* the device waits for its restart, if no client is gone in the middle of a *)
(* form: ntw does not come back from that.                                   *)
CutOff == pc = "cutOff"
SettingsTakeEffect ==
  (preferences # effective) ~> (preferences = effective \/ CutOff)

(* An accepted upload, however it fails, leaves a device that restarts, with *)
(* the restarts it has disabled in working order again, once nobody begins   *)
(* another and if no client is gone in the middle of a form.                 *)
NoMoreUploads == <>[][~BeginUpload]_vars
RestartsAfterUpload == NoMoreUploads => (otaStarted ~> (~otaStarted \/ CutOff))

-----------------------------------------------------------------------------
(* The inductive invariant that WebCfgProofs builds on: the buffers of an    *)
(* upload that was taken from its start are in the partition, and its last   *)
(* one has not ended it as a whole image.                                    *)
TakenInv ==
  upload.taken =>
    /\ ~Refused(upload.named)
    /\ upload.chunks > 0 /\ (upload.last = "empty" => ~upload.valid)
    /\ IF upload.sent = 0 THEN ~ota.updateStarted
       ELSE IF upload.sent < upload.chunks
       THEN ota = [updateStarted |-> TRUE, handle |-> "open",
                   image |-> upload.sent, whole |-> FALSE]
       ELSE ~(upload.valid /\ upload.last # "full")
=============================================================================

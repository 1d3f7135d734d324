----------------------------- MODULE WebCfgProofs -----------------------------
(* The first upload that a boot accepts is booted when its image is valid,   *)
(* for any number of buffers and any nesting of requests.                    *)
EXTENDS WebCfgServer, TLAPS

LEMMA ConstantsAreNumbers ==
  /\ MinUptime \in Nat /\ OtaTimeout \in Nat /\ WaitTime \in Nat
  /\ PortalTime \in Nat /\ MaxWaits \in Nat /\ MaxChunks \in Nat
  BY WebAssumption

(* What a boot sets up satisfies the invariants, at the start as well.       *)
LEMMA BootValues ==
  /\ NoUpload \in Uploads /\ NoUpload.sent <= NoUpload.chunks /\ ~NoUpload.taken
  /\ NoOta \in Otas /\ <<>> \in Seq(Frames) /\ Len(<<>>) <= MaxWaits
  /\ 0 \in 0 .. MinUptime /\ 0 \in 0 .. OtaTimeout + 1
  BY WebAssumption DEF NoUpload, NoOta, Uploads, Otas, Sizes, Broken

LEMMA InitInv == Init => TypeOK /\ TakenInv
  BY BootValues DEF Init, TypeOK, TakenInv

LEMMA BootInv == TypeOK /\ Boot => TypeOK' /\ TakenInv'
  BY BootValues DEF Boot, TypeOK, TakenInv

(* waitAndProcess pushes a frame, and the end of the wait takes it off.      *)
LEMMA WaitType ==
  ASSUME NEW duration \in {WaitTime, PortalTime}, NEW then \in {"return", "restart"},
         waits \in Seq(Frames), WaitAndProcess(duration, then)
  PROVE  waits' \in Seq(Frames) /\ Len(waits') <= MaxWaits
  <1>1. [left |-> duration, then |-> then] \in Frames
    BY WebAssumption DEF Frames
  <1> QED
    BY <1>1, WebAssumption DEF WaitAndProcess

LEMMA FrontType ==
  ASSUME waits \in Seq(Frames), waits # <<>>
  PROVE  Front(waits) \in Seq(Frames) /\ Len(Front(waits)) <= Len(waits)
  BY DEF Front

(* What updateFirmware leaves has its type.                                  *)
LEMMA UpdatedType ==
  ASSUME ota \in Otas, upload \in Uploads, upload.sent < upload.chunks,
         NEW size \in Sizes
  PROVE  Updated(size) \in Otas
  <1> DEFINE begun == IF ota.updateStarted THEN ota ELSE Begun
             image == IF begun.handle # "open" THEN begun.image
                      ELSE IF begun.image = upload.sent THEN upload.sent + 1
                      ELSE Broken
             whole == begun.whole \/ (/\ begun.handle = "open" /\ upload.valid
                                      /\ image = upload.chunks)
             handle == IF EndsUpdate(size) THEN "ended" ELSE begun.handle
  <1>1. begun \in Otas
    BY WebAssumption DEF Otas, Broken, Begun
  <1>2. image \in Broken .. MaxChunks
    <2>1. begun.image \in Broken .. MaxChunks
      BY <1>1 DEF Otas
    <2>2. upload.sent + 1 \in Broken .. MaxChunks /\ Broken \in Broken .. MaxChunks
      BY WebAssumption DEF Uploads, Broken
    <2> QED
      BY <2>1, <2>2
  <1>3. handle \in {"none", "open", "ended"}
    BY <1>1 DEF Otas
  <1>4. whole \in BOOLEAN
    BY <1>1 DEF Otas, Uploads
  <1>5. Updated(size) = [updateStarted |-> TRUE, handle |-> handle,
                         image |-> image, whole |-> whole]
    BY DEF Updated
  <1> HIDE DEF begun, image, whole, handle
  <1> QED
    BY <1>2, <1>3, <1>4, <1>5 DEF Otas

LEMMA ChunkSizeType == upload \in Uploads => ChunkSize \in Sizes
  BY DEF ChunkSize, Uploads, Sizes

(* Which steps leave the upload and the updater alone.                       *)
LEMMA SameUpload ==
  ASSUME TypeOK, TakenInv, UNCHANGED <<ota, upload>>,
         uptime' \in Nat, uptime' >= uptime
  PROVE  TakenInv'
  <1>1. uptime \in Nat /\ MinUptime \in Nat
    BY ConstantsAreNumbers DEF TypeOK
  <1>2. \A named : Refused(named)' => Refused(named)
    BY <1>1 DEF Refused
  <1> QED
    BY <1>2 DEF TakenInv

LEMMA NextTypeOK == TypeOK /\ [Next]_vars => TypeOK'
  <1> SUFFICES ASSUME TypeOK, [Next]_vars PROVE TypeOK'
    OBVIOUS
  <1> USE DEF TypeOK, settingVars, otaVars
  <1>1. CASE Boot \/ OtaTimeOutRestart \/ WaitEndsInRestart \/ UpdateCompletes
             \/ UploadAborted \/ OtherRestart
    <2>1. Boot
      BY <1>1 DEF OtaTimeOutRestart, WaitEndsInRestart, UpdateCompletes,
                  UploadAborted, OtherRestart
    <2> QED
      BY <2>1, BootInv
  <1>2. CASE Update
    BY <1>2 DEF Update
  <1>3. CASE NothingToChange
    BY <1>3 DEF NothingToChange
  <1>4. CASE WaitEnds
    BY <1>4, FrontType, WebAssumption DEF WaitEnds
  <1>5. ASSUME NEW s \in Settings, Save(s) PROVE TypeOK'
    <2>1. waits' \in Seq(Frames) /\ Len(waits') <= MaxWaits
      BY <1>5, WaitType DEF Save, AfterConfigChanged
    <2>2. pc' = "away"
      BY <1>5 DEF Save, WaitAndProcess
    <2> QED
      BY <1>5, <2>1, <2>2 DEF Save
  <1>6. CASE NothingSaved
    <2>1. waits' \in Seq(Frames) /\ Len(waits') <= MaxWaits
      BY <1>6, WaitType DEF NothingSaved
    <2>2. pc' = "away"
      BY <1>6 DEF NothingSaved, WaitAndProcess
    <2> QED
      BY <1>6, <2>1, <2>2 DEF NothingSaved
  <1>7. CASE RequestRestart
    <2>1. waits' \in Seq(Frames) /\ Len(waits') <= MaxWaits
      BY <1>7, WaitType DEF RequestRestart
    <2>2. pc' = "away"
      BY <1>7 DEF RequestRestart, WaitAndProcess
    <2> QED
      BY <1>7, <2>1, <2>2 DEF RequestRestart
  <1>8. CASE BeginUpload
    <2>1. upload' \in Uploads /\ upload'.sent <= upload'.chunks
      BY <1>8, WebAssumption DEF BeginUpload, Uploads, Refused
    <2>2. otaStarted' \in BOOLEAN /\ otaAge' \in 0 .. OtaTimeout + 1
      BY <1>8, WebAssumption DEF BeginUpload
    <2>3. ota' \in Otas
      <3>1. Broken \in Broken .. MaxChunks /\ 0 \in Broken .. MaxChunks
        BY WebAssumption DEF Broken
      <3> QED
        BY <1>8, <3>1 DEF BeginUpload, Otas
    <2> QED
      BY <1>8, <2>1, <2>2, <2>3 DEF BeginUpload
  <1>9. CASE WriteChunk
    <2>1. upload.sent < upload.chunks /\ upload' = [upload EXCEPT !.sent = @ + 1]
      BY <1>9 DEF WriteChunk, MoreChunks
    <2>2. /\ upload.sent + 1 \in 0 .. MaxChunks
          /\ upload.sent + 1 <= upload.chunks
      BY <2>1, ConstantsAreNumbers DEF Uploads
    <2>4. /\ [upload EXCEPT !.sent = upload.sent + 1] \in Uploads
          /\ [upload EXCEPT !.sent = upload.sent + 1].sent = upload.sent + 1
          /\ [upload EXCEPT !.sent = upload.sent + 1].chunks = upload.chunks
      BY <2>2 DEF Uploads
    <2>3. ota' \in Otas
      BY <1>9, <2>1, UpdatedType, ChunkSizeType DEF WriteChunk
    <2> QED
      BY <1>9, <2>1, <2>2, <2>3, <2>4 DEF WriteChunk
  <1>10. CASE EndUpload \/ UploadIgnored
    BY <1>10, BootValues DEF EndUpload, UploadIgnored
  <1>11. CASE Tick
    <2>1. uptime' \in 0 .. MinUptime
      BY <1>11, ConstantsAreNumbers DEF Tick, AtMost
    <2>4. otaAge' \in 0 .. OtaTimeout + 1
      BY <1>11, ConstantsAreNumbers DEF Tick, AtMost
    <2>2. ASSUME NEW i \in DOMAIN waits
          PROVE  [waits[i] EXCEPT !.left = IF @ = 0 THEN 0 ELSE @ - 1] \in Frames
      <3>1. waits[i] \in Frames
        OBVIOUS
      <3>2. (IF waits[i].left = 0 THEN 0 ELSE waits[i].left - 1)
              \in 0 .. (WaitTime + PortalTime)
        BY <3>1, ConstantsAreNumbers DEF Frames
      <3> QED
        BY <3>1, <3>2 DEF Frames
    <2>3. waits' \in Seq(Frames) /\ Len(waits') = Len(waits)
      BY <1>11, <2>2 DEF Tick
    <2> QED
      BY <1>11, <2>1, <2>3, <2>4 DEF Tick
  <1>12. CASE BeginForm \/ EndForm \/ FormCutOff
    BY <1>12 DEF BeginForm, EndForm, FormCutOff
  <1>13. CASE UNCHANGED vars
    BY <1>13 DEF vars
  <1> QED
    BY <1>1, <1>2, <1>3, <1>4, <1>5, <1>6, <1>7, <1>8, <1>9, <1>10, <1>11, <1>12,
       <1>13
    DEF Next

(* Type correctness of the web configuration and the upload.                 *)
THEOREM WebTypeCorrect == Spec => []TypeOK
  BY InitInv, NextTypeOK, PTL DEF Spec

-----------------------------------------------------------------------------
(* A buffer of a taken upload goes behind the ones before, and ends nothing  *)
(* unless it is the last.                                                    *)
LEMMA UpdatedTaken ==
  ASSUME TypeOK, TakenInv, upload.taken, upload.sent < upload.chunks, ~Ignored
  PROVE  /\ Updated(ChunkSize).updateStarted
         /\ Updated(ChunkSize).image = upload.sent + 1
         /\ Updated(ChunkSize).handle =
              IF EndsUpdate(ChunkSize) THEN "ended" ELSE "open"
         /\ Updated(ChunkSize).whole <=>
              upload.valid /\ upload.sent + 1 = upload.chunks
  <1> DEFINE begun == IF ota.updateStarted THEN ota ELSE Begun
             image == IF begun.handle # "open" THEN begun.image
                      ELSE IF begun.image = upload.sent THEN upload.sent + 1
                      ELSE Broken
             whole == begun.whole \/ (/\ begun.handle = "open" /\ upload.valid
                                      /\ image = upload.chunks)
             handle == IF EndsUpdate(ChunkSize) THEN "ended" ELSE begun.handle
  <1>1. begun.handle = "open" /\ begun.image = upload.sent /\ ~begun.whole
    <2>1. CASE upload.sent = 0
      BY <2>1 DEF TakenInv, Begun
    <2>2. CASE upload.sent # 0
      BY <2>2 DEF TakenInv
    <2> QED
      BY <2>1, <2>2
  <1>2. Updated(ChunkSize) = [updateStarted |-> TRUE, handle |-> handle,
                              image |-> image, whole |-> whole]
    BY DEF Updated
  <1>3. image = upload.sent + 1
    BY <1>1
  <1>4. whole <=> upload.valid /\ upload.sent + 1 = upload.chunks
    BY <1>1, <1>3
  <1>5. handle = IF EndsUpdate(ChunkSize) THEN "ended" ELSE "open"
    BY <1>1
  <1> HIDE DEF begun, image, whole, handle
  <1>6. Updated(ChunkSize).whole = whole
    <2>1. \A w, h, i : [updateStarted |-> TRUE, handle |-> h, image |-> i,
                       whole |-> w].whole = w
      OBVIOUS
    <2> QED
      BY <1>2, <2>1, Zenon
  <1> QED
    BY <1>2, <1>3, <1>4, <1>5, <1>6

LEMMA WriteChunkTaken == TypeOK /\ TakenInv /\ WriteChunk => TakenInv'
  <1> SUFFICES ASSUME TypeOK, TakenInv, WriteChunk, upload.taken PROVE TakenInv'
    BY DEF WriteChunk, TypeOK, Uploads, TakenInv
  <1>1. /\ upload.sent \in Nat /\ upload.chunks \in Nat
        /\ upload.sent < upload.chunks
        /\ upload.last \in Sizes
    BY DEF TypeOK, Uploads, WriteChunk, MoreChunks
  <1>2. /\ upload'.sent = upload.sent + 1 /\ upload'.chunks = upload.chunks
        /\ upload'.last = upload.last /\ upload'.valid = upload.valid
        /\ upload'.named = upload.named /\ uptime' = uptime
    BY DEF TypeOK, Uploads, WriteChunk
  <1>3. ~Refused(upload.named) /\ ~Refused(upload.named)'
    BY <1>2 DEF TakenInv, Refused
  <1>4. CASE upload.sent + 1 < upload.chunks
    <2>1. ChunkSize = "full" /\ ~EndsUpdate(ChunkSize) /\ ~Ignored
      BY <1>1, <1>3, <1>4 DEF ChunkSize, EndsUpdate, Ignored
    <2>2. ota' = [updateStarted |-> TRUE, handle |-> "open",
                  image |-> upload.sent + 1, whole |-> FALSE]
      <3>1. ota' = Updated(ChunkSize) /\ Updated(ChunkSize) \in Otas
        BY <1>1, <2>1, UpdatedType, ChunkSizeType DEF WriteChunk, TypeOK
      <3>2. ~Updated(ChunkSize).whole
        BY <1>1, <1>4, <2>1, UpdatedTaken
      <3>3. /\ Updated(ChunkSize).handle = "open" /\ Updated(ChunkSize).updateStarted
            /\ Updated(ChunkSize).image = upload.sent + 1
        BY <1>1, <2>1, UpdatedTaken
      <3> QED
        BY <3>1, <3>2, <3>3 DEF Otas
    <2> QED
      BY <1>1, <1>2, <1>3, <1>4, <2>2 DEF TakenInv
  <1>5. CASE upload.sent + 1 = upload.chunks
    <2> SUFFICES ASSUME upload.valid, upload.last # "full" PROVE FALSE
      BY <1>1, <1>2, <1>3, <1>5 DEF TakenInv
    <2>1. ChunkSize = upload.last /\ ChunkSize = "short"
      BY <1>1, <1>5 DEF ChunkSize, TakenInv, Sizes
    <2>2. EndsUpdate(ChunkSize) /\ ~Ignored
      BY <1>3, <2>1 DEF EndsUpdate, Ignored
    <2>3. Updated(ChunkSize).whole
      BY <1>1, <1>5, <2>2, UpdatedTaken
    <2> QED
      BY <2>2, <2>3 DEF WriteChunk, BootPartitionSet
  <1> QED
    BY <1>1, <1>4, <1>5

LEMMA NextTakenInv == TypeOK /\ TakenInv /\ [Next]_vars => TakenInv'
  <1> SUFFICES ASSUME TypeOK, TakenInv, [Next]_vars PROVE TakenInv'
    OBVIOUS
  <1>1. CASE OtaTimeOutRestart \/ WaitEndsInRestart \/ UpdateCompletes
             \/ UploadAborted \/ OtherRestart
    <2>1. Boot
      BY <1>1 DEF OtaTimeOutRestart, WaitEndsInRestart, UpdateCompletes,
                  UploadAborted, OtherRestart
    <2> QED
      BY <2>1, BootInv
  <1>2. CASE \/ Update \/ NothingToChange \/ WaitEnds
             \/ (\E s \in Settings : Save(s)) \/ NothingSaved \/ RequestRestart
             \/ BeginForm \/ EndForm \/ FormCutOff \/ Tick \/ UNCHANGED vars
    <2>1. UNCHANGED <<ota, upload>>
      BY <1>2 DEF Update, NothingToChange, WaitEnds, Save, NothingSaved,
                  RequestRestart, BeginForm, EndForm, FormCutOff, Tick, vars, otaVars
    <2>2. uptime' \in Nat /\ uptime' >= uptime
      BY <1>2, ConstantsAreNumbers
      DEF TypeOK, Update, NothingToChange, WaitEnds, Save, NothingSaved,
          RequestRestart, BeginForm, EndForm, FormCutOff, Tick, AtMost, vars
    <2> QED
      BY <2>1, <2>2, SameUpload
  <1>3. CASE BeginUpload
    <2>1. PICK chunks \in 1 .. MaxChunks, last \in Sizes, valid \in BOOLEAN,
               named \in BOOLEAN :
            /\ last = "empty" => chunks = 1 /\ ~valid
            /\ upload' = [chunks |-> chunks, last |-> last, valid |-> valid,
                          named |-> named, sent |-> 0,
                          taken |-> ~Refused(named) /\ ~ota.updateStarted]
      BY <1>3 DEF BeginUpload
    <2>2. ota'.updateStarted = ota.updateStarted /\ uptime' = uptime
      BY <1>3 DEF BeginUpload, TypeOK, Otas
    <2>3. /\ upload'.chunks > 0 /\ (upload'.last = "empty" => ~upload'.valid)
          /\ upload'.sent = 0
      BY <2>1, ConstantsAreNumbers
    <2>4. upload'.taken => ~Refused(upload'.named) /\ ~ota.updateStarted
      <3>1. /\ upload'.taken = (~Refused(named) /\ ~ota.updateStarted)
            /\ upload'.named = named
        BY <2>1, Zenon
      <3> QED
        BY <3>1, Zenon
    <2> QED
      BY <2>2, <2>3, <2>4 DEF TakenInv, Refused
  <1>4. CASE WriteChunk
    BY <1>4, WriteChunkTaken
  <1>5. CASE EndUpload \/ UploadIgnored
    BY <1>5, BootValues DEF EndUpload, UploadIgnored, TakenInv
  <1> QED
    BY <1>1, <1>2, <1>3, <1>4, <1>5 DEF Next

(* A valid image that handleOtaUpload accepts after the first minute, when   *)
(* no buffer of an earlier upload has reached the updater of this boot, does *)
(* not end but in the restart of updateFirmware, unless its last buffer is   *)
(* full.                                                                     *)
THEOREM ValidUploadsAreBooted == Spec => UploadTakesEffect
  <1>1. TypeOK /\ TakenInv =>
          (EndUpload => ~(upload.taken /\ upload.valid /\ upload.last # "full"))
    <2> SUFFICES ASSUME TypeOK, TakenInv, EndUpload, upload.taken
                 PROVE  ~(upload.valid /\ upload.last # "full")
      OBVIOUS
    <2>1. upload.sent = upload.chunks /\ upload.sent \in Nat
      BY DEF TypeOK, Uploads, EndUpload, MoreChunks
    <2>2. CASE upload.sent = 0
      BY <2>1, <2>2 DEF TakenInv
    <2>3. CASE upload.sent # 0
      BY <2>1, <2>3 DEF TakenInv
    <2> QED
      BY <2>2, <2>3
  <1> QED
    BY <1>1, InitInv, NextTypeOK, NextTakenInv, PTL DEF Spec, UploadTakesEffect
=============================================================================

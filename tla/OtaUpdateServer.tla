--------------------------- MODULE OtaUpdateServer ---------------------------
(***************************************************************************)
(* Firmware update over HTTP: a host pushes an image (scripts/ota-push.py  *)
(* or OTAHttpTransport), the WebServer hands OtaUpdateServer one event     *)
(* after the other of a multipart upload, and OtaUpdateServer drives the   *)
(* Update library and verifies the target slot, which the library has      *)
(* selected for boot by then.  The power may be cut at any time; the       *)
(* bootloader then picks the slot to run and takes back an image that has  *)
(* not confirmed itself.                                                   *)
(*                                                                         *)
(* WebServer, Update library, bootloader and flash are external.  The      *)
(* WebServer runs the POST handler after the last part of an upload.       *)
(***************************************************************************)
EXTENDS Naturals, Sequences

CONSTANTS
    Images,         \* firmware images
    Signed,         \* those signed with the device's key
    Broken,         \* those that crash in setup()
    Factory,        \* the image the device comes with
    None,
    Blocks,         \* UPLOAD_FILE_WRITE events an image takes
    UploadTimeout   \* UPLOAD_TIMEOUT_MS in ticks

Slots == {"ota_0", "ota_1"}

Foreign == "foreign"      \* a well-formed signature of another key
SigFile == "signature"    \* the part "signature.bin"

\* The words of otaErr_.
Errors == {"SODIUM_NOT_READY", "BAD_SIGNATURE_HEADER", "UPDATE_BEGIN_FAILED",
           "UPDATE_WRITE_FAILED", "UPLOAD_TIMEOUT", "UPDATE_END_FAILED",
           "SIGNATURE_VERIFY_FAILED", "SET_BOOT_PARTITION_FAILED", "UPLOAD_ABORTED"}

\* Images, signatures, errors and status codes are told apart from each other and from None.
ASSUME OtaAssumption ==
    /\ Signed \subseteq Images
    /\ Factory \in Images \ Broken
    /\ Images \cap {Foreign, SigFile} = {}
    /\ None \notin Images \union {Foreign, SigFile} \union Errors
    /\ None \notin {200, 400, 403}
    /\ Blocks \in Nat \ {0}
    /\ UploadTimeout \in Nat

VARIABLES
    flash,       \* what each slot holds
    selected,    \* otadata: the slot to boot and its state
    running,     \* the slot that runs
    phase,       \* where setup() or the handling of a request is
    sodiumReady,
    otaErr,      \* otaErr_, None when empty
    otaSig,      \* otaSig_
    age,         \* time since uploadStartTime_
    update,      \* the Update library: is a session open, hasError()
    parts,       \* parts of the request the WebServer has not handed over
    block,       \* blocks of the current part handed over
    header,      \* X-Firmware-Signature of the request
    host,        \* the pushing program
    pushed,      \* the image it pushes
    answer,      \* status code sent to it and not read
    installed    \* history: the image verified and selected last

flashVars  == <<flash, selected, running>>
serverVars == <<phase, sodiumReady, otaErr, otaSig, age, update>>
httpVars   == <<parts, block, header>>
hostVars   == <<host, pushed, answer>>
vars == <<flashVars, serverVars, httpVars, hostVars, installed>>

-----------------------------------------------------------------------------
(* Flash and bootloader *)

\* Until end() has written the first bytes of an image the slot does not boot.
Content(img, whole) == [img |-> img, whole |-> whole]

Whole(s) == flash[s].whole

\* getNextUpdatePartition.
Other(s) == CHOOSE t \in Slots : t # s

Selected(slot, state) == [slot |-> slot, state |-> state]

NoUpdate == [open |-> FALSE, error |-> FALSE]

\* The slot a restart runs: an image on trial that restarts is taken back, a
\* slot that holds no whole image is passed over.
BootChoice ==
    LET wanted == IF selected.state = "pending" THEN Other(selected.slot) ELSE selected.slot
    IN  IF Whole(wanted) THEN wanted ELSE Other(wanted)

Boot ==
    /\ running' = BootChoice
    /\ selected' = IF selected.state = "new" /\ BootChoice = selected.slot
                   THEN Selected(BootChoice, "pending")
                   ELSE Selected(BootChoice, "valid")
    /\ phase' = "setup"
    /\ sodiumReady' = FALSE
    /\ otaErr' = None /\ otaSig' = None /\ age' = 0
    /\ update' = NoUpdate
    /\ parts' = <<>> /\ block' = 0 /\ header' = None
    /\ UNCHANGED <<flash, installed>>

\* A push in progress loses its connection, what was sent on it perhaps not.
LoseConnection == host' = IF host = "waiting" /\ answer = None THEN "failed" ELSE host

-----------------------------------------------------------------------------
(* Boot: otaMarkValidOnBoot, otaSetup *)

Crash ==
    /\ phase = "setup"
    /\ flash[running].img \in Broken
    /\ Boot /\ LoseConnection
    /\ UNCHANGED <<pushed, answer>>

\* Fault: the state that is looked for is ESP_OTA_IMG_NEW.
MarkNewOnBoot ==
    /\ phase = "setup"
    /\ flash[running].img \notin Broken
    /\ selected' = IF selected.state = "new"
                   THEN Selected(running, "valid") ELSE selected
    /\ sodiumReady' \in BOOLEAN
    /\ phase' = "idle"
    /\ UNCHANGED <<flash, running, otaErr, otaSig, age, update, httpVars, hostVars,
                   installed>>

\* markValidOnBoot, then setup().
MarkValidOnBoot ==
    /\ phase = "setup"
    /\ flash[running].img \notin Broken
    /\ selected' = IF selected.state = "pending"
                   THEN Selected(running, "valid") ELSE selected
    /\ sodiumReady' \in BOOLEAN
    /\ phase' = "idle"
    /\ UNCHANGED <<flash, running, otaErr, otaSig, age, update, httpVars, hostVars,
                   installed>>

-----------------------------------------------------------------------------
(* handleUpload, one event each *)

Fail(err) == otaErr' = err

\* UPLOAD_FILE_START.
UploadStart ==
    /\ phase = "start"
    /\ phase' = "upload"
    /\ age' = 0
    /\ block' = 0
    /\ \/ /\ ~sodiumReady
          /\ Fail("SODIUM_NOT_READY")
          /\ UNCHANGED <<otaSig, update>>
       \/ /\ sodiumReady /\ header = None
          /\ Fail("BAD_SIGNATURE_HEADER")
          /\ UNCHANGED <<otaSig, update>>
       \/ /\ sodiumReady /\ header # None
          /\ otaSig' = header
          /\ \/ Fail("UPDATE_BEGIN_FAILED") /\ UNCHANGED update
             \/ /\ ~update.open
                /\ otaErr' = None
                /\ update' = [open |-> TRUE, error |-> FALSE]
    /\ UNCHANGED <<flashVars, sodiumReady, parts, header, hostVars, installed>>

\* The Update library writes to the slot that does not run; what it refuses
\* ends its session.
WriteBlock ==
    LET target == Other(running)
    IN  \/ /\ flash' = [flash EXCEPT ![target] = Content(Head(parts), FALSE)]
           /\ UNCHANGED <<otaErr, update>>
        \/ /\ Fail("UPDATE_WRITE_FAILED")
           /\ update' = [open |-> FALSE, error |-> TRUE]
           /\ UNCHANGED flash

AbortUpdate == update' = [open |-> FALSE, error |-> TRUE]

\* UPLOAD_FILE_WRITE.
UploadWrite ==
    /\ phase = "upload" /\ block < Blocks
    /\ block' = block + 1
    /\ \/ /\ otaErr # None
          /\ UNCHANGED <<flash, otaErr, update>>
       \/ /\ otaErr = None /\ age > UploadTimeout
          /\ AbortUpdate /\ Fail("UPLOAD_TIMEOUT")
          /\ UNCHANGED flash
       \/ /\ otaErr = None /\ age <= UploadTimeout
          /\ WriteBlock
    /\ UNCHANGED <<selected, running, phase, sodiumReady, otaSig, age, parts, header,
                   hostVars, installed>>

\* The slot once end() has completed the image in it.
Completed == [flash EXCEPT ![Other(running)] = Content(Head(parts), TRUE)]

SelectTarget == selected' = Selected(Other(running), "new")

\* end(true): the library completes the image and sets the boot partition itself.
\* (It never leaves an error behind: the code's UPDATE_ERROR is for nothing.)
EndSucceeds ==
    /\ Head(parts) \in Images
    /\ flash' = Completed
    /\ SelectTarget

\* It may fail before or after it completed the image.
EndFails ==
    /\ Fail("UPDATE_END_FAILED")
    /\ AbortUpdate
    /\ \/ UNCHANGED flash
       \/ Head(parts) \in Images /\ flash' = Completed
    /\ UNCHANGED <<selected, installed>>

\* verifyPartition, but for the reads and digests that may fail.
Verifies == Head(parts) = otaSig

\* abort() undoes nothing of what end() did.
VerifyFails ==
    /\ AbortUpdate
    /\ Fail("SIGNATURE_VERIFY_FAILED")
    /\ UNCHANGED installed

\* setBootPartition, of the slot that is selected already.
SetBoot ==
    \/ installed' = Head(parts) /\ UNCHANGED otaErr
    \/ Fail("SET_BOOT_PARTITION_FAILED") /\ UNCHANGED installed

Finish ==
    \/ EndFails
    \/ EndSucceeds /\ VerifyFails
    \/ /\ EndSucceeds /\ Verifies
       /\ update' = NoUpdate
       /\ SetBoot

\* UPLOAD_FILE_END, and what the WebServer calls next: the next part, or
\* handlePost.
UploadEnd ==
    /\ phase = "upload" /\ block = Blocks
    /\ IF otaErr = None THEN Finish
       ELSE UNCHANGED <<flash, otaErr, update, selected, installed>>
    /\ parts' = Tail(parts)
    /\ phase' = IF Len(parts) > 1 THEN "start" ELSE "post"
    /\ UNCHANGED <<running, sodiumReady, otaSig, age, block, header, hostVars>>

\* UPLOAD_FILE_ABORTED: the connection ends within an upload.
UploadAborted ==
    /\ phase = "upload"
    /\ AbortUpdate
    /\ Fail("UPLOAD_ABORTED")
    /\ parts' = <<>>
    /\ phase' = "idle"
    /\ LoseConnection
    /\ UNCHANGED <<flashVars, sodiumReady, otaSig, age, block, header, pushed, answer,
                   installed>>

\* errorMessage and the words handlePost looks for in it, then httpCode.
HttpCode(err) ==
    IF err \in {"SODIUM_NOT_READY", "BAD_SIGNATURE_HEADER", "SIGNATURE_VERIFY_FAILED"}
    THEN 403 ELSE 400

SendCode(code) == answer' = IF host = "waiting" THEN code ELSE answer

PostFails ==
    /\ SendCode(HttpCode(otaErr))
    /\ phase' = "idle"

PostSucceeds ==
    /\ SendCode(200)
    /\ phase' = "restart"

\* Fault: only the Update library is asked.
PostAsksUpdate ==
    /\ phase = "post"
    /\ IF update.error THEN PostFails ELSE PostSucceeds
    /\ UNCHANGED <<flashVars, sodiumReady, otaErr, otaSig, age, update, httpVars, host,
                   pushed, installed>>

\* Fault: the success callback is not set.
PostNeverRestarts ==
    /\ phase = "post"
    /\ IF otaErr # None \/ update.error THEN PostFails
       ELSE SendCode(200) /\ phase' = "idle"
    /\ UNCHANGED <<flashVars, sodiumReady, otaErr, otaSig, age, update, httpVars, host,
                   pushed, installed>>

\* handlePost.
Post ==
    /\ phase = "post"
    /\ IF otaErr # None \/ update.error THEN PostFails ELSE PostSucceeds
    /\ UNCHANGED <<flashVars, sodiumReady, otaErr, otaSig, age, update, httpVars, host,
                   pushed, installed>>

\* The success callback of otaSetup.
Restart ==
    /\ phase = "restart"
    /\ Boot
    /\ UNCHANGED hostVars

-----------------------------------------------------------------------------
(* Hosts *)

\* What a program sends for an image: ota-push.py a header and one part,
\* OTAHttpTransport two parts and no header, the page of handleGet one part.
Requests(img) ==
    { [header |-> IF img \in Signed THEN img ELSE Foreign, parts |-> <<img>>],
      [header |-> None, parts |-> <<SigFile, img>>],
      [header |-> None, parts |-> <<img>>] }

\* open() fails, or sendAll() before the device has a whole header.
OpenFails(img) ==
    /\ host # "waiting"
    /\ host' = "failed"
    /\ pushed' = img
    /\ answer' = None
    /\ UNCHANGED <<flashVars, serverVars, httpVars, installed>>

Push(img) ==
    /\ host # "waiting" /\ phase = "idle"
    /\ host' = "waiting"
    /\ pushed' = img
    /\ answer' = None
    /\ \E r \in Requests(img) : header' = r.header /\ parts' = r.parts
    /\ block' = 0
    /\ phase' = "start"
    /\ UNCHANGED <<flashVars, sodiumReady, otaErr, otaSig, age, update, installed>>

\* recvResponse and push's test of what it read.
ReadAnswer ==
    /\ host = "waiting" /\ answer # None
    /\ host' = IF answer = 200 THEN "ok" ELSE "failed"
    /\ answer' = None
    /\ UNCHANGED <<flashVars, serverVars, httpVars, pushed, installed>>

\* The deadline of recvIteration, an error of the socket, or the end of the
\* stream before the status: the device may not notice.
GiveUp ==
    /\ host = "waiting"
    /\ host' = "failed"
    /\ answer' = None
    /\ UNCHANGED <<flashVars, serverVars, httpVars, pushed, installed>>

-----------------------------------------------------------------------------
(* Environment *)

Tick ==
    /\ phase = "upload"
    /\ age <= UploadTimeout
    /\ age' = age + 1
    /\ UNCHANGED <<flashVars, phase, sodiumReady, otaErr, otaSig, update, httpVars,
                   hostVars, installed>>

PowerCut ==
    /\ Boot /\ LoseConnection
    /\ UNCHANGED <<pushed, answer>>

-----------------------------------------------------------------------------

Init ==
    /\ flash \in [Slots -> {Content(Factory, TRUE), Content(None, FALSE)}]
    /\ running \in Slots
    /\ flash[running] = Content(Factory, TRUE)
    /\ selected = Selected(running, "valid")
    /\ phase = "setup"
    /\ sodiumReady = FALSE
    /\ otaErr = None /\ otaSig = None /\ age = 0
    /\ update = NoUpdate
    /\ parts = <<>> /\ block = 0 /\ header = None
    /\ host = "idle" /\ pushed = None /\ answer = None
    /\ installed = None

Device ==
    \/ MarkValidOnBoot \/ Crash
    \/ UploadStart \/ UploadWrite \/ UploadEnd
    \/ Post \/ Restart

Next ==
    \/ Device
    \/ UploadAborted
    \/ \E img \in Images : Push(img) \/ OpenFails(img)
    \/ ReadAnswer \/ GiveUp \/ Tick \/ PowerCut

\* The loop task runs as long as there is power.
Spec == Init /\ [][Next]_vars /\ WF_vars(Device)

-----------------------------------------------------------------------------
(* Properties *)

\* Every variable has its type.
TypeOK ==
    /\ flash \in [Slots -> [img : Images \union {None, SigFile}, whole : BOOLEAN]]
    /\ selected \in [slot : Slots, state : {"valid", "new", "pending"}]
    /\ running \in Slots
    /\ phase \in {"setup", "idle", "start", "upload", "post", "restart"}
    /\ sodiumReady \in BOOLEAN
    /\ otaErr \in Errors \union {None}
    /\ otaSig \in Images \union {Foreign, None}
    /\ header \in Images \union {Foreign, None}
    /\ age \in 0..(UploadTimeout + 1)
    /\ update \in [open : BOOLEAN, error : BOOLEAN]
    /\ parts \in Seq(Images \union {SigFile}) /\ block \in 0..Blocks
    /\ host \in {"idle", "waiting", "ok", "failed"}
    /\ answer \in {None, 200, 400, 403}
    /\ pushed \in Images \union {None} /\ installed \in Images \union {None, SigFile}

\* A program that reports success pushed the image that was verified and selected
\* for boot last: handlePost sees the error of every event.
SuccessIsInstalled ==
    host = "ok" => installed = pushed /\ pushed \in Signed

\* No session of the Update library outlives its request: the next upload can
\* begin, whatever ended the one before.
SessionsEnd ==
    update.open => phase = "upload" /\ otaErr = None

\* The safety of an update, with its types.
UpdateSafe == TypeOK /\ SuccessIsInstalled /\ SessionsEnd

\* Through aborted, failed and refused uploads and power cuts, the device only ever
\* runs, and would only ever run next, whole images, a new one on trial until
\* markValidOnBoot, and the one before it while the trial lasts: it implements
\* BootSlots.
ImageOf(s) == IF Whole(s) THEN flash[s].img ELSE None

Stage == IF selected.state = "new" /\ Whole(selected.slot) THEN "accepted"
         ELSE IF selected.state = "pending" THEN "trial" ELSE "steady"

Boots == INSTANCE BootSlots WITH
    stage <- Stage,
    runs <- ImageOf(running),
    next <- ImageOf(BootChoice)

ImplementsBootSlots == Boots!Spec

\* An image that was verified and selected gets its trial: the device restarts into
\* it by itself, or is restarted before that.
AcceptedIsTried ==
    phase = "post" /\ otaErr = None ~> selected.state = "pending"

-----------------------------------------------------------------------------
(* What the repository says of this component, and the device does not do *)

\* handleUpload: "finalize + verify signature + select boot partition".  The
\* Update library selects when it finalizes, and a verification that fails leaves
\* the slot selected.
SelectedIsVerified ==
    selected.state = "new" /\ Whole(selected.slot) =>
        flash[selected.slot].img = installed
=============================================================================

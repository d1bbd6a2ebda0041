------------------------ MODULE OtaUpdateServerProofs ------------------------
(***************************************************************************)
(* What holds of OtaUpdateServer for every set of images and every length  *)
(* of an upload: the safety of an update, and that the device implements   *)
(* the two-slot update of BootSlots.                                       *)
(***************************************************************************)
EXTENDS OtaUpdateServer, TLAPS

\* What runs is a whole firmware image.  The selected slot is the one that runs,
\* but for an image that is to be tried: that one is in the other slot, unless
\* another upload is overwriting it.  During a trial, which ends within setup(), the
\* other slot holds the image to go back to.
SlotsInv ==
    /\ Whole(running)
    /\ \A s \in Slots : Whole(s) => flash[s].img \in Images
    /\ selected.state # "new" => selected.slot = running
    /\ selected.state = "new" =>
          /\ selected.slot = Other(running)
          /\ phase # "setup"
    /\ selected.state = "pending" =>
          /\ phase = "setup"
          /\ Whole(Other(running))

\* A restart would run what runs: nothing is selected, or what is has been partly
\* overwritten.
Steady == selected.state = "valid" \/ (selected.state = "new" /\ ~Whole(Other(running)))

\* A request with a signature has one part, the image the signature is for, and
\* is that of the program that waits; otaSig_ is its signature while otaErr_ is
\* empty, and what a good upload writes to does not boot before its end.
RequestInv ==
    /\ phase \in {"start", "upload"} => parts # <<>>
    /\ phase \in {"start", "upload"} /\ header # None =>
          /\ Len(parts) = 1
          /\ header \in Signed \union {Foreign}
          /\ header \in Signed /\ host = "waiting" => header = pushed
    /\ phase = "upload" /\ otaErr = None => header # None /\ otaSig = header
    /\ phase = "upload" /\ otaErr = None /\ block # 0 => ~Whole(Other(running))
    /\ phase = "post" /\ otaErr = None =>
          /\ installed \in Signed
          /\ host = "waiting" => installed = pushed

\* The program waits for the request under way; an answer comes at the end of it,
\* and 200 only of an update that was installed.
HostInv ==
    /\ host = "waiting" /\ answer = None => phase \in {"start", "upload", "post"}
    /\ answer # None => host = "waiting" /\ phase \in {"idle", "restart", "setup"}
    /\ answer = 200 => installed = pushed /\ pushed \in Signed
    /\ host = "ok" => phase \notin {"start", "upload", "post"}

IInv == UpdateSafe /\ SlotsInv /\ RequestInv /\ HostInv

-----------------------------------------------------------------------------

\* There are two slots: getNextUpdatePartition is the other one.
LEMMA TwoSlots ==
    ASSUME NEW s \in Slots
    PROVE  /\ Other(s) \in Slots
           /\ Other(s) # s
           /\ Other(Other(s)) = s
           /\ \A t \in Slots : t = s \/ t = Other(s)
BY DEF Other, Slots

\* The bootloader finds what it wants whole.
LEMMA Choice ==
    TypeOK /\ SlotsInv =>
        BootChoice = IF Steady THEN running ELSE Other(running)
BY TwoSlots DEF TypeOK, SlotsInv, BootChoice, Steady

\* What a boot leaves of the server's state has its type.
LEMMA Cleared ==
    /\ 0 \in 0..Blocks /\ 0 \in 0..(UploadTimeout + 1)
    /\ <<>> \in Seq(Images \union {SigFile})
    /\ NoUpdate \in [open : BOOLEAN, error : BOOLEAN]
BY OtaAssumption DEF NoUpdate

\* So has what an upload makes of the Update library.
LEMMA Sessions ==
    /\ [open |-> TRUE, error |-> FALSE] \in [open : BOOLEAN, error : BOOLEAN]
    /\ [open |-> FALSE, error |-> TRUE] \in [open : BOOLEAN, error : BOOLEAN]
OBVIOUS

\* Writing to a slot keeps the type of the flash.
LEMMA FlashType ==
    ASSUME TypeOK, NEW held \in [img : Images \union {None, SigFile}, whole : BOOLEAN],
           flash' = flash \/ flash' = [flash EXCEPT ![Other(running)] = held]
    PROVE  flash' \in [Slots -> [img : Images \union {None, SigFile}, whole : BOOLEAN]]
<1> DEFINE T == [img : Images \union {None, SigFile}, whole : BOOLEAN]
<1>1. flash \in [Slots -> T] /\ held \in T
  BY DEF TypeOK
<1> HIDE DEF T
<1>2. flash' \in [Slots -> T]
  BY <1>1
<1> QED
  BY <1>2 DEF T

LEMMA InitIInv == Init => IInv
<1> SUFFICES ASSUME Init PROVE IInv
  OBVIOUS
<1> USE OtaAssumption
<1>1. TypeOK
  <2>1. flash \in [Slots -> [img : Images \union {None, SigFile}, whole : BOOLEAN]]
    <3> DEFINE T == [img : Images \union {None, SigFile}, whole : BOOLEAN]
               a == Content(Factory, TRUE)
               b == Content(None, FALSE)
    <3>1. a \in T /\ b \in T
      BY DEF Content
    <3>2. flash \in [Slots -> {a, b}]
      BY DEF Init
    <3> HIDE DEF T, a, b
    <3>3. flash \in [Slots -> T]
      BY <3>1, <3>2
    <3> QED
      BY <3>3 DEF T
  <2>2. selected \in [slot : Slots, state : {"valid", "new", "pending"}]
    BY DEF Init, Selected
  <2> QED
    BY <2>1, <2>2, Cleared DEF Init, TypeOK
<1>2. SlotsInv
  BY DEF Init, SlotsInv, Content, Selected, NoUpdate, Whole
<1>3. RequestInv /\ HostInv /\ SuccessIsInstalled /\ SessionsEnd
  BY DEF Init, RequestInv, HostInv, SuccessIsInstalled, SessionsEnd, NoUpdate
<1> QED
  BY <1>1, <1>2, <1>3 DEF IInv, UpdateSafe

\* A restart, wanted or not: Boot with what becomes of the program that waits.
LEMMA BootStep ==
    ASSUME IInv, Boot, LoseConnection \/ UNCHANGED host, UNCHANGED <<pushed, answer>>,
           phase = "restart" \/ LoseConnection
    PROVE  IInv'
<1> USE OtaAssumption
<1>1. /\ running \in Slots /\ Other(running) \in Slots
      /\ Other(running) # running /\ Other(Other(running)) = running
      /\ selected.state \in {"valid", "new", "pending"}
  BY TwoSlots DEF IInv, UpdateSafe, TypeOK
<1>2. BootChoice = IF Steady THEN running ELSE Other(running)
  BY Choice DEF IInv, UpdateSafe
<1>3. /\ running' = IF Steady THEN running ELSE Other(running)
      /\ selected' = IF selected.state = "new" /\ ~Steady
                     THEN [slot |-> running', state |-> "pending"]
                     ELSE [slot |-> running', state |-> "valid"]
  BY <1>1, <1>2 DEF Boot, Selected, IInv, SlotsInv
<1>4. TypeOK'
  <2>1. selected' \in [slot : Slots, state : {"valid", "new", "pending"}]
    BY <1>1, <1>3
  <2>2. /\ host' \in {"idle", "waiting", "ok", "failed"}
        /\ UNCHANGED <<flash, installed, pushed, answer>>
        /\ running' \in Slots
    BY <1>1, <1>3 DEF IInv, UpdateSafe, TypeOK, Boot, LoseConnection
  <2>3. /\ phase' = "setup"
        /\ otaErr' = None /\ otaSig' = None /\ header' = None
        /\ age' = 0 /\ block' = 0 /\ update' = NoUpdate /\ parts' = <<>>
    BY DEF Boot
  <2>4. sodiumReady' \in BOOLEAN
    BY DEF Boot
  <2> QED
    BY <2>1, <2>2, <2>3, <2>4, Cleared DEF IInv, UpdateSafe, TypeOK
<1>5. SlotsInv'
  BY <1>1, <1>3 DEF IInv, UpdateSafe, TypeOK, SlotsInv, Boot, Whole, Steady
<1>6. RequestInv' /\ SessionsEnd'
  BY DEF Boot, RequestInv, SessionsEnd, NoUpdate
<1>7. HostInv' /\ SuccessIsInstalled'
  BY DEF IInv, UpdateSafe, TypeOK, Boot, HostInv, SuccessIsInstalled, LoseConnection
<1> QED
  BY <1>4, <1>5, <1>6, <1>7 DEF IInv, UpdateSafe

\* What UPLOAD_FILE_END does to flash and otadata: nothing, or the image in the
\* target slot is completed, and perhaps selected.
Ended ==
    \/ flash' = flash /\ selected' = selected
    \/ /\ Head(parts) \in Images
       /\ flash' = Completed
       /\ SelectTarget \/ selected' = selected

\* The slots stay in order.
LEMMA EndStep ==
    ASSUME TypeOK, SlotsInv, UploadEnd, Ended, selected.state # "pending",
           parts' \in Seq(Images \union {SigFile}),
           phase' \in {"start", "post"},
           otaErr' \in Errors \union {None},
           installed' \in Images \union {None, SigFile},
           update' \in [open : BOOLEAN, error : BOOLEAN]
    PROVE  TypeOK' /\ SlotsInv'
<1> USE OtaAssumption
<1>0. /\ running \in Slots /\ Other(running) \in Slots /\ Other(running) # running
      /\ \A s \in Slots : s = running \/ s = Other(running)
  BY TwoSlots DEF TypeOK
<1>1. flash' \in [Slots -> [img : Images \union {None, SigFile}, whole : BOOLEAN]]
  <2> DEFINE held == Content(Head(parts), TRUE)
  <2>1. CASE Head(parts) \in Images
    <3>1. held \in [img : Images \union {None, SigFile}, whole : BOOLEAN]
      BY <2>1 DEF Content
    <3>2. flash' = flash \/ flash' = [flash EXCEPT ![Other(running)] = held]
      BY DEF Ended, Completed
    <3> HIDE DEF held
    <3> QED
      BY <3>1, <3>2, FlashType
  <2>2. CASE Head(parts) \notin Images
    BY <2>2 DEF Ended, TypeOK
  <2> QED
    BY <2>1, <2>2
<1>2. /\ selected' \in [slot : Slots, state : {"valid", "new", "pending"}]
      /\ selected' = selected \/ selected' = [slot |-> Other(running), state |-> "new"]
  BY <1>0 DEF Ended, SelectTarget, Selected, TypeOK
<1>3. sodiumReady' \in BOOLEAN
  BY DEF UploadEnd, TypeOK
<1>4. TypeOK'
  BY <1>1, <1>2, <1>3 DEF UploadEnd, TypeOK, hostVars
<1>5. \A s \in Slots : flash'[s] = flash[s]
                        \/ /\ s = Other(running) /\ flash'[s].whole
                           /\ flash'[s].img \in Images
  <2>1. CASE flash' = flash
    BY <2>1
  <2>2. CASE Head(parts) \in Images /\ flash' = Completed
    BY <2>2 DEF Completed, Content, TypeOK
  <2> QED
    BY <2>1, <2>2 DEF Ended
<1>6. running' = running /\ Other(running)' = Other(running)
  BY DEF UploadEnd, Other
<1>7. Whole(running)' /\ \A s \in Slots : Whole(s)' => flash'[s].img \in Images
  BY <1>0, <1>5, <1>6 DEF SlotsInv, Whole
<1> QED
  BY <1>0, <1>2, <1>4, <1>6, <1>7 DEF SlotsInv

LEMMA DeviceStep == IInv /\ Device => IInv'
<1> SUFFICES ASSUME IInv, Device PROVE IInv'
  OBVIOUS
<1> USE OtaAssumption
<1>0. /\ TypeOK /\ SuccessIsInstalled /\ SessionsEnd
      /\ SlotsInv /\ RequestInv /\ HostInv
      /\ Other(running) \in Slots /\ Other(running) # running
  BY TwoSlots DEF IInv, UpdateSafe, TypeOK
<1>1. CASE Crash
  BY <1>1, BootStep DEF Crash
<1>2. CASE Restart
  BY <1>2, BootStep DEF Restart, hostVars
<1>3. CASE MarkValidOnBoot
  <2>1. TypeOK'
    BY <1>0, <1>3 DEF MarkValidOnBoot, TypeOK, Selected, httpVars, hostVars
  <2>2. SlotsInv'
    BY <1>0, <1>3 DEF MarkValidOnBoot, TypeOK, SlotsInv, Selected, Whole, Other
  <2>3. SuccessIsInstalled' /\ SessionsEnd' /\ RequestInv' /\ HostInv'
    BY <1>0, <1>3 DEF MarkValidOnBoot, SuccessIsInstalled, SessionsEnd, RequestInv, HostInv,
                      httpVars, hostVars
  <2> QED
    BY <2>1, <2>2, <2>3 DEF IInv, UpdateSafe
<1>4. CASE UploadStart
  <2>1. ~update.open
    BY <1>0, <1>4 DEF UploadStart, SessionsEnd
  <2>2. TypeOK'
    <3>1. sodiumReady' \in BOOLEAN
      BY <1>0, <1>4 DEF UploadStart, TypeOK
    <3>2. update' \in [open : BOOLEAN, error : BOOLEAN]
      <4>1. update' = update \/ update' = [open |-> TRUE, error |-> FALSE]
        BY <1>4 DEF UploadStart
      <4>2. update \in [open : BOOLEAN, error : BOOLEAN]
        BY <1>0 DEF TypeOK
      <4> QED
        BY <4>1, <4>2, Sessions
    <3>3. otaErr' \in Errors \union {None}
      BY <1>4 DEF UploadStart, Errors, Fail
    <3> QED
      BY <1>0, <1>4, <3>1, <3>2, <3>3, Cleared DEF UploadStart, TypeOK, flashVars, hostVars
  <2>3. SlotsInv'
    BY <1>0, <1>4, <2>1 DEF UploadStart, SlotsInv, Whole, Other, flashVars, hostVars
  <2>4. SuccessIsInstalled' /\ SessionsEnd' /\ RequestInv' /\ HostInv'
    BY <1>0, <1>4, <2>1 DEF UploadStart, Fail, Errors, SuccessIsInstalled, SessionsEnd, RequestInv,
                      HostInv, hostVars
  <2> QED
    BY <2>2, <2>3, <2>4 DEF IInv, UpdateSafe
<1>5. CASE UploadWrite
  <2>0. selected.state # "pending" /\ Len(parts) # 0
    BY <1>0, <1>5 DEF UploadWrite, SlotsInv, RequestInv, TypeOK
  <2>1. Head(parts) \in Images \union {SigFile} /\ block + 1 \in 0..Blocks
    BY <1>0, <1>5 DEF UploadWrite, RequestInv, TypeOK
  <2>2. flash' = flash \/ flash' = [flash EXCEPT ![Other(running)] = Content(Head(parts), FALSE)]
    BY <1>5 DEF UploadWrite, WriteBlock
  <2>3. TypeOK'
    <3>1. Content(Head(parts), FALSE)
             \in [img : Images \union {None, SigFile}, whole : BOOLEAN]
      BY <2>1 DEF Content
    <3>2. flash' \in [Slots -> [img : Images \union {None, SigFile}, whole : BOOLEAN]]
      BY <1>0, <2>2, <3>1, FlashType
    <3>3. otaErr' \in Errors \union {None}
      BY <1>0, <1>5 DEF UploadWrite, WriteBlock, Content, AbortUpdate, Fail, Errors, TypeOK
    <3>4. update' \in [open : BOOLEAN, error : BOOLEAN]
      <4>1. update' = update \/ update' = [open |-> FALSE, error |-> TRUE]
        BY <1>5 DEF UploadWrite, WriteBlock, AbortUpdate
      <4>2. update \in [open : BOOLEAN, error : BOOLEAN]
        BY <1>0 DEF TypeOK
      <4> QED
        BY <4>1, <4>2, Sessions
    <3>5. sodiumReady' \in BOOLEAN
      BY <1>0, <1>5 DEF UploadWrite, TypeOK
    <3> QED
      BY <1>0, <1>5, <2>1, <3>2, <3>3, <3>4, <3>5 DEF UploadWrite, TypeOK, hostVars
  <2>4. SlotsInv'
    <3>1. /\ flash'[running] = flash[running]
          /\ \A s \in Slots : flash'[s] = flash[s] \/ ~flash'[s].whole
      BY <1>0, <2>2 DEF TypeOK, Content
    <3>2. /\ running' = running /\ selected' = selected /\ phase' = phase
          /\ Other(running)' = Other(running)
      BY <1>5 DEF UploadWrite, Other
    <3> QED
      BY <1>0, <2>0, <3>1, <3>2 DEF TypeOK, SlotsInv, Whole
  <2>5. SuccessIsInstalled' /\ SessionsEnd' /\ HostInv'
    BY <1>0, <1>5 DEF UploadWrite, WriteBlock, Content, AbortUpdate, Fail, Errors,
                      SuccessIsInstalled, SessionsEnd, HostInv, hostVars
  <2>6. RequestInv'
    <3>1. otaErr' = None => otaErr = None /\ ~Whole(Other(running))'
      <4>1. otaErr' = None => /\ otaErr = None
                              /\ flash' = [flash EXCEPT ![Other(running)] = Content(Head(parts), FALSE)]
        BY <1>0, <1>5 DEF UploadWrite, WriteBlock, Content, Fail, Errors, TypeOK
      <4>2. running' = running
        BY <1>5 DEF UploadWrite
      <4> QED
        BY <1>0, <4>1, <4>2 DEF TypeOK, Whole, Content, Other
    <3> QED
      BY <1>0, <1>5, <3>1 DEF UploadWrite, RequestInv, hostVars
  <2> QED
    BY <2>3, <2>4, <2>5, <2>6 DEF IInv, UpdateSafe
<1>6. CASE UploadEnd
  <2>0. selected.state # "pending" /\ (otaErr = None => header # None /\ Len(parts) = 1)
    BY <1>0, <1>6 DEF UploadEnd, SlotsInv, RequestInv, TypeOK
  <2>1. /\ parts # <<>> /\ parts' = Tail(parts) /\ parts' \in Seq(Images \union {SigFile})
        /\ Len(parts) > 1 => parts' # <<>>
    <3>1. /\ parts # <<>> /\ parts' = Tail(parts)
          /\ parts \in Seq(Images \union {SigFile})
      BY <1>0, <1>6 DEF UploadEnd, RequestInv, TypeOK
    <3>2. /\ Len(parts) \in Nat /\ Len(parts) # 0
          /\ Tail(parts) \in Seq(Images \union {SigFile}) /\ Len(Tail(parts)) = Len(parts) - 1
      BY <3>1
    <3>3. Len(parts) > 1 => Tail(parts) # <<>>
      <4>1. Len(<<>>) = 0
        OBVIOUS
      <4>2. Len(parts) > 1 => Len(Tail(parts)) # 0
        <5> DEFINE a == Len(parts)  b == Len(Tail(parts))
        <5>1. a \in Nat /\ b = a - 1
          BY <3>2
        <5> HIDE DEF a, b
        <5>2. a > 1 => b # 0
          BY <5>1
        <5> QED BY <5>2 DEF a, b
      <4> QED
        BY <4>1, <4>2
    <3> QED
      BY <3>1, <3>2, <3>3
  <2>2. CASE /\ otaErr = None /\ otaErr' = None /\ update' = NoUpdate
             /\ EndSucceeds /\ Verifies
             /\ installed' = Head(parts)
    <3>1. installed' \in Signed /\ installed' = header
      <4>1. otaSig = header /\ header \in Signed \union {Foreign}
        BY <1>0, <1>6, <2>0, <2>2 DEF UploadEnd, RequestInv
      <4>2. Head(parts) \in Images
        BY <2>2 DEF EndSucceeds
      <4> QED
        BY <2>2, <4>1, <4>2 DEF Verifies, Foreign, SigFile
    <3>2. phase' = "post"
      <4>1. phase' = IF Len(parts) > 1 THEN "start" ELSE "post"
        BY <1>6 DEF UploadEnd
      <4>2. Len(parts) = 1
        BY <2>0, <2>2
      <4> HIDE <2>2
      <4> QED
        BY <4>1, <4>2
    <3>3. Ended
      BY <2>2 DEF EndSucceeds, Ended
    <3>4. update' \in [open : BOOLEAN, error : BOOLEAN] /\ ~update'.open
      BY <2>2 DEF NoUpdate
    <3>5. TypeOK' /\ SlotsInv'
      BY <1>0, <1>6, <2>0, <2>1, <2>2, <3>1, <3>2, <3>3, <3>4, EndStep
    <3>6. SuccessIsInstalled' /\ SessionsEnd' /\ RequestInv' /\ HostInv'
      BY <1>0, <1>6, <2>0, <2>2, <3>1, <3>2
      DEF UploadEnd, SuccessIsInstalled, SessionsEnd, RequestInv, HostInv, NoUpdate, hostVars
    <3> QED
      BY <3>5, <3>6 DEF IInv, UpdateSafe
  <2>3. CASE /\ otaErr' \in Errors /\ UNCHANGED installed
             /\ update' \in [open : BOOLEAN, error : BOOLEAN] /\ ~update'.open
             /\ Ended
    <3>1. otaErr' # None
      BY <2>3 DEF Errors
    <3>2. phase' \in {"start", "post"} /\ (phase' = "start" => Len(parts) > 1)
      BY <1>6 DEF UploadEnd
    <3>3. TypeOK' /\ SlotsInv'
      BY <1>0, <1>6, <2>0, <2>1, <2>3, <3>2, EndStep DEF TypeOK
    <3>4. SuccessIsInstalled' /\ SessionsEnd' /\ RequestInv' /\ HostInv'
      BY <1>0, <1>6, <2>0, <2>1, <2>3, <3>1, <3>2
      DEF UploadEnd, SuccessIsInstalled, SessionsEnd, RequestInv, HostInv, hostVars
    <3> QED
      BY <3>3, <3>4 DEF IInv, UpdateSafe
  <2> QED
    <3>1. CASE otaErr # None
      BY <1>0, <1>6, <2>3, <3>1 DEF UploadEnd, SessionsEnd, TypeOK, Ended
    <3>2. CASE otaErr = None /\ (EndFails \/ (EndSucceeds /\ VerifyFails))
      <4>1. update' = [open |-> FALSE, error |-> TRUE] /\ UNCHANGED installed
        BY <3>2 DEF EndFails, VerifyFails, AbortUpdate
      <4>2. otaErr' \in Errors
        BY <3>2 DEF EndFails, VerifyFails, Fail, Errors
      <4>3. update' \in [open : BOOLEAN, error : BOOLEAN] /\ ~update'.open
        BY <4>1, Sessions
      <4>4. Ended
        BY <3>2 DEF EndFails, EndSucceeds, Ended
      <4> QED BY <2>3, <4>1, <4>2, <4>3, <4>4
    <3>3. CASE otaErr = None /\ EndSucceeds /\ Verifies /\ update' = NoUpdate /\ SetBoot
      <4>1. NoUpdate \in [open : BOOLEAN, error : BOOLEAN] /\ ~NoUpdate.open
        BY DEF NoUpdate
      <4>2. Ended
        BY <3>3 DEF EndSucceeds, Ended
      <4> QED
        BY <2>2, <2>3, <3>3, <4>1, <4>2 DEF SetBoot, Fail, Errors
    <3> QED
      BY <1>6, <3>1, <3>2, <3>3 DEF UploadEnd, Finish
<1>7. CASE Post
  <2>0. sodiumReady' \in BOOLEAN
    BY <1>0, <1>7 DEF Post, TypeOK
  <2>1. TypeOK'
    BY <1>0, <1>7, <2>0 DEF Post, PostFails, PostSucceeds, SendCode, HttpCode, TypeOK, flashVars, httpVars
  <2>2. SlotsInv'
    BY <1>0, <1>7 DEF Post, PostFails, PostSucceeds, SlotsInv, Whole, Other, flashVars, TypeOK
  <2>3. SuccessIsInstalled' /\ SessionsEnd' /\ RequestInv' /\ HostInv'
    BY <1>0, <1>7 DEF Post, PostFails, PostSucceeds, SendCode, HttpCode, TypeOK, SuccessIsInstalled,
                      SessionsEnd, RequestInv, HostInv, flashVars, httpVars
  <2> QED
    BY <2>1, <2>2, <2>3 DEF IInv, UpdateSafe
<1> QED
  BY <1>1, <1>2, <1>3, <1>4, <1>5, <1>6, <1>7 DEF Device

LEMMA OutsideStep ==
    IInv /\ (UploadAborted \/ (\E img \in Images : Push(img) \/ OpenFails(img))
             \/ ReadAnswer \/ GiveUp \/ Tick \/ PowerCut \/ UNCHANGED vars)
        => IInv'
<1> SUFFICES ASSUME IInv,
                    UploadAborted \/ (\E img \in Images : Push(img) \/ OpenFails(img))
                       \/ ReadAnswer \/ GiveUp \/ Tick \/ PowerCut \/ UNCHANGED vars
             PROVE  IInv'
  OBVIOUS
<1> USE OtaAssumption
<1>0. /\ TypeOK /\ SuccessIsInstalled /\ SessionsEnd
      /\ SlotsInv /\ RequestInv /\ HostInv
  BY DEF IInv, UpdateSafe
<1>1. CASE UploadAborted
  <2>1. TypeOK'
    <3>1. sodiumReady' \in BOOLEAN
      BY <1>0, <1>1 DEF UploadAborted, TypeOK
    <3>2. update' \in [open : BOOLEAN, error : BOOLEAN] /\ otaErr' \in Errors \union {None}
      BY <1>1, Sessions DEF UploadAborted, AbortUpdate, Fail, Errors
    <3> QED
      BY <1>0, <1>1, <3>1, <3>2, Cleared DEF UploadAborted, LoseConnection, TypeOK, flashVars
  <2>2. SlotsInv'
    BY <1>0, <1>1 DEF UploadAborted, SlotsInv, Whole, Other, flashVars
  <2>3. SuccessIsInstalled' /\ SessionsEnd' /\ RequestInv' /\ HostInv'
    BY <1>0, <1>1 DEF UploadAborted, AbortUpdate, Fail, Errors, LoseConnection, TypeOK,
                      SuccessIsInstalled, SessionsEnd, RequestInv, HostInv, flashVars
  <2> QED
    BY <2>1, <2>2, <2>3 DEF IInv, UpdateSafe
<1>2. ASSUME NEW img \in Images, Push(img) PROVE IInv'
  <2>1. PICK r \in Requests(img) : header' = r.header /\ parts' = r.parts
    BY <1>2 DEF Push
  <2>2. /\ parts' \in Seq(Images \union {SigFile}) /\ parts' # <<>>
        /\ header' \in Images \union {Foreign, None}
        /\ header' # None => /\ Len(parts') = 1
                             /\ header' \in Signed \union {Foreign}
                             /\ header' \in Signed => header' = img
    <3>1. /\ <<img>> \in Seq(Images \union {SigFile}) /\ Len(<<img>>) = 1 /\ <<img>> # <<>>
          /\ <<SigFile, img>> \in Seq(Images \union {SigFile}) /\ <<SigFile, img>> # <<>>
      OBVIOUS
    <3> QED
      <4>1. CASE r = [header |-> IF img \in Signed THEN img ELSE Foreign, parts |-> <<img>>]
        <5>1. header' = IF img \in Signed THEN img ELSE Foreign
          BY <2>1, <4>1
        <5>2. parts' = <<img>>
          BY <2>1, <4>1
        <5> QED
          BY <3>1, <5>1, <5>2 DEF Foreign
      <4>2. CASE r = [header |-> None, parts |-> <<SigFile, img>>]
        BY <2>1, <3>1, <4>2
      <4>3. CASE r = [header |-> None, parts |-> <<img>>]
        BY <2>1, <3>1, <4>3
      <4> QED
        BY <4>1, <4>2, <4>3 DEF Requests
  <2>3. TypeOK'
    BY <1>0, <1>2, <2>2, Cleared DEF Push, TypeOK, flashVars
  <2>4. SlotsInv'
    BY <1>0, <1>2 DEF Push, SlotsInv, Whole, Other, flashVars
  <2>5. SuccessIsInstalled' /\ SessionsEnd' /\ RequestInv' /\ HostInv'
    BY <1>0, <1>2, <2>2 DEF Push, SuccessIsInstalled, SessionsEnd, RequestInv, HostInv, flashVars
  <2> QED
    BY <2>3, <2>4, <2>5 DEF IInv, UpdateSafe
<1>3. ASSUME NEW img \in Images, OpenFails(img) PROVE IInv'
  BY <1>0, <1>3 DEF OpenFails, IInv, UpdateSafe, TypeOK, SlotsInv, Whole, Other, SuccessIsInstalled,
                    SessionsEnd, RequestInv, HostInv, flashVars, serverVars, httpVars
<1>4. CASE ReadAnswer
  BY <1>0, <1>4 DEF ReadAnswer, IInv, UpdateSafe, TypeOK, SlotsInv, Whole, Other, SuccessIsInstalled,
                    SessionsEnd, RequestInv, HostInv, flashVars, serverVars, httpVars
<1>5. CASE GiveUp
  BY <1>0, <1>5 DEF GiveUp, IInv, UpdateSafe, TypeOK, SlotsInv, Whole, Other, SuccessIsInstalled,
                    SessionsEnd, RequestInv, HostInv, flashVars, serverVars, httpVars
<1>6. CASE Tick
  <2>1. age' \in 0..(UploadTimeout + 1)
    BY <1>0, <1>6 DEF Tick, TypeOK
  <2> QED
    BY <1>0, <1>6, <2>1 DEF Tick, IInv, UpdateSafe, TypeOK, SlotsInv, Whole, Other,
                    SuccessIsInstalled, SessionsEnd, RequestInv, HostInv, flashVars, httpVars, hostVars
<1>7. CASE PowerCut
  BY <1>7, BootStep DEF PowerCut
<1>8. CASE UNCHANGED vars
  BY <1>0, <1>8 DEF IInv, UpdateSafe, TypeOK, SlotsInv, Whole, Other, SuccessIsInstalled,
                    SessionsEnd, RequestInv, HostInv, vars, flashVars, serverVars, httpVars, hostVars
<1> QED
  BY <1>1, <1>2, <1>3, <1>4, <1>5, <1>6, <1>7, <1>8

LEMMA Invariance == Spec => []IInv
<1>1. IInv /\ [Next]_vars => IInv'
  BY DeviceStep, OutsideStep DEF Next
<1> QED
  BY InitIInv, <1>1, PTL DEF Spec

\* A program that reports success pushed a signed image, the one that was
\* selected for boot last, and no session of the Update library outlives its
\* upload: what handlePost answers and handleUpload leaves, for every image,
\* length and interruption of an upload.
THEOREM UpdateHolds == Spec => []UpdateSafe
<1>1. IInv => UpdateSafe
  BY DEF IInv
<1> QED
  BY Invariance, <1>1, PTL

-----------------------------------------------------------------------------
(* Every step is one of BootSlots, or none that it sees. *)

\* What BootSlots sees, beside Stage.
Runs == ImageOf(running)

NextImage == ImageOf(BootChoice)

\* What it sees under the invariant.
LEMMA Seen ==
    IInv => /\ running \in Slots /\ Other(running) \in Slots /\ Other(running) # running
            /\ selected.state \in {"valid", "new", "pending"}
            /\ Runs = flash[running].img /\ Runs \in Images
            /\ NextImage = IF Steady THEN flash[running].img
                           ELSE flash[Other(running)].img
            /\ NextImage \in Images
            /\ Stage = IF selected.state = "pending" THEN "trial"
                       ELSE IF Steady THEN "steady" ELSE "accepted"
<1> SUFFICES ASSUME IInv
             PROVE  /\ running \in Slots /\ Other(running) \in Slots /\ Other(running) # running
                    /\ selected.state \in {"valid", "new", "pending"}
                    /\ Runs = flash[running].img /\ Runs \in Images
                    /\ NextImage = IF Steady THEN flash[running].img
                                   ELSE flash[Other(running)].img
                    /\ NextImage \in Images
                    /\ Stage = IF selected.state = "pending" THEN "trial"
                               ELSE IF Steady THEN "steady" ELSE "accepted"
  OBVIOUS
<1>1. /\ running \in Slots /\ Other(running) \in Slots /\ Other(running) # running
      /\ selected.state \in {"valid", "new", "pending"}
  BY TwoSlots DEF IInv, UpdateSafe, TypeOK
<1>2. BootChoice = IF Steady THEN running ELSE Other(running)
  BY Choice DEF IInv, UpdateSafe
<1>3. Whole(BootChoice) /\ Whole(running)
  BY <1>1, <1>2 DEF IInv, SlotsInv, Steady
<1>4. Stage = IF selected.state = "pending" THEN "trial"
              ELSE IF Steady THEN "steady" ELSE "accepted"
  BY <1>1 DEF Stage, Steady, IInv, SlotsInv
<1> QED
  BY <1>1, <1>2, <1>3, <1>4 DEF IInv, SlotsInv, Runs, NextImage, ImageOf

\* A step that leaves the flash alone.
LEMMA SeenUnchanged ==
    UNCHANGED flashVars => UNCHANGED <<Stage, Runs, NextImage>>
BY DEF flashVars, Stage, Runs, NextImage, ImageOf, BootChoice, Whole, Other

\* Acceptance, trial, confirmation and roll-back are what the device does; an
\* upload under way shows nothing.
LEMMA StepRefines ==
    IInv /\ IInv' /\ [Next]_vars => [Boots!Next]_(Boots!slotVars)
<1> SUFFICES ASSUME IInv, IInv', [Next]_vars
             PROVE  \/ UNCHANGED <<Stage, Runs, NextImage>>
                    \/ /\ Stage = "steady" /\ Stage' = "accepted"
                       /\ NextImage' \in Images /\ UNCHANGED Runs
                    \/ /\ Stage = "accepted" /\ Stage' = "steady"
                       /\ NextImage' = Runs /\ UNCHANGED Runs
                    \/ /\ Stage = "accepted" /\ Stage' = "trial"
                       /\ Runs' = NextImage /\ NextImage' = Runs
                    \/ /\ Stage = "trial" /\ Stage' = "steady"
                       /\ NextImage' = Runs /\ UNCHANGED Runs
                    \/ /\ Stage = "trial" /\ Stage' = "steady"
                       /\ Runs' = NextImage /\ UNCHANGED NextImage
  BY DEF Stage, Runs, NextImage, Boots!Next, Boots!Accept, Boots!Withdraw, Boots!Try,
         Boots!Confirm, Boots!RollBack, Boots!slotVars
<1>0. /\ running \in Slots /\ Other(running) \in Slots /\ Other(running) # running
      /\ selected.state \in {"valid", "new", "pending"}
      /\ Runs = flash[running].img
      /\ NextImage = IF Steady THEN flash[running].img ELSE flash[Other(running)].img
      /\ Stage = IF selected.state = "pending" THEN "trial"
                 ELSE IF Steady THEN "steady" ELSE "accepted"
  BY Seen
<1>1. (/\ running \in Slots
       /\ Runs = flash[running].img
       /\ NextImage = IF Steady THEN flash[running].img ELSE flash[Other(running)].img
       /\ NextImage \in Images
       /\ Stage = IF selected.state = "pending" THEN "trial"
                  ELSE IF Steady THEN "steady" ELSE "accepted")'
  BY Seen, PTL
<1>2. CASE Boot
  <2>1. running' = IF Steady THEN running ELSE Other(running)
    BY <1>2, Choice DEF Boot, IInv, UpdateSafe
  <2>2. selected'.state = IF selected.state = "new" /\ ~Steady THEN "pending" ELSE "valid"
    BY <1>0, <1>2, Choice DEF Boot, Selected, IInv, UpdateSafe, SlotsInv
  <2>3. Other(Other(running)) = running
    BY <1>0, TwoSlots
  <2>4. flash' = flash
    BY <1>2 DEF Boot
  <2>5. Steady' <=> ~(selected.state = "new" /\ ~Steady)
    BY <2>2 DEF Steady
  <2>6. Other(running)' = IF Steady THEN Other(running) ELSE running
    BY <2>1, <2>3 DEF Other
  <2> QED
    BY <1>0, <1>1, <2>1, <2>2, <2>4, <2>5, <2>6 DEF Steady
<1>3. CASE MarkValidOnBoot
  <2>1. /\ selected.state # "new" /\ selected'.state = "valid"
        /\ flash' = flash /\ running' = running
    BY <1>0, <1>3 DEF MarkValidOnBoot, Selected, IInv, SlotsInv
  <2> QED
    BY <1>0, <1>1, <2>1 DEF Steady
<1>4. CASE UploadWrite
  <2>1. selected.state # "pending"
    BY <1>0, <1>4 DEF UploadWrite, IInv, SlotsInv
  <2>2. /\ selected' = selected /\ running' = running /\ Other(running)' = Other(running)
        /\ flash'[running] = flash[running]
        /\ flash'[Other(running)] = flash[Other(running)] \/ ~flash'[Other(running)].whole
    BY <1>0, <1>4 DEF UploadWrite, WriteBlock, Content, Other, IInv, UpdateSafe, TypeOK
  <2>3. CASE flash'[Other(running)] = flash[Other(running)]
    BY <1>0, <1>1, <2>1, <2>2, <2>3 DEF Steady, Whole
  <2>4. CASE ~flash'[Other(running)].whole
    BY <1>0, <1>1, <2>1, <2>2, <2>4 DEF Steady, Whole
  <2> QED
    BY <2>2, <2>3, <2>4
<1>5. CASE UploadEnd
  <2>1. /\ running' = running /\ Other(running)' = Other(running)
        /\ selected.state # "pending"
    BY <1>0, <1>5 DEF UploadEnd, IInv, SlotsInv, Other
  <2>2. CASE flash' = flash /\ selected' = selected
    BY <2>1, <2>2, SeenUnchanged DEF flashVars
  <2>3. CASE /\ otaErr = None /\ flash' = Completed
             /\ SelectTarget \/ selected' = selected
    <3>1. Steady
      BY <1>0, <1>5, <2>1, <2>3, OtaAssumption DEF UploadEnd, Steady, IInv, RequestInv
    <3>2. flash'[running] = flash[running] /\ selected'.state # "pending"
      BY <1>0, <2>1, <2>3
      DEF Completed, Content, SelectTarget, Selected, IInv, UpdateSafe, TypeOK
    <3> QED
      BY <1>0, <1>1, <2>1, <3>1, <3>2
  <2> QED
    BY <1>5, <2>2, <2>3 DEF UploadEnd, Finish, EndFails, EndSucceeds
<1>6. CASE UNCHANGED flashVars
  BY <1>6, SeenUnchanged
<1> QED
  BY <1>2, <1>3, <1>4, <1>5, <1>6
  DEF Next, Device, vars, flashVars, Crash, Restart, PowerCut, UploadStart, Post, UploadAborted,
      Push, OpenFails, ReadAnswer, GiveUp, Tick

\* Through failed, refused and aborted uploads, broken images and power cuts at any
\* moment, the device runs a whole image, tries a new one only complete, and goes
\* back from one that does not confirm itself: otaMarkValidOnBoot, handleUpload, the
\* Update library and the bootloader implement BootSlots.
THEOREM ImplementsSlots == Spec => ImplementsBootSlots
<1>1. Init => Boots!Init
  <2> SUFFICES ASSUME Init PROVE Stage = "steady" /\ Runs \in Images /\ NextImage = Runs
    BY DEF Stage, Runs, NextImage, Boots!Init
  <2>1. IInv
    BY InitIInv
  <2>2. selected.state = "valid"
    BY DEF Init, Selected
  <2> QED
    BY <2>1, <2>2, Seen DEF Stage, Steady
<1> QED
  BY <1>1, StepRefines, Invariance, PTL DEF Spec, ImplementsBootSlots, Boots!Spec
=============================================================================

------------------------- MODULE FirmwareUpdateProofs -------------------------
(***************************************************************************)
(* What FirmwareUpdate guarantees for every set of images, every capacity  *)
(* of the slots and every choice of flash operations that may fail.        *)
(***************************************************************************)
EXTENDS FirmwareUpdate, SequenceTheorems, TLAPS

\* Where an upload stands: what the markers may say, and what is in the slot.
UploadStands ==
  /\ pc \in {"erase", "receive", "mark", "activate"} => upload.image \in Images
  /\ pc = "erase" => upload.sector \in Sectors
  /\ pc \in {"receive", "mark", "activate"} => secondary.magic # "set"
  /\ pc \in {"mark", "activate"} => Holds(secondary.staged, upload.image)
  /\ pc = "activate" => secondary.info = "set"

\* Images that were or will be booted are signed, and the workspace holds the
\* previous one or nothing while a trial lasts.
BootedSigned ==
  /\ primary.image \in Signed
  /\ secondary.workspace \in Signed \cup {None}
  /\ Unconfirmed => secondary.workspace \in {previous, None}

IInv == TypeOK /\ UploadStands /\ PendingIsVerified /\ BootedSigned

\* Reading back blocks with the digest of an image finds the image in the slot.
LEMMA ReadBack ==
  ASSUME NEW staged \in [1..Capacity -> Chunks \cup {Junk, Erased, HalfErased}],
         NEW blocks \in 0..Capacity, NEW image \in Images,
         Digest(image, SubSeq(staged, 1, blocks))
  PROVE  Holds(staged, image)
<1> DEFINE bytes == [b \in 1..Blocks[image] |-> [image |-> image, block |-> b]]
           part == [b \in 1..blocks |-> staged[b]]
<1>1. Blocks[image] \in 1..Capacity
  BY UpdateAssumption
<1>2. SubSeq(staged, 1, blocks) = part
  OBVIOUS
<1>3. part = bytes
  BY <1>2 DEF Digest
<1>4. DOMAIN part = 1..blocks /\ DOMAIN bytes = 1..Blocks[image]
  OBVIOUS
<1>5. \A b \in 1..Blocks[image] : staged[b] = [image |-> image, block |-> b]
  <2> TAKE b \in 1..Blocks[image]
  <2>1. b \in 1..blocks
    BY <1>3, <1>4
  <2>2. part[b] = staged[b] /\ bytes[b] = [image |-> image, block |-> b]
    BY <2>1
  <2> QED BY <2>2, <1>3
<1> QED BY <1>5 DEF Holds

LEMMA NoUploadTyped == NoUpload \in Uploads
BY UpdateAssumption DEF NoUpload, Uploads

LEMMA EmptySlotTyped == EmptySlot \in Slots
BY DEF EmptySlot, Slots, Words

LEMMA Initially == Init => IInv
BY UpdateAssumption, NoUploadTyped, EmptySlotTyped DEF Init, IInv, TypeOK, UploadStands,
   PendingIsVerified, BootedSigned, Unconfirmed, EmptySlot, Words

LEMMA BootKeeps == ASSUME IInv, Boot PROVE IInv'
<1> USE UpdateAssumption
<1>1. upload' \in Uploads
  BY NoUploadTyped DEF Boot
<1>2. ASSUME NEW image \in Images, SwapIn(image) PROVE IInv'
  BY <1>1, <1>2, EmptySlotTyped DEF Boot, SwapIn, Upgradable, Slots, IInv, TypeOK, UploadStands, PendingIsVerified,
     BootedSigned, Unconfirmed, EmptySlot, Words
<1>3. ASSUME SwapBack PROVE IInv'
  BY <1>1, <1>3, EmptySlotTyped DEF Boot, SwapBack, Slots, IInv, TypeOK, UploadStands, PendingIsVerified,
     BootedSigned, Unconfirmed, EmptySlot, Words
<1>4. ASSUME StartPrimary PROVE IInv'
  BY <1>1, <1>4 DEF Boot, StartPrimary, flash, IInv, TypeOK, UploadStands, PendingIsVerified,
     BootedSigned, Unconfirmed
<1> QED BY <1>2, <1>3, <1>4 DEF Boot

LEMMA StartKeeps ==
  ASSUME IInv, StartManaged \/ StartRollbackTest \/ StartMessaging PROVE IInv'
<1> USE DEF IInv, TypeOK, UploadStands, PendingIsVerified, BootedSigned, Unconfirmed,
            Programmed, Words, history, flash
<1>1. CASE StartManaged
  BY <1>1 DEF StartManaged, confirm_running_trial
<1>2. CASE StartRollbackTest
  BY <1>2 DEF StartRollbackTest
<1>3. CASE StartMessaging
  BY <1>3 DEF StartMessaging
<1> QED BY <1>1, <1>2, <1>3

LEMMA HeaderKeeps ==
  ASSUME IInv, NEW image \in Images, NEW blocks \in 0..(Capacity + 1), Header(image, blocks)
  PROVE  IInv'
<1>1. /\ upload' \in Uploads /\ upload'.image = image /\ upload'.sector = 0
      /\ pc' = "erase"
      /\ UNCHANGED <<primary, secondary, activated, previous>>
  <2>1. NoUpload.sector = 0
    BY DEF NoUpload
  <2>2. upload' = [NoUpload EXCEPT !.image = image, !.blocks = blocks] /\ blocks \in 0..Capacity
    BY UpdateAssumption DEF Header, LengthAccepted
  <2>3. upload' \in Uploads /\ upload'.image = image /\ upload'.sector = 0
    BY <2>1, <2>2, NoUploadTyped DEF Uploads
  <2> QED BY <2>3 DEF Header, flash, history
<1>2. 0 \in Sectors
  BY UpdateAssumption DEF Sectors, Workspace, Trailer
<1> QED BY <1>1, <1>2 DEF IInv, TypeOK, UploadStands, PendingIsVerified, BootedSigned, Unconfirmed

\* Erasing a sector, or half of it, keeps what the markers say.
LEMMA WipedSlot ==
  ASSUME NEW slot \in Slots, NEW sector \in Sectors, NEW word \in {Erased, HalfErased}
  PROVE  /\ Wiped(slot, sector, word) \in Slots
         /\ Wiped(slot, sector, word).magic = "set" =>
              slot.magic = "set" /\ Wiped(slot, sector, word).info = slot.info
         /\ sector = Trailer => Wiped(slot, sector, word).magic # "set"
         /\ \A b \in 1..Capacity :
              Wiped(slot, sector, word).staged[b] \in {slot.staged[b], Erased, HalfErased}
         /\ Wiped(slot, sector, word).workspace \in {slot.workspace, None}
<1> USE UpdateAssumption DEF Slots, Words
<1>1. CASE sector = Workspace
  <2>1. Wiped(slot, sector, word) = [slot EXCEPT !.workspace = None]
    BY <1>1 DEF Wiped
  <2>2. sector # Trailer
    BY <1>1 DEF Workspace, Trailer
  <2> QED BY <2>1, <2>2
<1>2. CASE sector = Trailer
  <2> DEFINE mark == IF word = Erased THEN "erased" ELSE "damaged"
  <2>1. sector # Workspace
    BY <1>2 DEF Workspace, Trailer
  <2>2. Wiped(slot, sector, word) = [slot EXCEPT !.info = mark, !.magic = mark]
    BY <1>2, <2>1 DEF Wiped
  <2>3. mark \in {"erased", "damaged"}
    OBVIOUS
  <2> HIDE DEF mark
  <2> QED BY <2>2, <2>3
<1>3. CASE sector \notin {Workspace, Trailer}
  <2>1. sector \in 1..Capacity
    BY <1>3 DEF Sectors, Workspace, Trailer
  <2>2. Wiped(slot, sector, word) = [slot EXCEPT !.staged[sector] = word]
    BY <1>3 DEF Wiped
  <2>3. word \in Chunks \cup {Junk, Erased, HalfErased}
    OBVIOUS
  <2>4. [slot.staged EXCEPT ![sector] = word] \in
          [1..Capacity -> Chunks \cup {Junk, Erased, HalfErased}]
    BY <2>1, <2>3
  <2> QED BY <1>3, <2>1, <2>2, <2>4
<1> QED BY <1>1, <1>2, <1>3

LEMMA InterruptedTyped ==
  ASSUME upload \in Uploads, Interrupted
  PROVE  upload' \in Uploads /\ pc' \in {"serving", "off"}
BY NoUploadTyped DEF Interrupted, GiveUp

LEMMA EraseKeeps == ASSUME IInv, EraseSector PROVE IInv'
<1> USE UpdateAssumption
<1>1. /\ upload.sector \in Sectors /\ upload.image \in Images
      /\ secondary \in Slots /\ upload \in Uploads
  BY DEF EraseSector, IInv, TypeOK, UploadStands
<1>2. UNCHANGED <<primary, activated, previous>>
  BY DEF EraseSector, history
<1>3. /\ secondary' \in Slots
      /\ secondary'.magic = "set" => secondary.magic = "set" /\ secondary'.info = secondary.info
      /\ \A b \in 1..Capacity :
           secondary'.staged[b] \in {secondary.staged[b], Erased, HalfErased}
      /\ secondary'.workspace \in {secondary.workspace, None}
  <2>1. CASE secondary' = secondary
    BY <1>1, <2>1
  <2>2. ASSUME NEW word \in {Erased, HalfErased},
               secondary' = Wiped(secondary, upload.sector, word)
        PROVE  <1>3!1 /\ <1>3!2 /\ <1>3!3 /\ <1>3!4
    BY <1>1, <2>2, WipedSlot
  <2> QED BY <2>1, <2>2 DEF EraseSector
<1>4. /\ upload' \in Uploads
      /\ pc' \in {"erase", "receive", "serving", "off"}
      /\ pc' \in {"erase", "receive"} => upload'.image \in Images
      /\ pc' = "erase" => upload'.sector \in Sectors
      /\ pc' = "receive" => secondary'.magic # "set"
  <2>1. CASE /\ secondary' = Wiped(secondary, upload.sector, Erased)
             /\ upload' = [upload EXCEPT !.sector = @ + 1]
             /\ pc' = (IF upload.sector = Trailer THEN "receive" ELSE "erase")
    <3>1. upload.sector + 1 \in 0..(Capacity + 2)
      BY <1>1 DEF Sectors, Workspace, Trailer
    <3>2. upload.sector # Trailer => upload.sector + 1 \in Sectors
      BY <1>1 DEF Sectors, Workspace, Trailer
    <3>3. upload.sector = Trailer => secondary'.magic # "set"
      BY <1>1, <2>1, WipedSlot
    <3> QED BY <1>1, <2>1, <3>1, <3>2, <3>3 DEF Uploads
  <2>2. CASE Interrupted
    BY <1>1, <2>2, InterruptedTyped
  <2> QED BY <2>1, <2>2 DEF EraseSector
<1>5. TypeOK'
  BY <1>2, <1>3, <1>4 DEF IInv, TypeOK
<1>6. PendingIsVerified'
  <2>1. activated # None => Blocks[activated] \in 1..Capacity
    BY DEF IInv, TypeOK
  <2> QED BY <1>2, <1>3, <2>1 DEF PendingIsVerified, IInv
<1>7. BootedSigned' /\ UploadStands'
  BY <1>2, <1>3, <1>4 DEF BootedSigned, IInv, Unconfirmed, UploadStands
<1> QED BY <1>5, <1>6, <1>7 DEF IInv

LEMMA ReceiveKeeps ==
  ASSUME IInv, NEW chunk \in Chunks \cup {Junk}, ReceiveChunk(chunk) PROVE IInv'
<1> DEFINE block == Len(upload.stream) + 1
<1>1. /\ pc = "receive" /\ secondary.magic # "set" /\ upload.image \in Images
      /\ secondary \in Slots /\ upload \in Uploads /\ block \in 1..Capacity
  BY UpdateAssumption DEF ReceiveChunk, IInv, TypeOK, UploadStands, Uploads
<1>2. \/ UNCHANGED secondary
      \/ \E c \in Chunks \cup {Junk} : secondary' = [secondary EXCEPT !.staged[block] = c]
  BY DEF ReceiveChunk
<1>3. /\ secondary' \in Slots
      /\ secondary'.magic = secondary.magic /\ secondary'.workspace = secondary.workspace
  BY <1>1, <1>2 DEF Slots
<1>4. /\ pc' \in {"receive", "serving", "off"}
      /\ upload' \in Uploads
      /\ pc' = "receive" => upload'.image \in Images
  <2>1. CASE upload' = [upload EXCEPT !.stream = Received(chunk)] /\ pc' = "receive"
    <3>1. Received(chunk) \in Seq(Chunks \cup {Junk})
      BY <1>1 DEF Received, Uploads
    <3> QED BY <1>1, <2>1, <3>1 DEF Uploads
  <2>2. CASE Interrupted
    BY <1>1, <2>2, InterruptedTyped
  <2>3. CASE GiveUp
    BY <2>3, NoUploadTyped DEF GiveUp
  <2> QED BY <2>1, <2>2, <2>3 DEF ReceiveChunk
<1>5. UNCHANGED <<primary, activated, previous>>
  BY DEF ReceiveChunk, history
<1>6. TypeOK'
  BY <1>3, <1>4, <1>5 DEF IInv, TypeOK
<1> QED BY <1>1, <1>3, <1>4, <1>5, <1>6 DEF IInv, UploadStands, PendingIsVerified, BootedSigned,
   Unconfirmed

LEMMA VerifyKeeps == ASSUME IInv, Verify PROVE IInv'
<1>1. UNCHANGED <<primary, secondary, activated, previous>> /\ pc = "receive"
  BY DEF Verify, flash, history
<1>2. CASE Verified /\ pc' = "mark" /\ UNCHANGED upload
  <2>1. Holds(secondary.staged, upload.image)
    BY <1>1, <1>2, ReadBack DEF Verified, IInv, TypeOK, UploadStands, Slots, Uploads
  <2> QED BY <1>1, <1>2, <2>1 DEF IInv, TypeOK, UploadStands, PendingIsVerified, BootedSigned,
     Unconfirmed
<1>3. CASE GiveUp
  BY <1>1, <1>3, NoUploadTyped DEF GiveUp, IInv, TypeOK, UploadStands,
     PendingIsVerified, BootedSigned, Unconfirmed
<1> QED BY <1>2, <1>3 DEF Verify

LEMMA MarkKeeps == ASSUME IInv, ProgramMarker PROVE IInv'
<1>1. /\ upload.image \in Images /\ upload.image # None
      /\ Holds(secondary.staged, upload.image)
      /\ secondary.magic # "set"
  BY UpdateAssumption DEF ProgramMarker, IInv, UploadStands
<1>2. /\ pc' \in {"activate", "reboot", "serving", "off"}
      /\ pc' = "activate" => pc = "mark" /\ secondary'.info = "set" /\ UNCHANGED upload
      /\ upload' \in Uploads
  <2>1. upload \in Uploads
    BY DEF IInv, TypeOK
  <2>2. CASE Interrupted
    BY <2>1, <2>2, InterruptedTyped
  <2>3. CASE /\ secondary' = Marked(Markers[IF pc = "mark" THEN 1 ELSE 2], "set")
             /\ pc' = (IF pc = "mark" THEN "activate" ELSE "reboot")
             /\ UNCHANGED upload
    <3>1. pc = "mark" => secondary' = [secondary EXCEPT !.info = "set"]
      BY <2>3 DEF Markers, Marked
    <3> QED BY <2>1, <2>3, <3>1 DEF ProgramMarker, IInv, TypeOK, Slots
  <2> QED BY <2>2, <2>3 DEF ProgramMarker
<1>3. CASE pc = "mark"
  <2>1. PICK word \in Words : secondary' = [secondary EXCEPT !.info = word]
    BY <1>3 DEF ProgramMarker, Markers, Marked, Programmed, Words
  <2>2. UNCHANGED <<primary, activated, previous>>
    BY <1>3 DEF ProgramMarker, Markers
  <2>3. TypeOK'
    BY <1>2, <2>1, <2>2 DEF IInv, TypeOK, Slots
  <2>4. /\ secondary'.staged = secondary.staged /\ secondary'.magic = secondary.magic
        /\ secondary'.workspace = secondary.workspace
    BY <2>1 DEF IInv, TypeOK, Slots
  <2> QED BY <1>1, <1>2, <2>2, <2>3, <2>4 DEF IInv, UploadStands, PendingIsVerified,
     BootedSigned, Unconfirmed
<1>4. CASE pc = "activate"
  <2>1. PICK word \in Words : secondary' = [secondary EXCEPT !.magic = word]
    BY <1>4 DEF ProgramMarker, Markers, Marked, Programmed, Words
  <2>2. UNCHANGED <<primary, previous>> /\ activated' = upload.image
    BY <1>4 DEF ProgramMarker, Markers
  <2>3. TypeOK'
    BY <1>1, <1>2, <2>1, <2>2 DEF IInv, TypeOK, Slots
  <2>4. /\ secondary'.staged = secondary.staged /\ secondary'.info = secondary.info
        /\ secondary'.workspace = secondary.workspace
    BY <2>1 DEF IInv, TypeOK, Slots
  <2>5. pc' # "activate" /\ secondary.info = "set"
    BY <1>2, <1>4 DEF IInv, UploadStands
  <2>6. PendingIsVerified'
    BY <1>1, <2>2, <2>4, <2>5 DEF PendingIsVerified, Holds
  <2> QED BY <1>2, <2>2, <2>3, <2>4, <2>5, <2>6 DEF IInv, UploadStands, BootedSigned, Unconfirmed
<1> QED BY <1>3, <1>4 DEF ProgramMarker

LEMMA EndKeeps == ASSUME IInv, Reset \/ Disconnect \/ PowerLoss PROVE IInv'
BY NoUploadTyped DEF Reset, Disconnect, PowerLoss, GiveUp, flash, history, IInv, TypeOK, UploadStands, PendingIsVerified, BootedSigned, Unconfirmed

LEMMA Inductive == ASSUME IInv, [Next]_vars PROVE IInv'
<1>1. CASE Boot
  BY <1>1, BootKeeps
<1>2. CASE StartManaged \/ StartRollbackTest \/ StartMessaging
  BY <1>2, StartKeeps
<1>3. CASE \E image \in Images, blocks \in 0..(Capacity + 1) : Header(image, blocks)
  BY <1>3, HeaderKeeps
<1>4. CASE EraseSector
  BY <1>4, EraseKeeps
<1>5. CASE \E chunk \in Chunks \cup {Junk} : ReceiveChunk(chunk)
  BY <1>5, ReceiveKeeps
<1>6. CASE Verify
  BY <1>6, VerifyKeeps
<1>7. CASE ProgramMarker
  BY <1>7, MarkKeeps
<1>8. CASE Reset \/ Disconnect \/ PowerLoss
  BY <1>8, EndKeeps
<1>9. CASE UNCHANGED vars
  BY <1>9 DEF vars, IInv, TypeOK, UploadStands, PendingIsVerified, BootedSigned, Unconfirmed
<1> QED BY <1>1, <1>2, <1>3, <1>4, <1>5, <1>6, <1>7, <1>8, <1>9 DEF Next, Firmware

\* The strengthened invariant of the update.
THEOREM UpdateInvariance == Spec => []IInv
<1> QED BY Initially, Inductive, PTL DEF Spec

\* Whatever is interrupted, a set magic stands for the image verified last.
THEOREM PendingVerified == Spec => []PendingIsVerified
<1>1. IInv => PendingIsVerified
  BY DEF IInv
<1> QED BY <1>1, UpdateInvariance, PTL

\* Every variable keeps its type, for every set of images and every fault.
THEOREM TypeCorrect == Spec => []TypeOK
<1>1. IInv => TypeOK
  BY DEF IInv
<1> QED BY <1>1, UpdateInvariance, PTL

\* Only Boot changes the image; the others program image_ok at most.
LEMMA ImageKept ==
  ASSUME IInv, [Next]_vars, ~Boot PROVE primary'.image = primary.image
<1>1. ASSUME NEW word, primary' = [primary EXCEPT !.image_ok = word]
      PROVE  primary'.image = primary.image
  BY <1>1 DEF IInv, TypeOK
<1>2. CASE StartManaged
  BY <1>1, <1>2 DEF StartManaged, confirm_running_trial
<1>3. CASE StartMessaging
  BY <1>1, <1>3 DEF StartMessaging
<1>4. CASE ~(StartManaged \/ StartMessaging)
  BY <1>4 DEF Next, Firmware, vars, StartRollbackTest, Header, EraseSector, ReceiveChunk, Verify,
     ProgramMarker, Reset, Disconnect, PowerLoss, flash
<1> QED BY <1>2, <1>3, <1>4

\* A reset never brings up an image that was neither verified nor replaced by a
\* trial, nor one without a signature.
THEOREM SwapsIntended == Spec => SwapsAreIntended
<1>1. ASSUME IInv, [Next]_vars, primary'.image # primary.image
      PROVE  primary'.image \in {activated, previous} /\ primary'.image \in Signed
  <2>1. Boot
    BY <1>1, ImageKept
  <2>2. ASSUME NEW image \in Images, SwapIn(image)
        PROVE  primary'.image = activated /\ primary'.image \in Signed
    <3>1. /\ secondary.magic = "set" /\ image \in Signed
          /\ Holds(secondary.staged, image)
          /\ primary'.image = image
      BY <2>2 DEF SwapIn, Upgradable
    <3>2. /\ activated \in Images /\ 1 \in 1..Blocks[activated]
          /\ secondary.staged[1] \in {[image |-> activated, block |-> 1], Erased, HalfErased}
      BY <1>1, <3>1, UpdateAssumption DEF IInv, TypeOK, PendingIsVerified
    <3>3. secondary.staged[1] = [image |-> image, block |-> 1]
      BY <3>1, UpdateAssumption DEF Holds
    <3>4. image = activated
      BY <3>2, <3>3, UpdateAssumption DEF Erased, HalfErased
    <3> QED BY <3>1, <3>4
  <2>3. ASSUME SwapBack PROVE primary'.image = previous /\ primary'.image \in Signed
    BY <1>1, <2>3 DEF SwapBack, IInv, BootedSigned
  <2>4. ~StartPrimary
    BY <1>1 DEF StartPrimary, flash
  <2> QED BY <2>1, <2>2, <2>3, <2>4 DEF Boot
<1> QED BY <1>1, UpdateInvariance, PTL DEF Spec, SwapsAreIntended

\* The assumption under which a trial ends: the flash lets an image confirm itself.
ConfirmsReliably == MayFail("confirm") = FALSE /\ MayFail("read") = FALSE

Updating == pc \in {"serving", "erase", "receive", "mark", "activate", "reboot"}

TrialInv ==
  TrialRevertible /\ (Updating => ~OnTrial) /\ primary.image_ok # "damaged"

LEMMA TrialKept == ASSUME ConfirmsReliably, IInv, TrialInv, [Next]_vars PROVE TrialInv'
<1> USE DEF TrialInv, TrialRevertible, Updating, OnTrial, Unconfirmed
<1>1. CASE Boot
  <2>1. ASSUME NEW image \in Images, SwapIn(image) PROVE TrialInv'
    BY <1>1, <2>1, UpdateAssumption DEF Boot, SwapIn, EmptySlot, IInv, TypeOK
  <2>2. ASSUME SwapBack PROVE TrialInv'
    BY <1>1, <2>2 DEF Boot, SwapBack
  <2>3. ASSUME StartPrimary PROVE TrialInv'
    BY <1>1, <2>3 DEF Boot, StartPrimary, flash
  <2> QED BY <1>1, <2>1, <2>2, <2>3 DEF Boot
<1>2. CASE StartManaged
  <2>1. CASE ~Unconfirmed /\ UNCHANGED primary
    BY <1>2, <2>1 DEF StartManaged, history
  <2>2. ASSUME Unconfirmed, ~MayFail("confirm") PROVE TrialInv'
    <3>1. primary.image_ok = "erased" /\ Programmed(MayFail("confirm")) = {"set"}
      BY <2>2 DEF Programmed, IInv, TypeOK, Words
    <3>2. primary' = [primary EXCEPT !.image_ok = "set"]
      BY <1>2, <2>2, <3>1 DEF StartManaged, confirm_running_trial, ConfirmsReliably
    <3> QED BY <1>2, <3>2 DEF StartManaged, history, IInv, TypeOK
  <2> QED BY <1>2, <2>1, <2>2 DEF StartManaged, confirm_running_trial, ConfirmsReliably
<1>3. CASE StartMessaging
  BY <1>3 DEF StartMessaging, ConfirmsReliably, Programmed, history, IInv, TypeOK
<1>4. CASE StartRollbackTest
  BY <1>4 DEF StartRollbackTest, flash, history
<1>5. CASE PowerLoss \/ UNCHANGED vars
  BY <1>5 DEF PowerLoss, flash, history, vars
<1>6. ASSUME UNCHANGED primary, Updating PROVE TrialInv'
  BY <1>6
<1>7. CASE ~(Boot \/ StartManaged \/ StartMessaging \/ StartRollbackTest \/ PowerLoss
               \/ UNCHANGED vars)
  BY <1>6, <1>7 DEF Next, Firmware, Header, EraseSector, ReceiveChunk, Verify, ProgramMarker,
     Reset, Disconnect, flash
<1> QED BY <1>1, <1>2, <1>3, <1>4, <1>5, <1>7

\* With flash that lets images confirm themselves, every reset of an image on trial
\* brings the previous one back, whatever rollback-test builds were installed.
THEOREM TrialsRollBack == ConfirmsReliably => (Spec => RollsBack)
<1>1. Init => TrialInv
  BY DEF Init, TrialInv, TrialRevertible, Updating, OnTrial, Unconfirmed
<1>2. ASSUME IInv, TrialInv, Boot, OnTrial PROVE primary'.image = previous
  BY <1>2, UpdateAssumption DEF TrialInv, TrialRevertible, OnTrial, Boot, SwapIn, Upgradable, SwapBack,
     StartPrimary, IInv, TypeOK
<1>3. ASSUME ConfirmsReliably PROVE Spec => []TrialInv
  BY <1>1, <1>3, TrialKept, UpdateInvariance, PTL DEF Spec
<1>4. ASSUME ConfirmsReliably PROVE Spec => RollsBack
  <2>1. Spec => []TrialInv
    BY <1>3, <1>4
  <2> QED BY <1>2, <2>1, UpdateInvariance, PTL DEF RollsBack
<1> QED BY <1>4

-----------------------------------------------------------------------------
(* Refinement of FieldUpdate.                                                *)

\* The sector of the swap workspace is erased first: no image waits, and none is
\* received, while the image that was replaced is still there.
WorkspaceGone ==
  /\ secondary.magic = "set" => secondary.workspace = None
  /\ pc = "erase" /\ upload.sector # Workspace => secondary.workspace = None
  /\ pc \in {"receive", "mark", "activate"} => secondary.workspace = None

Waiting == {image \in Images : Upgradable(image)}

\* What an erased sector, or half of it, makes of the workspace and of the trailer.
LEMMA WipedWorkspace ==
  ASSUME NEW slot \in Slots, NEW sector \in Sectors, NEW word \in {Erased, HalfErased}
  PROVE  /\ sector = Workspace =>
              /\ Wiped(slot, sector, word).workspace = None
              /\ Wiped(slot, sector, word).magic = slot.magic
              /\ Wiped(slot, sector, word).staged = slot.staged
         /\ slot.workspace = None => Wiped(slot, sector, word).workspace = None
<1>1. CASE sector = Workspace
  BY <1>1 DEF Wiped, Slots
<1>2. CASE sector # Workspace
  BY <1>2, WipedSlot
<1> QED BY <1>1, <1>2

LEMMA EraseKeepsGone == ASSUME IInv, WorkspaceGone, EraseSector PROVE WorkspaceGone'
<1>1. /\ pc = "erase" /\ upload.sector \in Sectors
      /\ secondary \in Slots /\ upload \in Uploads
  BY DEF EraseSector, IInv, TypeOK, UploadStands
<1>2. CASE secondary' = secondary /\ Interrupted
  BY <1>2 DEF Interrupted, GiveUp, WorkspaceGone
<1>3. ASSUME NEW word \in {Erased, HalfErased},
             secondary' = Wiped(secondary, upload.sector, word)
      PROVE  secondary'.workspace = None
  <2>1. upload.sector # Workspace => secondary.workspace = None
    BY <1>1 DEF WorkspaceGone
  <2> QED BY <1>1, <1>3, <2>1, WipedWorkspace
<1>4. CASE secondary'.workspace = None
  BY <1>4 DEF WorkspaceGone
<1> QED BY <1>2, <1>3, <1>4 DEF EraseSector

LEMMA GoneKept == ASSUME IInv, WorkspaceGone, [Next]_vars PROVE WorkspaceGone'
<1>1. CASE Boot
  <2>1. ASSUME NEW image \in Images, SwapIn(image) PROVE WorkspaceGone'
    BY <1>1, <2>1 DEF Boot, SwapIn, EmptySlot, WorkspaceGone
  <2>2. ASSUME SwapBack PROVE WorkspaceGone'
    BY <1>1, <2>2 DEF Boot, SwapBack, EmptySlot, WorkspaceGone
  <2>3. ASSUME StartPrimary PROVE WorkspaceGone'
    BY <1>1, <2>3 DEF Boot, StartPrimary, flash, WorkspaceGone
  <2> QED BY <1>1, <2>1, <2>2, <2>3 DEF Boot
<1>2. CASE StartManaged \/ StartRollbackTest \/ StartMessaging
  BY <1>2 DEF StartManaged, StartRollbackTest, StartMessaging, flash, WorkspaceGone
<1>3. ASSUME NEW image \in Images, NEW blocks \in 0..(Capacity + 1), Header(image, blocks)
      PROVE  WorkspaceGone'
  <2>1. upload'.sector = Workspace
    BY <1>3 DEF Header, NoUpload, Workspace
  <2> QED BY <1>3, <2>1 DEF Header, flash, WorkspaceGone
<1>4. CASE EraseSector
  BY <1>4, EraseKeepsGone
<1>5. ASSUME NEW chunk \in Chunks \cup {Junk}, ReceiveChunk(chunk) PROVE WorkspaceGone'
  <2>1. pc = "receive" /\ secondary \in Slots
    BY <1>5 DEF ReceiveChunk, IInv, TypeOK
  <2>2. secondary'.workspace = secondary.workspace
    BY <1>5, <2>1 DEF ReceiveChunk, Slots
  <2> QED BY <2>1, <2>2 DEF WorkspaceGone
<1>6. CASE ProgramMarker
  <2>1. pc \in {"mark", "activate"} /\ secondary \in Slots
    BY <1>6 DEF ProgramMarker, IInv, TypeOK
  <2>2. secondary'.workspace = secondary.workspace
    BY <1>6, <2>1 DEF ProgramMarker, Marked, Slots
  <2> QED BY <2>1, <2>2 DEF WorkspaceGone
<1>7. CASE Verify
  BY <1>7 DEF Verify, GiveUp, flash, WorkspaceGone
<1>8. CASE Reset \/ Disconnect \/ PowerLoss \/ UNCHANGED vars
  BY <1>8 DEF Reset, Disconnect, PowerLoss, GiveUp, flash, vars, WorkspaceGone
<1> QED BY <1>1, <1>2, <1>3, <1>4, <1>5, <1>6, <1>7, <1>8 DEF Next, Firmware

\* At most one image waits: its first block names it.
LEMMA OneWaits == ASSUME NEW i \in Waiting, NEW j \in Waiting PROVE i = j
<1>1. 1 \in 1..Blocks[i] /\ 1 \in 1..Blocks[j]
  BY UpdateAssumption DEF Waiting
<1>2. /\ secondary.staged[1] = [image |-> i, block |-> 1]
      /\ secondary.staged[1] = [image |-> j, block |-> 1]
  BY <1>1 DEF Waiting, Upgradable, Holds
<1> QED BY <1>2

LEMMA NoneWaits == secondary.magic # "set" => Waiting = {}
BY DEF Waiting, Upgradable

LEMMA NoneWaitsNext == secondary'.magic # "set" => Waiting' = {}
BY DEF Waiting, Upgradable

\* An erase leaves the image that waits whole, or no image waits any more.
LEMMA EraseSparesOrEnds ==
  ASSUME IInv, secondary' \in Slots,
         secondary'.magic = "set" => secondary.magic = "set",
         \A b \in 1..Capacity :
           secondary'.staged[b] \in {secondary.staged[b], Erased, HalfErased}
  PROVE  Waiting' \subseteq Waiting /\ Waiting' \in {Waiting, {}}
<1>1. ASSUME NEW image \in Images, Upgradable(image)' PROVE Upgradable(image)
  <2>1. secondary.magic = "set" /\ image \in Signed /\ Holds(secondary'.staged, image)
    BY <1>1 DEF Upgradable
  <2>2. ASSUME NEW b \in 1..Blocks[image]
        PROVE  secondary.staged[b] = [image |-> image, block |-> b]
    <3>1. b \in 1..Capacity
      BY <2>2, UpdateAssumption
    <3>2. secondary'.staged[b] = [image |-> image, block |-> b]
      BY <2>1, <2>2 DEF Holds
    <3>3. [image |-> image, block |-> b] \notin {Erased, HalfErased}
      BY UpdateAssumption DEF Erased, HalfErased
    <3> QED BY <3>1, <3>2, <3>3
  <2> QED BY <2>1, <2>2 DEF Upgradable, Holds
<1>2. Waiting' \subseteq Waiting
  BY <1>1 DEF Waiting
<1>3. Waiting' = {} \/ Waiting' = Waiting
  BY <1>2, OneWaits
<1> QED BY <1>2, <1>3

\* The reset that follows tries the image that was marked, if it is signed.
LEMMA MarkedWaits ==
  ASSUME IInv, pc = "activate", secondary' = [secondary EXCEPT !.magic = "set"]
  PROVE  Waiting' = {upload.image} \cap Signed
<1>1. /\ upload.image \in Images /\ Holds(secondary.staged, upload.image)
      /\ secondary \in Slots
  BY DEF IInv, TypeOK, UploadStands
<1>2. secondary'.magic = "set" /\ secondary'.staged = secondary.staged
  BY <1>1 DEF Slots
<1>3. ASSUME NEW image \in Images, Upgradable(image)' PROVE image = upload.image
  <2>1. 1 \in 1..Blocks[image] /\ 1 \in 1..Blocks[upload.image]
    BY <1>1, UpdateAssumption
  <2>2. secondary.staged[1] = [image |-> image, block |-> 1]
    BY <1>2, <1>3, <2>1 DEF Upgradable, Holds
  <2>3. secondary.staged[1] = [image |-> upload.image, block |-> 1]
    BY <1>1, <2>1 DEF Holds
  <2> QED BY <2>2, <2>3
<1>4. ASSUME NEW image \in Images
      PROVE  Upgradable(image)' <=> image = upload.image /\ image \in Signed
  BY <1>1, <1>2, <1>3 DEF Upgradable
<1> QED BY <1>1, <1>4, UpdateAssumption DEF Waiting

FInv == IInv /\ WorkspaceGone

LEMMA FieldBoots == ASSUME FInv, Boot PROVE Field!Reset
<1> USE DEF Waiting
<1>1. /\ pc = "off" /\ pc' = "starting"
  BY DEF Boot
<1>2. ASSUME NEW image \in Images, SwapIn(image) PROVE Field!Reset
  <2>1. image \in Waiting /\ secondary.magic = "set"
    BY <1>2 DEF SwapIn, Upgradable
  <2>2. /\ primary'.image = image /\ primary'.magic = "set" /\ primary'.image_ok = "erased"
        /\ secondary'.workspace = primary.image /\ secondary'.magic = "erased"
    BY <1>2 DEF SwapIn, EmptySlot
  <2>3. Waiting' = {}
    BY <2>2, NoneWaitsNext
  <2>4. Unconfirmed'
    BY <2>2 DEF Unconfirmed
  <2> QED BY <1>1, <2>1, <2>2, <2>3, <2>4 DEF Field!Reset
<1>3. ASSUME SwapBack PROVE Field!Reset
  <2>1. secondary.magic # "set" /\ Unconfirmed /\ secondary.workspace # None
    BY <1>3 DEF SwapBack
  <2>2. /\ primary'.image = secondary.workspace /\ primary'.image_ok = "set"
        /\ secondary'.workspace = primary.image /\ secondary'.magic = "erased"
    BY <1>3 DEF SwapBack, EmptySlot
  <2>3. Waiting = {} /\ Waiting' = {}
    BY <2>1, <2>2, NoneWaits, NoneWaitsNext
  <2>4. ~Unconfirmed'
    BY <2>2 DEF Unconfirmed
  <2> QED BY <1>1, <2>1, <2>2, <2>3, <2>4 DEF Field!Reset
<1>4. ASSUME StartPrimary PROVE Field!Reset
  <2>1. Waiting = {} /\ UNCHANGED <<primary, secondary>>
    BY <1>4 DEF StartPrimary, flash
  <2>2. ~(Unconfirmed /\ secondary.workspace # None)
    BY <1>4 DEF StartPrimary, FInv, WorkspaceGone
  <2>3. Waiting' = {} /\ (Unconfirmed' <=> Unconfirmed)
    BY <2>1 DEF Upgradable, Unconfirmed
  <2> QED BY <1>1, <2>1, <2>2, <2>3 DEF Field!Reset, Field!images
<1> QED BY <1>2, <1>3, <1>4 DEF Boot

\* While nothing is verified, steps that leave the flash alone are stutters or the
\* power failing.
LEMMA FieldIdle ==
  ASSUME UNCHANGED <<primary, secondary>>,
         pc # "off", pc \notin {"mark", "activate"}, pc' \notin {"mark", "activate"}
  PROVE  Field!PowerOff \/ UNCHANGED Field!vars
<1>1. UNCHANGED <<Waiting, Unconfirmed>>
  BY DEF Waiting, Upgradable, Unconfirmed
<1> QED BY <1>1 DEF Waiting, Field!PowerOff, Field!images, Field!vars

LEMMA FieldConfirms ==
  ASSUME FInv, StartManaged \/ StartRollbackTest \/ StartMessaging
  PROVE  Field!Confirm \/ UNCHANGED Field!vars
<1>1. /\ pc = "starting" /\ pc' \in {"serving", "running"} /\ UNCHANGED secondary
  BY DEF StartManaged, StartRollbackTest, StartMessaging, flash
<1>2. UNCHANGED Waiting
  BY <1>1 DEF Waiting, Upgradable
<1>3. /\ primary'.image = primary.image
      /\ Unconfirmed' => Unconfirmed
  <2>1. primary \in [image : Images, magic : {"erased", "set"}, image_ok : Words]
    BY DEF FInv, IInv, TypeOK
  <2>2. CASE UNCHANGED primary
    BY <2>2 DEF Unconfirmed
  <2>3. ASSUME NEW word, Unconfirmed, primary' = [primary EXCEPT !.image_ok = word]
        PROVE  <1>3
    BY <2>1, <2>3 DEF Unconfirmed
  <2> QED BY <2>2, <2>3 DEF StartManaged, StartRollbackTest, StartMessaging,
     confirm_running_trial, flash
<1>4. (Unconfirmed /\ ~Unconfirmed') \/ Unconfirmed' = Unconfirmed
  BY <1>3 DEF Unconfirmed
<1> QED BY <1>1, <1>2, <1>3, <1>4 DEF Waiting, Field!Confirm, Field!vars

LEMMA FieldErases ==
  ASSUME FInv, EraseSector
  PROVE  Field!Discard \/ Field!PowerOff \/ UNCHANGED Field!vars
<1>1. /\ pc = "erase" /\ pc' \in {"erase", "receive", "serving", "off"}
      /\ upload.sector \in Sectors /\ secondary \in Slots
      /\ UNCHANGED primary
  BY DEF EraseSector, Interrupted, GiveUp, FInv, IInv, TypeOK, UploadStands
<1>2. CASE secondary' = secondary
  BY <1>1, <1>2, FieldIdle
<1>3. ASSUME NEW word \in {Erased, HalfErased},
             secondary' = Wiped(secondary, upload.sector, word)
      PROVE  Field!Discard
  <2>1. Waiting' \in {Waiting, {}}
    BY <1>1, <1>3, WipedSlot, EraseSparesOrEnds DEF FInv
  <2>2. secondary'.workspace = None
    BY <1>1, <1>3, WipedWorkspace DEF FInv, WorkspaceGone
  <2>3. upload.sector = Workspace => UNCHANGED Waiting
    BY <1>1, <1>3, WipedWorkspace DEF Waiting, Upgradable
  <2>4. upload.sector # Workspace => secondary.workspace = None
    BY <1>1 DEF FInv, WorkspaceGone
  <2>5. \/ secondary'.workspace = None /\ UNCHANGED Waiting
        \/ Waiting' = {} /\ UNCHANGED secondary.workspace
    BY <2>1, <2>2, <2>3, <2>4
  <2>6. primary'.image = primary.image /\ (Unconfirmed' = Unconfirmed)
    BY <1>1 DEF Unconfirmed
  <2> QED BY <1>1, <2>5, <2>6 DEF Waiting, Field!Discard
<1> QED BY <1>2, <1>3 DEF EraseSector

LEMMA FieldReceives ==
  ASSUME FInv, NEW chunk \in Chunks \cup {Junk}, ReceiveChunk(chunk)
  PROVE  Field!PowerOff \/ UNCHANGED Field!vars
<1>1. /\ pc = "receive" /\ pc' \in {"receive", "serving", "off"}
      /\ secondary \in Slots /\ secondary.magic # "set"
      /\ UNCHANGED primary
  BY DEF ReceiveChunk, Interrupted, GiveUp, FInv, IInv, TypeOK, UploadStands
<1>2. secondary'.magic = secondary.magic /\ secondary'.workspace = secondary.workspace
  BY <1>1 DEF ReceiveChunk, Slots
<1>3. Waiting = {} /\ Waiting' = {}
  BY <1>1, <1>2, NoneWaits, NoneWaitsNext
<1>4. Unconfirmed' = Unconfirmed
  BY <1>1 DEF Unconfirmed
<1> QED BY <1>1, <1>2, <1>3, <1>4 DEF Waiting, Field!PowerOff, Field!images, Field!vars

LEMMA FieldVerifies ==
  ASSUME FInv, Verify PROVE Field!Verify \/ UNCHANGED Field!vars
<1>1. /\ pc = "receive" /\ UNCHANGED <<primary, secondary>>
      /\ upload.image \in Images
      /\ secondary.magic # "set" /\ secondary.workspace = None
  BY DEF Verify, flash, FInv, IInv, UploadStands, WorkspaceGone
<1>2. CASE pc' = "mark" /\ UNCHANGED upload
  <2>1. Waiting = {} /\ Waiting' = {} /\ Unconfirmed' = Unconfirmed
    BY <1>1, NoneWaits, NoneWaitsNext DEF Unconfirmed
  <2> QED BY <1>1, <1>2, <2>1 DEF Waiting, Field!Verify, Field!images
<1>3. CASE GiveUp
  <2>1. pc' = "serving"
    BY <1>3 DEF GiveUp
  <2>2. UNCHANGED <<Waiting, Unconfirmed>>
    BY <1>1 DEF Waiting, Upgradable, Unconfirmed
  <2> QED BY <1>1, <2>1, <2>2 DEF Waiting, Field!vars
<1> QED BY <1>2, <1>3 DEF Verify

LEMMA FieldMarks ==
  ASSUME FInv, ProgramMarker
  PROVE  Field!Activate \/ Field!Abandon \/ UNCHANGED Field!vars
<1>1. /\ pc \in {"mark", "activate"} /\ pc' \in {"activate", "reboot", "serving", "off"}
      /\ pc' = "activate" => pc = "mark" /\ UNCHANGED upload
      /\ UNCHANGED primary
      /\ upload.image \in Images /\ upload.image # None
      /\ secondary \in Slots /\ secondary.magic # "set"
  BY UpdateAssumption DEF ProgramMarker, Interrupted, GiveUp, FInv, IInv, TypeOK, UploadStands
<1>2. Unconfirmed' = Unconfirmed
  BY <1>1 DEF Unconfirmed
<1>3. Waiting = {}
  BY <1>1, NoneWaits
<1>4. ASSUME secondary'.magic # "set", UNCHANGED secondary.workspace
      PROVE  Field!Abandon \/ UNCHANGED Field!vars
  <2>1. Waiting' = {}
    BY <1>4, NoneWaitsNext
  <2>2. CASE pc' = "activate"
    BY <1>1, <1>2, <1>3, <1>4, <2>1, <2>2 DEF Waiting, Field!vars
  <2>3. CASE pc' # "activate"
    BY <1>1, <1>2, <1>3, <1>4, <2>1, <2>3 DEF Waiting, Field!Abandon, Field!images
  <2> QED BY <2>2, <2>3
<1>5. CASE pc = "mark"
  <2>1. PICK word \in Words : secondary' = [secondary EXCEPT !.info = word]
    BY <1>5 DEF ProgramMarker, Markers, Marked, Programmed, Words
  <2>2. secondary'.magic # "set" /\ UNCHANGED secondary.workspace
    BY <1>1, <2>1 DEF Slots
  <2> QED BY <1>4, <2>2
<1>6. CASE pc = "activate"
  <2>1. PICK word \in Words : secondary' = [secondary EXCEPT !.magic = word]
    BY <1>6 DEF ProgramMarker, Markers, Marked, Programmed, Words
  <2>2. secondary'.magic = word /\ UNCHANGED secondary.workspace
    BY <1>1, <2>1 DEF Slots
  <2>3. CASE word = "set"
    <3>1. Waiting' = {upload.image} \cap Signed
      BY <1>6, <2>1, <2>3, MarkedWaits DEF FInv
    <3>2. pc' \notin {"mark", "activate"}
      BY <1>1, <1>6
    <3> QED BY <1>1, <1>2, <1>6, <2>2, <3>1, <3>2 DEF Waiting, Field!Activate, Field!images
  <2>4. CASE word # "set"
    BY <1>4, <2>2, <2>4
  <2> QED BY <2>3, <2>4
<1> QED BY <1>1, <1>5, <1>6

LEMMA FieldInitially == Init => WorkspaceGone /\ Field!Init
<1> SUFFICES ASSUME Init PROVE WorkspaceGone /\ Field!Init
  OBVIOUS
<1>1. /\ pc = "off" /\ primary.image = Factory /\ primary.magic = "erased"
      /\ secondary.workspace = None /\ secondary.magic = "erased"
  BY DEF Init, EmptySlot
<1>2. Waiting = {}
  BY <1>1, NoneWaits
<1> QED BY <1>1, <1>2, UpdateAssumption DEF WorkspaceGone, Waiting, Unconfirmed, Field!Init

LEMMA FieldStep == ASSUME FInv, [Next]_vars PROVE [Field!Next]_(Field!vars)
<1>1. CASE Boot
  BY <1>1, FieldBoots DEF Field!Next
<1>2. CASE StartManaged \/ StartRollbackTest \/ StartMessaging
  BY <1>2, FieldConfirms DEF Field!Next
<1>3. CASE \E image \in Images, blocks \in 0..(Capacity + 1) : Header(image, blocks)
  BY <1>3, FieldIdle DEF Header, flash, Field!Next
<1>4. CASE EraseSector
  BY <1>4, FieldErases DEF Field!Next
<1>5. CASE \E chunk \in Chunks \cup {Junk} : ReceiveChunk(chunk)
  BY <1>5, FieldReceives DEF Field!Next
<1>6. CASE Verify
  BY <1>6, FieldVerifies DEF Field!Next
<1>7. CASE ProgramMarker
  BY <1>7, FieldMarks DEF Field!Next
<1>8. CASE Reset \/ Disconnect
  BY <1>8, FieldIdle DEF Reset, Disconnect, GiveUp, flash, Field!Next
<1>9. CASE PowerLoss
  <2>1. pc # "off" /\ pc' = "off" /\ UNCHANGED <<primary, secondary>>
    BY <1>9 DEF PowerLoss, flash
  <2>2. UNCHANGED <<Waiting, Unconfirmed>>
    BY <2>1 DEF Waiting, Upgradable, Unconfirmed
  <2> QED BY <2>1, <2>2 DEF Waiting, Field!PowerOff, Field!images, Field!Next
<1>10. CASE UNCHANGED vars
  <2>1. UNCHANGED <<primary, secondary, pc, upload>>
    BY <1>10 DEF vars
  <2>2. UNCHANGED <<Waiting, Unconfirmed>>
    BY <2>1 DEF Waiting, Upgradable, Unconfirmed
  <2> QED BY <2>1, <2>2 DEF Waiting, Field!vars
<1> QED BY <1>1, <1>2, <1>3, <1>4, <1>5, <1>6, <1>7, <1>8, <1>9, <1>10 DEF Next, Firmware

\* Sectors, words, buffers and power that fails between any two steps implement the
\* update the owner of the board is promised, for every image, every length and every
\* flash operation that may fail, the confirmation included.
THEOREM FieldRefinement == Spec => FieldSpec
<1>1. Spec => []WorkspaceGone
  BY FieldInitially, GoneKept, UpdateInvariance, PTL DEF Spec
<1>2. Init => Field!Init
  BY FieldInitially
<1>3. IInv /\ WorkspaceGone /\ [Next]_vars => [Field!Next]_(Field!vars)
  BY FieldStep DEF FInv
<1> QED BY <1>1, <1>2, <1>3, UpdateInvariance, PTL DEF Spec, FieldSpec, Field!Spec
=============================================================================

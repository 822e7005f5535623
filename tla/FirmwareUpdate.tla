---------------------------- MODULE FirmwareUpdate ----------------------------
(***************************************************************************)
(* Field update of the managed firmware: an image uploaded over SSH is     *)
(* staged in the secondary slot, verified twice and marked for a trial     *)
(* boot (Rust/src/firmware_update.rs); MCUboot swaps it in, and swaps back *)
(* at the next reset unless the new image has confirmed itself             *)
(* (firmware_update.rs, boot_confirmation.rs).                             *)
(*                                                                         *)
(* Power may be lost between any two steps and in the middle of erasing or *)
(* programming; a client may vanish wherever the upload awaits it.  Image  *)
(* bytes are abstracted to blocks that name their image and position, and  *)
(* a digest to the image it was computed over.                             *)
(***************************************************************************)
EXTENDS Integers, Sequences

CONSTANTS
  Images,     \* contents a client may upload or a programmer install
  Signed,     \* those with a valid release signature
  Kind,       \* [Images -> Kinds], which binary an image is
  Blocks,     \* [Images -> 1..Capacity], the length of an image
  Capacity,   \* blocks in the staging area (MAX_SIGNED_IMAGE_SIZE)
  Factory,    \* the image installed by the programmer
  Faults,     \* bound: the flash operations that may fail
  None

\* native_rmii_managed, the same built with rollback-test, native_rmii_messaging.
Kinds == {"managed", "rollback", "messaging"}
Operations == {"erase", "program", "read", "confirm"}

ASSUME UpdateAssumption ==
  /\ Capacity \in Nat \ {0}
  /\ Signed \subseteq Images
  /\ Factory \in Signed
  /\ None \notin Images
  /\ Kind \in [Images -> Kinds]
  /\ Blocks \in [Images -> 1..Capacity]
  /\ Faults \subseteq Operations

Chunks == [image : Images, block : 1..Capacity]
\* What a block may hold instead: other bytes, or the traces of an erase.
Junk == [image |-> None, block |-> 0]
Erased == [image |-> None, block |-> -1]
HalfErased == [image |-> None, block |-> -2]
Words == {"erased", "set", "damaged"}       \* a programmable word of a trailer

\* Sectors of the secondary slot in the order they are erased: the swap
\* workspace, where a swap leaves the previous image, the staging area, the trailer.
Workspace == 0
Trailer == Capacity + 1
Sectors == Workspace..Trailer

VARIABLES
  primary,     \* the active image and its trailer
  secondary,   \* the workspace, the staging area and their trailer
  pc,          \* where the firmware is
  upload,      \* the upload in progress
  activated,   \* history: the last image whose markers were programmed
  previous     \* history: the image a trial replaced

vars == <<primary, secondary, pc, upload, activated, previous>>
flash == <<primary, secondary>>
history == <<activated, previous>>

Slots ==
  [workspace : Images \cup {None},
   staged : [1..Capacity -> Chunks \cup {Junk, Erased, HalfErased}],
   info : Words, magic : Words]
Uploads ==
  [image : Images \cup {None}, blocks : 0..Capacity, stream : Seq(Chunks \cup {Junk}),
   sector : 0..(Capacity + 2)]

EmptySlot ==
  [workspace |-> None, staged |-> [b \in 1..Capacity |-> Erased],
   info |-> "erased", magic |-> "erased"]
NoUpload == [image |-> None, blocks |-> 0, stream |-> <<>>, sector |-> 0]

Init ==
  /\ primary = [image |-> Factory, magic |-> "erased", image_ok |-> "erased"]
  /\ secondary = EmptySlot
  /\ pc = "off" /\ upload = NoUpload
  /\ activated = None /\ previous = None

-----------------------------------------------------------------------------
(* MCUboot: what the firmware relies on at a reset.                          *)

Holds(staged, image) ==
  \A b \in 1..Blocks[image] : staged[b] = [image |-> image, block |-> b]

\* An upgrade is carried out only if its image is intact and signed.
Upgradable(image) ==
  secondary.magic = "set" /\ image \in Signed /\ Holds(secondary.staged, image)

\* The running image is on trial until its image_ok is programmed.
Unconfirmed == primary.magic = "set" /\ primary.image_ok # "set"

SwapIn(image) ==
  /\ Upgradable(image)
  /\ primary' = [image |-> image, magic |-> "set", image_ok |-> "erased"]
  /\ secondary' = [EmptySlot EXCEPT !.workspace = primary.image]
  /\ previous' = primary.image

SwapBack ==
  /\ secondary.magic # "set" /\ Unconfirmed /\ secondary.workspace # None
  /\ primary' = [image |-> secondary.workspace, magic |-> "set", image_ok |-> "set"]
  /\ secondary' = [EmptySlot EXCEPT !.workspace = primary.image]
  /\ UNCHANGED previous

\* Nothing valid to swap with: the primary image starts again.
StartPrimary ==
  /\ \A image \in Images : ~Upgradable(image)
  /\ secondary.magic = "set" \/ ~Unconfirmed \/ secondary.workspace = None
  /\ UNCHANGED <<flash, previous>>

Boot ==
  /\ pc = "off"
  /\ (\E image \in Images : SwapIn(image)) \/ SwapBack \/ StartPrimary
  /\ pc' = "starting" /\ upload' = NoUpload
  /\ UNCHANGED activated

PowerLoss == pc # "off" /\ pc' = "off" /\ UNCHANGED <<flash, upload, history>>

-----------------------------------------------------------------------------
(* Start-up and confirmation.                                                *)

MayFail(operation) == operation \in Faults

\* What programming an erased word leaves behind.
Programmed(failing) == IF failing THEN Words ELSE {"set"}

\* Mutant: the updater is served without a confirmation.
confirm_running_trial_Skipped == UNCHANGED primary

\* native_rmii_managed: image_ok is programmed unless it is set, and what comes
\* of it is not looked at.  A word that was damaged cannot be programmed again.
confirm_running_trial ==
  \/ (~Unconfirmed \/ MayFail("read")) /\ UNCHANGED primary
  \/ /\ Unconfirmed
     /\ \E word \in Programmed(MayFail("confirm")) :
          primary' = [primary EXCEPT !.image_ok = IF @ = "erased" THEN word ELSE "damaged"]

\* The confirmation precedes the updater, which is then given the flash.
StartManaged ==
  /\ pc = "starting" /\ Kind[primary.image] = "managed"
  /\ confirm_running_trial
  /\ pc' = "serving"
  /\ UNCHANGED <<secondary, upload, history>>

StartRollbackTest ==
  /\ pc = "starting" /\ Kind[primary.image] = "rollback"
  /\ pc' = "serving"
  /\ UNCHANGED <<flash, upload, history>>

\* native_rmii_messaging: only an erased word is programmed, after every task has
\* reached its checkpoint; there is no updater.
StartMessaging ==
  /\ pc = "starting" /\ Kind[primary.image] = "messaging"
  /\ \/ UNCHANGED primary                        \* no checkpoint, or an error
     \/ /\ Unconfirmed /\ primary.image_ok = "erased"
        /\ \E word \in Programmed(MayFail("confirm")) :
             primary' = [primary EXCEPT !.image_ok = word]
  /\ pc' = "running"
  /\ UNCHANGED <<secondary, upload, history>>

-----------------------------------------------------------------------------
(* Receiving an image.                                                       *)

\* The upload is given up; the server waits for the next connection.
GiveUp == pc' = "serving" /\ upload' = NoUpload

\* Erasing or programming that fails is reported, or is the power failing.
Interrupted == GiveUp \/ (pc' = "off" /\ UNCHANGED upload)

LengthAccepted(blocks) == blocks \in 1..Capacity

\* Mutant: the erase starts behind the swap workspace.
Header_KeepsWorkspace(image, blocks) ==
  /\ pc = "serving"
  /\ LengthAccepted(blocks)
  /\ upload' = [NoUpload EXCEPT !.image = image, !.blocks = blocks, !.sector = Workspace + 1]
  /\ pc' = "erase"
  /\ UNCHANGED <<flash, history>>

\* A header with a length out of range is refused before flash is touched.
Header(image, blocks) ==
  /\ pc = "serving"
  /\ LengthAccepted(blocks)
  /\ upload' = [NoUpload EXCEPT !.image = image, !.blocks = blocks]
  /\ pc' = "erase"
  /\ UNCHANGED <<flash, history>>

\* The slot after a sector was erased, or half erased (word).
Wiped(slot, sector, word) ==
  IF sector = Workspace THEN [slot EXCEPT !.workspace = None]
  ELSE IF sector = Trailer
       THEN [slot EXCEPT !.info = IF word = Erased THEN "erased" ELSE "damaged",
                         !.magic = IF word = Erased THEN "erased" ELSE "damaged"]
  ELSE [slot EXCEPT !.staged[sector] = word]

EraseSector ==
  /\ pc = "erase"
  /\ \/ /\ secondary' = Wiped(secondary, upload.sector, Erased)
        /\ upload' = [upload EXCEPT !.sector = @ + 1]
        /\ pc' = (IF upload.sector = Trailer THEN "receive" ELSE "erase")
     \/ /\ MayFail("erase")
        /\ secondary' \in {secondary, Wiped(secondary, upload.sector, HalfErased)}
        /\ Interrupted
  /\ UNCHANGED <<primary, history>>

Received(chunk) == Append(upload.stream, chunk)

\* A buffer of the image is hashed and programmed; the first one has to start
\* like an image.  Programming may leave wrong bytes and still succeed.
ReceiveChunk(chunk) ==
  /\ pc = "receive"
  /\ Len(upload.stream) < upload.blocks
  /\ LET block == Len(upload.stream) + 1
         Staged(c) == [secondary EXCEPT !.staged[block] = c] IN
       \/ /\ block = 1 /\ chunk.block # 1
          /\ GiveUp
          /\ UNCHANGED secondary
       \/ /\ block = 1 => chunk.block = 1
          /\ secondary' \in {Staged(chunk)}
                              \cup (IF MayFail("program") THEN {Staged(Junk)} ELSE {})
          /\ upload' = [upload EXCEPT !.stream = Received(chunk)]
          /\ pc' = "receive"
       \/ /\ block = 1 => chunk.block = 1
          /\ MayFail("program")
          /\ secondary' \in {secondary, Staged(Junk)}
          /\ Interrupted
  /\ UNCHANGED <<primary, history>>

\* The digest the client announced is that of its whole image.
Digest(image, stream) ==
  stream = [b \in 1..Blocks[image] |-> [image |-> image, block |-> b]]

\* The stream, and what was read back from flash, have the announced digest.
Verified ==
  /\ Digest(upload.image, upload.stream)
  /\ Digest(upload.image, SubSeq(secondary.staged, 1, upload.blocks))

Verify ==
  /\ pc = "receive"
  /\ Len(upload.stream) = upload.blocks
  /\ \/ /\ Verified
        /\ pc' = "mark" /\ UNCHANGED upload
     \/ /\ ~Verified \/ MayFail("read")
        /\ GiveUp
  /\ UNCHANGED <<flash, history>>

\* Mutant: the magic is programmed before the swap information.
Markers_MagicFirst == <<"magic", "info">>

\* The swap information is programmed first, the magic last.
Markers == <<"info", "magic">>

Marked(marker, word) ==
  IF marker = "info" THEN [secondary EXCEPT !.info = word]
  ELSE [secondary EXCEPT !.magic = word]

ProgramMarker ==
  LET marker == Markers[IF pc = "mark" THEN 1 ELSE 2] IN
  /\ pc \in {"mark", "activate"}
  /\ \/ /\ secondary' = Marked(marker, "set")
        /\ pc' = (IF pc = "mark" THEN "activate" ELSE "reboot")
        /\ UNCHANGED upload
     \/ /\ MayFail("program")
        /\ \E word \in Programmed(TRUE) : secondary' = Marked(marker, word)
        /\ Interrupted
  /\ activated' = (IF marker = "magic" THEN upload.image ELSE activated)
  /\ UNCHANGED <<primary, previous>>

\* OK is sent, and half a second later the board resets into the trial.
Reset ==
  /\ pc = "reboot"
  /\ pc' = "off"
  /\ UNCHANGED <<flash, upload, history>>

\* The connection is lost while the upload awaits its client.
Disconnect ==
  /\ \/ pc = "erase" /\ upload.sector = 0        \* before ERASING was sent
     \/ pc \in {"receive", "reboot"}
  /\ GiveUp
  /\ UNCHANGED <<flash, history>>

Firmware ==
  \/ StartManaged \/ StartRollbackTest \/ StartMessaging
  \/ \E image \in Images, blocks \in 0..(Capacity + 1) : Header(image, blocks)
  \/ EraseSector
  \/ \E chunk \in Chunks \cup {Junk} : ReceiveChunk(chunk)
  \/ Verify \/ ProgramMarker \/ Reset

Next == Boot \/ PowerLoss \/ Firmware \/ Disconnect

Spec == Init /\ [][Next]_vars

-----------------------------------------------------------------------------
\* Every variable keeps its type.
TypeOK ==
  /\ primary \in [image : Images, magic : {"erased", "set"}, image_ok : Words]
  /\ secondary \in Slots
  /\ pc \in {"off", "starting", "serving", "running", "erase", "receive", "mark",
             "activate", "reboot"}
  /\ upload \in Uploads
  /\ activated \in Images \cup {None}
  /\ previous \in Images \cup {None}

\* Once the magic is set, a reset tries the staged image: it then is the image
\* verified last, or what an interrupted erase has left of it, and it has its swap
\* information.  "Program the magic last so a reset at every earlier instruction
\* keeps the old image active" (firmware_update.rs).
PendingIsVerified ==
  secondary.magic = "set" =>
    /\ activated # None
    /\ secondary.info = "set"
    /\ \A b \in 1..Blocks[activated] :
         secondary.staged[b] \in {[image |-> activated, block |-> b], Erased, HalfErased}

\* A reset brings up the image that runs, the one that was activated, or the one a
\* trial replaced: whatever was interrupted, never anything else.
SwapsAreIntended ==
  [][ primary'.image # primary.image =>
        primary'.image \in {activated, previous} /\ primary'.image \in Signed ]_vars

\* The image on trial is one that is meant to confirm itself.
OnTrial == Unconfirmed /\ Kind[primary.image] # "rollback"

\* A reset of an image on trial brings the previous image back (firmware_update.rs:
\* MCUboot "rolls back unless the new application confirms itself").
RollsBack ==
  [][ (Boot /\ OnTrial) => primary'.image = previous ]_vars

\* Why it does: nothing touches the previous image while the new one is on trial.
TrialRevertible ==
  OnTrial =>
    /\ previous # None /\ secondary.workspace = previous
    /\ secondary.magic # "set"

\* The update as the owner of the board sees it.
Field == INSTANCE FieldUpdate WITH
  power <- pc # "off",
  running <- primary.image,
  trial <- Unconfirmed,
  fallback <- secondary.workspace,
  verified <- IF pc \in {"mark", "activate"} THEN upload.image ELSE None,
  pending <- {image \in Images : Upgradable(image)}

\* Staging, marking, swapping and confirming, with power that fails and flash that
\* errs between any two of their steps, implement the update the owner is promised:
\* a reset "at every earlier instruction keeps the old image active"
\* (firmware_update.rs), and after it tries the image that was verified.
FieldSpec == Field!Spec
=============================================================================

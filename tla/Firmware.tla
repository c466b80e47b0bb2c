------------------------------- MODULE Firmware -------------------------------
(***************************************************************************)
(* Firmware updates over two app slots: the upload of src/src/web.rs, its  *)
(* check in src/src/update.rs, the slots and otadata of                    *)
(* src/src/firmware.rs, confirm_task of src/src/bin/main.rs, and the       *)
(* bootloader that gives a new image one boot and goes back from it        *)
(* (ADR-0022, ADR-0024), with the power going at any step.                 *)
(*                                                                         *)
(* otadata holds an entry for each slot, in a sector of its own, numbered  *)
(* by when it was last pointed at: all that is read from the numbers is    *)
(* which entry is the latest.  The writes of an image are one step that    *)
(* spoils the slot and one that completes it.                              *)
(***************************************************************************)
EXTENDS Naturals

CONSTANTS
  FlashFails,                        \* whether a flash operation may fail
  MaxUploads, MaxMeals, MaxCuts      \* bounds

Slots == {"Ota0", "Ota1"}
Other(s) == IF s = "Ota0" THEN "Ota1" ELSE "Ota0"

SlotState == {"Blank", "Undefined", "New", "PendingVerify", "Valid", "Aborted"}
Image     == {"Whole", "Refused", "Torn"}

ASSUME FirmwareAssumption ==
  /\ FlashFails \in BOOLEAN
  /\ MaxUploads \in Nat /\ MaxMeals \in Nat /\ MaxCuts \in Nat

VARIABLES
  image,             \* what each slot holds; Refused is whole, but failed the check
  state,             \* each otadata entry's state
  latest,            \* the entry with the higher sequence number
  booted,            \* the slot running, as the MMU says, or None
  upload,            \* how far the upload that has the sectors is
  restarting,        \* an upload before it was selected, and its connection restarts
  confirm,           \* what confirm_task is at; Failed is over, not confirmed
  broker,            \* BUS.net.broker()
  turning            \* the motor runs: web::idle is false

\* History, read by the properties only, and counters that bound a run.
VARIABLES
  proved,            \* the image in the slot has been confirmed
  boots,             \* how often it has been booted, up to 2
  hasty,             \* an upload was written while the image running was unproved
  half,              \* a selection stopped between its two writes
  spent

flash  == <<image, state, latest>>
ghosts == <<proved, boots, hasty, half>>
tasks  == <<restarting, confirm, broker, turning>>
vars   == <<flash, booted, upload, tasks, ghosts, spent>>

Spend(what, most) == spent[what] < most /\ spent' = [spent EXCEPT ![what] = @ + 1]
-----------------------------------------------------------------------------
(***************************************************************************)
(* otadata.                                                                *)
(***************************************************************************)

\* What otadata selects: the latest entry that is not blank.
Current == IF state[latest] = "Blank" THEN Other(latest) ELSE latest
AllBlank == \A s \in Slots : state[s] = "Blank"

\* What a write that fails, or is cut off, may leave of an entry.
Torn(s) == {state, [state EXCEPT ![s] = "Blank"]}

\* Running::pending: the bootloader is waiting for the running image.
Awaiting == booted = Current /\ state[Current] = "PendingVerify"

\* The slot an upload goes to is the one not running.  The variant takes the one
\* after what otadata selects.
idle_slotAfterCurrent == Other(Current)
idle_slot == Other(booted)
-----------------------------------------------------------------------------
(***************************************************************************)
(* The bootloader.  An image still pending when the chip resets has had    *)
(* its boot; a New one is given its own.  With no entry to go by it starts *)
(* from the first slot, and an image that does not verify is passed over.  *)
(***************************************************************************)
Reviewed == [s \in Slots |-> IF state[s] = "PendingVerify" THEN "Aborted" ELSE state[s]]
Usable   == {s \in Slots : Reviewed[s] \in {"New", "Valid", "Undefined"}}
Chosen   == IF latest \in Usable THEN latest
            ELSE IF Usable # {} THEN Other(latest) ELSE "Ota0"
BootEntries ==
  IF Usable = {} THEN [Reviewed EXCEPT !["Ota0"] = "Valid"]
  ELSE [Reviewed EXCEPT ![Chosen] = IF @ = "New" THEN "PendingVerify" ELSE @]
Bootable == {s \in Slots : image[s] # "Torn"}
BootChoice == IF Chosen \in Bootable THEN Chosen ELSE Other(Chosen)

Boot ==
  /\ booted = "None" /\ Bootable # {}
  /\ state' = BootEntries
  /\ latest' = IF Usable = {} THEN "Ota1" ELSE latest
  /\ booted' = BootChoice
  /\ confirm' \in {IF Awaiting' THEN "Waiting" ELSE "Off"} \cup
                  (IF FlashFails THEN {"Off"} ELSE {})
  /\ boots' = [boots EXCEPT ![BootChoice] = IF @ = 2 THEN 2 ELSE @ + 1]
  /\ UNCHANGED <<image, upload, restarting, broker, turning, proved, hasty, half, spent>>

\* The power goes while the bootloader writes an entry.
BootCut ==
  /\ booted = "None"
  /\ Spend("cuts", MaxCuts)
  /\ \E s \in Slots : BootEntries[s] # state[s] /\ state' \in Torn(s)
  /\ UNCHANGED <<image, latest, booted, upload, tasks, ghosts>>

Init ==
  /\ image = [s \in Slots |-> IF s = "Ota0" THEN "Whole" ELSE "Torn"]
  /\ state = [s \in Slots |-> IF s = "Ota0" THEN "Valid" ELSE "Blank"]
  /\ latest = "Ota0"
  /\ booted = "None" /\ upload = "None" /\ confirm = "Off"
  /\ restarting = FALSE /\ broker = FALSE /\ turning = FALSE
  /\ proved = [s \in Slots |-> s = "Ota0"]
  /\ boots = [s \in Slots |-> 0]
  /\ hasty = FALSE /\ half = FALSE
  /\ spent = [what \in {"uploads", "meals", "cuts"} |-> 0]
-----------------------------------------------------------------------------
(***************************************************************************)
(* The upload.  firmware::select does not await between its two writes, so *)
(* nothing else on the chip runs there.  An upload has the sectors until   *)
(* its connection goes to restart; from then until the chip resets another *)
(* connection may upload, over what was selected.                          *)
(***************************************************************************)
Awake      == booted # "None" /\ upload # "Pointed"
flash_busy == upload \in {"Claimed", "Writing", "Written", "Pointed"}

Claim ==
  /\ Awake /\ upload = "None" /\ ~turning
  /\ Spend("uploads", MaxUploads)
  /\ upload' = "Claimed"
  /\ UNCHANGED <<flash, booted, tasks, ghosts>>

\* The first sector: what the slot held is gone.
WriteFirst ==
  /\ Awake /\ upload = "Claimed"
  /\ upload' = "Writing"
  /\ image' = [image EXCEPT ![idle_slot] = "Torn"]
  /\ proved' = [proved EXCEPT ![idle_slot] = FALSE]
  /\ boots' = [boots EXCEPT ![idle_slot] = 0]
  /\ hasty' = (hasty \/ ~proved[booted])
  /\ UNCHANGED <<state, latest, booted, tasks, half, spent>>

\* The last sector and ImageCheck::finish: the image may be selected, or is
\* whole and refused for its secret, or is corrupt.
Verdict == {<<"Whole", "Written">>, <<"Refused", "None">>, <<"Torn", "None">>}
WriteLast ==
  /\ Awake /\ upload = "Writing"
  /\ \E v \in Verdict :
       /\ image' = [image EXCEPT ![idle_slot] = v[1]]
       /\ upload' = v[2]
  /\ UNCHANGED <<state, latest, booted, tasks, ghosts, spent>>

\* The connection drops, the bytes are refused as they come, or flash fails.
Abandon ==
  /\ Awake /\ upload \in {"Claimed", "Writing"}
  /\ upload' = "None"
  /\ UNCHANGED <<flash, booted, tasks, ghosts, spent>>

\* select, first write: set_current_app_partition, which writes nothing when
\* the slot is selected already, and keeps the state the entry last held.
PointedAt(s) == IF state[s] = "Blank" THEN [state EXCEPT ![s] = "Undefined"] ELSE state
Point ==
  /\ Awake /\ upload = "Written"
  /\ \/ /\ ~AllBlank
        /\ upload' = "Pointed"
        /\ state' = PointedAt(idle_slot) /\ latest' = idle_slot
     \/ /\ AllBlank \/ FlashFails
        /\ upload' = "None"
        /\ state' \in (IF AllBlank \/ Current = idle_slot THEN {state} ELSE Torn(idle_slot))
        /\ UNCHANGED latest
  /\ UNCHANGED <<image, booted, tasks, ghosts, spent>>

\* select, second write: set_current_ota_state(New).  The variants take
\* the state that is there, and write the one the bootloader will.
MarkedKept(s) == state
MarkedPending(s) == [state EXCEPT ![s] = "PendingVerify"]
Marked(s) == [state EXCEPT ![s] = "New"]
Mark ==
  /\ booted # "None" /\ upload = "Pointed"
  /\ \/ upload' = "Draining" /\ state' = Marked(Current) /\ UNCHANGED half
     \/ FlashFails /\ upload' = "None" /\ state' \in Torn(Current) /\ half' = TRUE
  /\ UNCHANGED <<image, latest, booted, tasks, proved, boots, hasty, spent>>

\* Answered, and nothing turns or is queued: the sectors are let go, and the
\* connection closes, flushes and waits before it resets the chip.
Drained ==
  /\ Awake /\ upload = "Draining" /\ ~turning
  /\ upload' = "None" /\ restarting' = TRUE
  /\ UNCHANGED <<flash, booted, confirm, broker, turning, ghosts, spent>>
-----------------------------------------------------------------------------
(***************************************************************************)
(* confirm_task, and what it waits for.                                    *)
(***************************************************************************)

\* confirm: the running image has reached the broker; a write that fails is not
\* tried again.  The variant looks for the state select wrote.
ConfirmableNew == booted = Current /\ state[Current] = "New"
Confirmable    == Awaiting
Confirm ==
  /\ Awake /\ confirm = "Waiting" /\ broker
  /\ \/ ~Confirmable /\ confirm' = "Off" /\ UNCHANGED state
     \/ Confirmable /\ confirm' = "Off" /\ state' = [state EXCEPT ![Current] = "Valid"]
     \/ Confirmable /\ FlashFails /\ confirm' = "Failed" /\ state' \in Torn(Current)
  /\ proved' = [proved EXCEPT ![booted] = @ \/ (Awaiting /\ state'[booted] = "Valid")]
  /\ UNCHANGED <<image, latest, booted, upload, restarting, broker, turning, boots,
                 hasty, half, spent>>

\* CONFIRM_SECS have gone.  The broker may have answered since the last look.
GiveUp ==
  /\ Awake /\ confirm = "Waiting"
  /\ confirm' = "RollingBack"
  /\ UNCHANGED <<flash, booted, upload, restarting, broker, turning, ghosts, spent>>

SetBroker(up) ==
  /\ Awake /\ broker' = up /\ up # broker
  /\ UNCHANGED <<flash, booted, upload, restarting, confirm, turning, ghosts, spent>>

Meal ==
  /\ Awake /\ ~turning /\ ~flash_busy
  /\ Spend("meals", MaxMeals)
  /\ turning' = TRUE
  /\ UNCHANGED <<flash, booted, upload, restarting, confirm, broker, ghosts>>

MealEnds ==
  /\ Awake /\ turning
  /\ turning' = FALSE
  /\ UNCHANGED <<flash, booted, upload, restarting, confirm, broker, ghosts, spent>>
-----------------------------------------------------------------------------
\* RAM and the peripherals are lost.
Reset ==
  /\ booted' = "None" /\ upload' = "None" /\ confirm' = "Off"
  /\ restarting' = FALSE /\ broker' = FALSE /\ turning' = FALSE
  /\ UNCHANGED <<image, latest, proved, boots, hasty>>

\* The upload's restart, whatever began since it was drained; and confirm_task's,
\* which resets as it finds that nothing turns.
Restart ==
  /\ Awake
  /\ restarting \/ (confirm = "RollingBack" /\ ~turning)
  /\ Reset
  /\ UNCHANGED <<state, half, spent>>

\* The entry a write is in progress on, if any, is lost with the power.
UnderWrite ==
  {s \in Slots : \/ upload = "Written" /\ s = idle_slot /\ s # Current
                 \/ upload = "Pointed" /\ s = Current
                 \/ confirm = "Waiting" /\ broker /\ Awaiting /\ s = booted}

\* A power cut, the watchdog, or a reset another task asks for.
PowerCut ==
  /\ booted # "None"
  /\ Spend("cuts", MaxCuts)
  /\ Reset
  /\ state' \in {state} \cup UNION {Torn(s) : s \in UnderWrite}
  /\ half' = (half \/ upload = "Pointed")

Next ==
  \/ Boot \/ BootCut
  \/ Claim \/ WriteFirst \/ WriteLast \/ Abandon \/ Point \/ Mark \/ Drained
  \/ Confirm \/ GiveUp \/ (\E up \in BOOLEAN : SetBroker(up))
  \/ Meal \/ MealEnds
  \/ Restart \/ PowerCut

\* The bootloader runs; confirm_task looks once a second and gives up in the
\* end; a meal ends at its last click or its jam timeout; the restarts come.
Fairness ==
  /\ WF_vars(Boot) /\ WF_vars(Mark) /\ WF_vars(Point) /\ WF_vars(Drained)
  /\ WF_vars(Confirm \/ GiveUp) /\ WF_vars(MealEnds) /\ WF_vars(Restart)

Spec     == Init /\ [][Next]_vars
FairSpec == Spec /\ Fairness
-----------------------------------------------------------------------------
\* The type of every variable.
TypeOK ==
  /\ image \in [Slots -> Image] /\ state \in [Slots -> SlotState]
  /\ latest \in Slots /\ booted \in Slots \cup {"None"}
  /\ upload \in {"None", "Claimed", "Writing", "Written", "Pointed", "Draining"}
  /\ confirm \in {"Off", "Waiting", "Failed", "RollingBack"}
  /\ restarting \in BOOLEAN /\ broker \in BOOLEAN /\ turning \in BOOLEAN
  /\ proved \in [Slots -> BOOLEAN] /\ boots \in [Slots -> 0 .. 2]
  /\ hasty \in BOOLEAN /\ half \in BOOLEAN
  /\ spent \in [{"uploads", "meals", "cuts"} -> Nat]

\* Whatever is uploaded, refused, torn or rolled back, there is an image to
\* boot, and what is running is never written over: after a rollback otadata
\* still names the image that failed, and an upload must not go by it.
AlwaysBoots ==
  /\ Bootable # {}
  /\ booted # "None" => booted \in Bootable

\* While an image is on trial, the proved one it replaced is whole and is what
\* the next reset boots: unless an upload has written over it meanwhile, or its
\* own selection stopped half way.
WayBack ==
  (booted # "None" /\ ~proved[booted] /\ ~hasty /\ ~half)
     => proved[Other(booted)] /\ BootChoice = Other(booted)

\* A new image is booted once, and again only after it is confirmed: with
\* the same two exceptions.
OneChance == (~hasty /\ ~half) => \A s \in Slots : proved[s] \/ boots[s] <= 1

\* A trial ends: the image is confirmed or reset away, and does not stay on
\* trial, unless flash refused the confirmation.
TrialEnds == (confirm = "Waiting") ~> (confirm = "Failed" \/ ~Awaiting)

\* An upload that was selected is booted, whatever cuts its restart short,
\* unless its entry is lost to a write of otadata, or another upload writes over
\* it before the chip resets.
SelectedBoots ==
  \A s \in Slots :
    (upload = "Draining" /\ Current = s)
       ~> (booted = s \/ state[s] = "Blank" \/ image[s] = "Torn")
=============================================================================

---------------------------- MODULE FirmwareProofs ----------------------------
(***************************************************************************)
(* What Firmware promises, for any number of uploads, meals and power      *)
(* cuts, with or without flash that fails; and then what Upload does, for  *)
(* any images, cut into any pieces, and any mark.                          *)
(***************************************************************************)
EXTENDS Firmware, Upload, SequenceTheorems, WellFoundedInduction, TLAPS

\* What an upload is doing to the slot that does not run.
Uploading ==
  /\ upload # "None" \/ restarting => booted # "None"
  /\ upload \in {"Writing", "Written", "Pointed", "Draining"} =>
       ~proved[Other(booted)] /\ boots[Other(booted)] = 0
  /\ upload \in {"Written", "Pointed"} => image[Other(booted)] = "Whole"
  /\ upload = "Pointed" => latest = Other(booted) /\ state[latest] # "Blank"
  /\ confirm # "Off" => booted # "None"

\* A proved image can be booted, and its entry says so; of two, the latest runs.
Settled ==
  /\ \A s \in Slots : proved[s] => image[s] # "Torn" /\ state[s] = "Valid"
  /\ (booted # "None" /\ proved[booted] /\ proved[Other(booted)]) => latest = booted

\* The slot that is to have its boot is the latest and does not run.  Its image
\* may be torn: another upload can write over it before the chip resets.
Candidate(s) == state[s] = "New" => latest = s /\ booted # s

\* An image that is not proved cannot be what otadata falls back to: it is
\* waiting for its one boot, has had it, or its entry is not the latest.
Unproved(s) ==
  /\ state[s] \in {"Valid", "Undefined"} => latest # s \/ upload = "Pointed"
  /\ boots[s] # 0 => boots[s] = 1 /\ state[s] \in {"PendingVerify", "Aborted", "Blank"}
  /\ booted = s => state[s] \in {"PendingVerify", "Blank"}

\* Unless a cut or a hasty boot came between, some image is proved, and the rest are still on trial.
Trial ==
  (~hasty /\ ~half) =>
     /\ \E s \in Slots : proved[s]
     /\ \A s \in Slots : ~proved[s] => Unproved(s)

\* The inductive invariant of the update.
FirmwareInv ==
  /\ TypeOK /\ AlwaysBoots /\ Uploading /\ Settled /\ Trial
  /\ \A s \in Slots : Candidate(s)
-----------------------------------------------------------------------------
\* There are two slots.
LEMMA TwoSlots ==
  /\ \A s \in Slots : Other(s) \in Slots /\ Other(s) # s /\ Other(Other(s)) = s
  /\ \A s, t \in Slots : t = s \/ t = Other(s)
  /\ "None" \notin Slots
BY DEF Slots, Other

\* What a failed or interrupted write leaves is still an entry.
LEMMA TornState ==
  ASSUME TypeOK, NEW s \in Slots
  PROVE  Torn(s) \subseteq [Slots -> SlotState]
BY DEF TypeOK, Torn, SlotState

\* The bootloader's entries are entries, and it chooses a slot.
LEMMA BootTypes ==
  ASSUME TypeOK
  PROVE  /\ Reviewed \in [Slots -> SlotState] /\ BootEntries \in [Slots -> SlotState]
         /\ Current \in Slots /\ Chosen \in Slots /\ BootChoice \in Slots
         /\ Usable \subseteq Slots
<1>1. Reviewed \in [Slots -> SlotState]
  BY DEF Reviewed, TypeOK, SlotState
<1>2. Usable \subseteq Slots /\ Current \in Slots
  BY TwoSlots DEF Usable, Current, TypeOK
<1>3. Chosen \in Slots
  BY <1>2, TwoSlots DEF Chosen, TypeOK, Slots
<1>4. BootChoice \in Slots
  BY <1>3, TwoSlots DEF BootChoice
<1>5. BootEntries \in [Slots -> SlotState]
  BY <1>1, <1>3 DEF BootEntries, SlotState
<1> QED BY <1>1, <1>2, <1>3, <1>4, <1>5

\* A unit as it is flashed at the desk.
LEMMA InitInv == Init => FirmwareInv
<1> SUFFICES ASSUME Init PROVE FirmwareInv
  OBVIOUS
<1>1. TypeOK
  <2>1. image \in [Slots -> Image] /\ state \in [Slots -> SlotState]
    BY DEF Init, Slots, Image, SlotState
  <2>2. proved \in [Slots -> BOOLEAN]
    BY Zenon DEF Init
  <2>3. boots \in [Slots -> 0 .. 2] /\ spent \in [{"uploads", "meals", "cuts"} -> Nat]
    BY DEF Init
  <2> QED BY <2>1, <2>2, <2>3 DEF Init, TypeOK, Slots
<1>2. AlwaysBoots /\ Uploading /\ Settled
  <2>1. "Ota0" \in Bootable
    BY DEF Init, Bootable, Slots
  <2> QED BY <2>1 DEF Init, AlwaysBoots, Uploading, Settled, Slots
<1>3. Trial /\ \A s \in Slots : Candidate(s)
  BY DEF Init, Trial, Unproved, Candidate, Slots
<1> QED BY <1>1, <1>2, <1>3 DEF FirmwareInv

\* The counters stay counters.
LEMMA SpendTypes ==
  ASSUME TypeOK, NEW what \in {"uploads", "meals", "cuts"}, NEW most, Spend(what, most)
  PROVE  spent' \in [{"uploads", "meals", "cuts"} -> Nat]
BY DEF TypeOK, Spend
-----------------------------------------------------------------------------
(***************************************************************************)
(* Every step keeps every variable in its type.                            *)
(***************************************************************************)
LEMMA TypeStep == TypeOK /\ [Next]_vars => TypeOK'
<1> SUFFICES ASSUME TypeOK, [Next]_vars PROVE TypeOK'
  OBVIOUS
<1>1. CASE Boot
  <2>1. state' \in [Slots -> SlotState] /\ booted' \in Slots /\ latest' \in Slots
    BY <1>1, BootTypes DEF Boot, TypeOK, Slots
  <2>2. boots' \in [Slots -> 0 .. 2]
    <3>1. boots[BootChoice] \in 0 .. 2
      BY BootTypes DEF TypeOK
    <3>2. (IF boots[BootChoice] = 2 THEN 2 ELSE boots[BootChoice] + 1) \in 0 .. 2
      BY <3>1
    <3> QED BY <1>1, <3>2, BootTypes DEF Boot, TypeOK
  <2>3. confirm' \in {"Off", "Waiting", "Failed", "RollingBack"}
    BY <1>1 DEF Boot
  <2> QED BY <1>1, <2>1, <2>2, <2>3 DEF Boot, TypeOK
<1>2. CASE BootCut
  BY <1>2, TornState, SpendTypes DEF BootCut, TypeOK, ghosts, tasks
<1>3. CASE Claim
  BY <1>3, SpendTypes DEF Claim, TypeOK, flash, ghosts, tasks
<1>4. CASE WriteFirst
  BY <1>4, TwoSlots DEF WriteFirst, Awake, idle_slot, TypeOK, Image, tasks
<1>5. CASE WriteLast
  BY <1>5, TwoSlots DEF WriteLast, Verdict, Awake, idle_slot, TypeOK, Image, ghosts, tasks
<1>6. CASE Abandon
  BY <1>6 DEF Abandon, TypeOK, flash, ghosts, tasks
<1>7. CASE Point
  <2>1. idle_slot \in Slots
    BY <1>7, TwoSlots DEF Point, Awake, idle_slot, TypeOK
  <2>2. PointedAt(idle_slot) \in [Slots -> SlotState]
    BY <2>1 DEF PointedAt, TypeOK, SlotState
  <2> QED BY <1>7, <2>1, <2>2, TornState DEF Point, TypeOK, ghosts, tasks
<1>8. CASE Mark
  <2>1. Marked(Current) \in [Slots -> SlotState]
    BY BootTypes DEF Marked, TypeOK, SlotState
  <2> QED BY <1>8, <2>1, TornState, BootTypes DEF Mark, TypeOK, tasks
<1>9. CASE Confirm
  <2>1. [state EXCEPT ![Current] = "Valid"] \in [Slots -> SlotState]
    BY DEF TypeOK, SlotState
  <2>2. state' \in [Slots -> SlotState]
    BY <1>9, <2>1, TornState, BootTypes DEF Confirm, TypeOK
  <2>3. booted \in Slots
    BY <1>9 DEF Confirm, Awake, TypeOK
  <2>4. (proved[booted] \/ (Awaiting /\ state'[booted] = "Valid")) \in BOOLEAN
    BY <2>3 DEF TypeOK
  <2>5. proved' \in [Slots -> BOOLEAN]
    BY <1>9, <2>3, <2>4 DEF Confirm, TypeOK
  <2> QED BY <1>9, <2>2, <2>5 DEF Confirm, TypeOK
<1>10. CASE GiveUp
  BY <1>10 DEF GiveUp, TypeOK, flash, ghosts
<1>11. CASE \E up \in BOOLEAN : SetBroker(up)
  BY <1>11 DEF SetBroker, TypeOK, flash, ghosts
<1>12. CASE Meal
  BY <1>12, SpendTypes DEF Meal, TypeOK, flash, ghosts
<1>13. CASE MealEnds
  BY <1>13 DEF MealEnds, TypeOK, flash, ghosts
<1>14. CASE Restart
  BY <1>14 DEF Restart, Reset, TypeOK
<1>15. CASE PowerCut
  <2>1. state' \in [Slots -> SlotState]
    BY <1>15, TornState DEF PowerCut, UnderWrite, TypeOK
  <2> QED BY <1>15, <2>1, SpendTypes DEF PowerCut, Reset, TypeOK
<1>16. CASE Drained
  BY <1>16 DEF Drained, TypeOK, flash, ghosts
<1>17. CASE UNCHANGED vars
  BY <1>17 DEF vars, tasks, flash, ghosts, TypeOK
<1> QED BY <1>1, <1>2, <1>3, <1>4, <1>5, <1>6, <1>7, <1>8, <1>9, <1>10, <1>11,
           <1>12, <1>13, <1>14, <1>15, <1>16, <1>17 DEF Next

\* Every variable of the update keeps its type, for any number of uploads.
THEOREM TypeCorrect == Spec => []TypeOK
<1>1. Init => TypeOK
  BY InitInv DEF FirmwareInv
<1> QED BY <1>1, TypeStep, PTL DEF Spec
-----------------------------------------------------------------------------
(***************************************************************************)
(* What the bootloader does with a proved image beside one on trial.       *)
(***************************************************************************)

\* A proved image keeps its entry through a boot.
LEMMA ProvedKept ==
  ASSUME TypeOK, Settled, NEW s \in Slots, proved[s]
  PROVE  BootEntries[s] = state[s] /\ s \in Usable /\ s \in Bootable
<1>1. state[s] = "Valid" /\ image[s] # "Torn"
  BY DEF Settled
<1>2. s \in Usable /\ s \in Bootable /\ Reviewed[s] = "Valid"
  BY <1>1 DEF Usable, Bootable, Reviewed
<1>3. Usable # {}
  BY <1>2
<1> QED BY <1>1, <1>2, <1>3, BootTypes DEF BootEntries

\* Beside a proved image, another is chosen only while it is New, and booted if
\* it is not torn.
LEMMA Selection ==
  ASSUME TypeOK, Settled, NEW s \in Slots, ~proved[s], proved[Other(s)],
         state[s] \in {"Valid", "Undefined"} => latest # s,
         state[s] = "New" => latest = s
  PROVE  /\ Usable # {}
         /\ state[s] = "New" =>
              /\ BootChoice = IF image[s] # "Torn" THEN s ELSE Other(s)
              /\ BootEntries[s] = "PendingVerify"
         /\ state[s] # "New" =>
              /\ BootChoice = Other(s)
              /\ BootEntries[s] = Reviewed[s]
<1>1. Other(s) \in Slots /\ Other(s) # s /\ Other(Other(s)) = s
  BY TwoSlots
<1>2. Other(s) \in Usable /\ Other(s) \in Bootable
  BY <1>1, ProvedKept
<1>3. CASE state[s] = "New"
  <2>1. Reviewed[s] = "New" /\ s \in Usable
    BY <1>3 DEF Reviewed, Usable
  <2>2. Chosen = s
    BY <1>3, <2>1 DEF Chosen
  <2>3. BootChoice = IF image[s] # "Torn" THEN s ELSE Other(s)
    BY <2>2 DEF BootChoice, Bootable
  <2> QED BY <1>2, <1>3, <2>1, <2>2, <2>3, BootTypes DEF BootEntries
<1>4. CASE state[s] # "New"
  <2>1. Chosen = Other(s)
    <3>1. CASE latest = s
      <4>1. s \notin Usable
        BY <1>4, <3>1 DEF Usable, Reviewed, TypeOK
      <4> QED BY <1>2, <3>1, <4>1 DEF Chosen
    <3>2. CASE latest # s
      <4>1. latest = Other(s)
        BY <3>2, TwoSlots DEF TypeOK
      <4> QED BY <1>2, <4>1 DEF Chosen
    <3> QED BY <3>1, <3>2
  <2>2. BootChoice = Other(s)
    BY <1>2, <2>1 DEF BootChoice
  <2> QED BY <1>1, <1>2, <1>4, <2>1, <2>2, BootTypes DEF BootEntries
<1> QED BY <1>3, <1>4

\* One of the two images is always proved, if nothing spoiled the way back.
LEMMA OneProved ==
  ASSUME TypeOK, Trial, ~hasty, ~half, NEW s \in Slots, ~proved[s]
  PROVE  proved[Other(s)] /\ Unproved(s)
BY TwoSlots DEF Trial

\* A boot that reaches the image it chose keeps the invariant.
LEMMA BootStep ==
  ASSUME FirmwareInv, TypeOK', Boot PROVE FirmwareInv'
<1> USE DEF FirmwareInv
<1>1. upload = "None" /\ confirm = "Off" /\ booted = "None" /\ ~restarting
  BY DEF Boot, Uploading, TypeOK
<1>2. AlwaysBoots'
  <2>1. Bootable' = Bootable
    BY DEF Boot, Bootable
  <2>2. BootChoice \in Bootable
    BY BootTypes, TwoSlots DEF Boot, BootChoice, Bootable
  <2> QED BY <2>1, <2>2 DEF Boot, AlwaysBoots
<1>3. Uploading'
  BY <1>1, BootTypes, TwoSlots DEF Boot, Uploading
<1>4. Settled'
  <2>1. \A s \in Slots : proved[s] => image[s] # "Torn" /\ state'[s] = "Valid"
    BY ProvedKept DEF Boot, Settled
  <2>2. ASSUME \A s \in Slots : proved[s] PROVE latest' = booted'
    <3>1. latest \in Slots /\ latest \in Usable /\ latest \in Bootable
      BY <2>2, ProvedKept DEF TypeOK
    <3>2. Chosen = latest /\ BootChoice = latest
      BY <3>1 DEF Chosen, BootChoice
    <3> QED BY <3>1, <3>2 DEF Boot
  <2> QED BY <2>1, <2>2, BootTypes, TwoSlots DEF Boot, Settled
<1>5. ASSUME NEW s \in Slots PROVE Candidate(s)'
  <2>1. state'[s] # "New"
    <3>1. CASE state[s] = "New"
      <4>1. latest = s /\ s \in Usable /\ Reviewed[s] = "New"
        BY <3>1 DEF Candidate, Reviewed, Usable
      <4>2. Chosen = s
        BY <4>1 DEF Chosen
      <4> QED BY <4>1, <4>2, BootTypes DEF Boot, BootEntries
    <3>2. CASE state[s] # "New"
      BY <3>2, BootTypes DEF Boot, BootEntries, Reviewed
    <3> QED BY <3>1, <3>2
  <2> QED BY <2>1 DEF Candidate
<1>6. Trial'
  <2> SUFFICES ASSUME ~hasty, ~half PROVE Trial'
    BY DEF Boot, Trial
  <2>1. (\E s \in Slots : proved[s])'
    BY DEF Boot, Trial
  <2>2. ASSUME NEW s \in Slots, ~proved[s] PROVE Unproved(s)'
    <3>1. proved[Other(s)] /\ Unproved(s) /\ Other(s) # s /\ s # "None"
      BY <2>2, OneProved, TwoSlots
    <3>2. state[s] \in {"Valid", "Undefined"} => latest # s
      BY <1>1, <3>1 DEF Unproved
    <3>3. state[s] = "New" => latest = s /\ boots[s] = 0
      <4>1. boots[s] # 0 => state[s] # "New"
        BY <3>1 DEF Unproved
      <4> QED BY <4>1 DEF Candidate
    <3>4. Usable # {} /\ latest' = latest
      BY <2>2, <3>1, <3>2, <3>3, Selection DEF Boot
    <3>5. CASE state[s] = "New"
      <4>1. BootChoice \in {s, Other(s)} /\ state'[s] = "PendingVerify"
        BY <2>2, <3>1, <3>2, <3>3, <3>5, Selection DEF Boot
      <4>2. boots'[s] \in {0, 1}
        BY <3>1, <3>3, <3>5, <4>1 DEF Boot, TypeOK
      <4> QED BY <4>1, <4>2 DEF Unproved
    <3>6. CASE state[s] # "New"
      <4>1. BootChoice = Other(s) /\ state'[s] = Reviewed[s]
        BY <2>2, <3>1, <3>2, <3>3, <3>6, Selection DEF Boot
      <4>2. boots'[s] = boots[s] /\ booted' # s
        BY <3>1, <4>1 DEF Boot, TypeOK
      <4>3. state'[s] = IF state[s] = "PendingVerify" THEN "Aborted" ELSE state[s]
        BY <4>1 DEF Reviewed
      <4> QED BY <3>1, <3>2, <3>4, <3>6, <4>2, <4>3 DEF Unproved
    <3> QED BY <3>5, <3>6
  <2> QED BY <1>1, <2>1, <2>2 DEF Boot, Trial
<1> QED BY <1>2, <1>3, <1>4, <1>5, <1>6

\* So does a boot that is cut off after the bootloader wrote its entry.
LEMMA BootCutStep ==
  ASSUME FirmwareInv, TypeOK', BootCut PROVE FirmwareInv'
<1> USE DEF FirmwareInv
<1>1. PICK x \in Slots : BootEntries[x] # state[x] /\ state' \in Torn(x)
  BY DEF BootCut
<1>2. ~proved[x]
  BY <1>1, ProvedKept
<1>3. \A s \in Slots : state'[s] = state[s] \/ (s = x /\ state'[s] = "Blank")
  <2>1. state' = state \/ state' = [state EXCEPT ![x] = "Blank"]
    BY <1>1 DEF Torn
  <2> QED BY <2>1 DEF TypeOK
<1>4. upload = "None" /\ booted = "None"
  BY DEF BootCut, Uploading, TypeOK
<1>5. AlwaysBoots' /\ Uploading'
  BY <1>4 DEF BootCut, AlwaysBoots, Uploading, Bootable, ghosts, tasks
<1>6. Settled' /\ \A s \in Slots : Candidate(s)'
  BY <1>2, <1>3, <1>4 DEF BootCut, Settled, Candidate, ghosts
<1>7. Trial'
  <2>1. ASSUME NEW s \in Slots, ~proved[s], Unproved(s) PROVE Unproved(s)'
    BY <2>1, <1>3, <1>4, TwoSlots DEF BootCut, Unproved, ghosts
  <2> QED BY <2>1, <1>4 DEF BootCut, Trial, ghosts
<1> QED BY <1>5, <1>6, <1>7
-----------------------------------------------------------------------------
(***************************************************************************)
(* The upload.                                                             *)
(***************************************************************************)

\* Who is who while an image runs.
LEMMA Sides ==
  ASSUME TypeOK, booted # "None"
  PROVE  /\ booted \in Slots /\ Other(booted) \in Slots /\ Other(booted) # booted
         /\ \A s \in Slots : s = booted \/ s = Other(booted)
BY TwoSlots DEF TypeOK

\* So does the first sector, which leaves the idle slot with half an image.
LEMMA WriteFirstStep ==
  ASSUME FirmwareInv, TypeOK', WriteFirst PROVE FirmwareInv'
<1> USE DEF FirmwareInv
<1>1. booted # "None" /\ upload = "Claimed" /\ upload' = "Writing"
  BY DEF WriteFirst, Awake
<1>2. PICK o \in Slots :
        o = Other(booted) /\ booted \in Slots /\ o # booted /\ \A s \in Slots : s \in {booted, o}
  BY <1>1, Sides
<1>3. /\ image' = [image EXCEPT ![o] = "Torn"]
      /\ proved' = [proved EXCEPT ![o] = FALSE]
      /\ boots' = [boots EXCEPT ![o] = 0]
  BY <1>2 DEF WriteFirst, idle_slot
<1>4. ~proved'[o] /\ boots'[o] = 0 /\ image'[o] = "Torn"
  BY <1>2, <1>3 DEF TypeOK
<1>5. /\ proved'[booted] = proved[booted] /\ boots'[booted] = boots[booted]
      /\ image'[booted] = image[booted]
  BY <1>2, <1>3 DEF TypeOK
<1>6. AlwaysBoots'
  BY <1>1, <1>2, <1>5 DEF WriteFirst, AlwaysBoots, Bootable
<1>7. Uploading'
  BY <1>1, <1>2, <1>4 DEF WriteFirst, Uploading
<1>8. Settled'
  BY <1>2, <1>4, <1>5 DEF WriteFirst, Settled
<1>9. ASSUME NEW s \in Slots PROVE Candidate(s)'
  BY <1>1, <1>2, <1>5, <1>9 DEF WriteFirst, Candidate
<1>10. Trial'
  <2> SUFFICES ASSUME ~hasty', ~half' PROVE Trial'
    BY DEF Trial
  <2>1. proved[booted] /\ ~hasty /\ ~half
    BY DEF WriteFirst
  <2>2. state[o] \in {"Valid", "Undefined"} => latest # o
    <3>1. CASE proved[o]
      BY <1>1, <1>2, <2>1, <3>1 DEF Settled
    <3>2. CASE ~proved[o]
      BY <1>1, <1>2, <2>1, <3>2 DEF Trial, Unproved
    <3> QED BY <3>1, <3>2
  <2>3. Unproved(o)'
    BY <1>2, <1>4, <2>2 DEF WriteFirst, Unproved
  <2> QED BY <1>2, <1>5, <2>1, <2>3 DEF Trial
<1> QED BY <1>6, <1>7, <1>8, <1>9, <1>10

\* So does the last.
LEMMA WriteLastStep ==
  ASSUME FirmwareInv, TypeOK', WriteLast PROVE FirmwareInv'
<1> USE DEF FirmwareInv
<1>1. booted # "None" /\ upload = "Writing" /\ upload' \in {"Written", "None"}
  BY DEF WriteLast, Awake, Verdict
<1>2. PICK o \in Slots :
        o = Other(booted) /\ booted \in Slots /\ o # booted /\ \A s \in Slots : s \in {booted, o}
  BY <1>1, Sides
<1>3. /\ image'[booted] = image[booted]
      /\ upload' = "Written" => image'[o] = "Whole"
  BY <1>2 DEF WriteLast, Verdict, idle_slot, TypeOK
<1>4. ~proved[o] /\ boots[o] = 0
  BY <1>1, <1>2 DEF Uploading
<1>5. AlwaysBoots'
  BY <1>1, <1>2, <1>3 DEF WriteLast, AlwaysBoots, Bootable, ghosts
<1>6. Uploading' /\ Settled'
  BY <1>1, <1>2, <1>3, <1>4 DEF WriteLast, Uploading, Settled, ghosts
<1>7. ASSUME NEW s \in Slots PROVE Candidate(s)'
  BY <1>1, <1>2, <1>3, <1>4, <1>7 DEF WriteLast, Candidate, ghosts
<1>8. Trial'
  BY <1>1 DEF WriteLast, Trial, Unproved, ghosts
<1> QED BY <1>5, <1>6, <1>7, <1>8

\* So does the entry that points at the new image.
LEMMA PointStep ==
  ASSUME FirmwareInv, TypeOK', Point PROVE FirmwareInv'
<1> USE DEF FirmwareInv
<1>1. booted # "None" /\ upload = "Written"
  BY DEF Point, Awake
<1>2. PICK o \in Slots :
        o = Other(booted) /\ booted \in Slots /\ o # booted /\ \A s \in Slots : s \in {booted, o}
  BY <1>1, Sides
<1>3. /\ ~proved[o] /\ boots[o] = 0 /\ image[o] = "Whole"
      /\ state[booted] # "New"
  BY <1>1, <1>2 DEF Uploading, Candidate
<1>4. /\ state'[booted] = state[booted]
      /\ state'[o] \in {state[o], "Undefined", "Blank"}
      /\ upload' = "Pointed" => latest' = o /\ state'[o] # "Blank"
      /\ upload' # "Pointed" => latest' = latest /\ state'[o] \in {state[o], "Blank"}
  BY <1>2 DEF Point, idle_slot, PointedAt, Torn, TypeOK
<1>5. upload' \in {"Pointed", "None"} /\ UNCHANGED <<image, booted, restarting, confirm, ghosts>>
  BY DEF Point, tasks
<1>6. AlwaysBoots'
  BY <1>5 DEF AlwaysBoots, Bootable
<1>7. Uploading' /\ Settled'
  BY <1>1, <1>2, <1>3, <1>4, <1>5 DEF Uploading, Settled, ghosts
<1>8. ASSUME NEW s \in Slots PROVE Candidate(s)'
  BY <1>2, <1>3, <1>4, <1>5, <1>8 DEF Candidate
<1>9. Trial'
  <2> SUFFICES ASSUME ~hasty, ~half PROVE Trial'
    BY <1>5 DEF Trial, ghosts
  <2>1. proved[booted] /\ Unproved(o)
    BY <1>2, <1>3 DEF Trial
  <2>2. Unproved(o)'
    BY <1>1, <1>2, <1>3, <1>4, <1>5, <2>1 DEF Unproved, ghosts
  <2> QED BY <1>2, <1>5, <2>1, <2>2 DEF Trial, ghosts
<1> QED BY <1>6, <1>7, <1>8, <1>9

\* So does the mark of the new entry.
LEMMA MarkStep ==
  ASSUME FirmwareInv, TypeOK', Mark PROVE FirmwareInv'
<1> USE DEF FirmwareInv
<1>1. booted # "None" /\ upload = "Pointed" /\ upload' \in {"Draining", "None"}
  BY DEF Mark
<1>2. PICK o \in Slots :
        o = Other(booted) /\ booted \in Slots /\ o # booted /\ \A s \in Slots : s \in {booted, o}
  BY <1>1, Sides
<1>3. /\ ~proved[o] /\ boots[o] = 0 /\ image[o] = "Whole"
      /\ Current = o /\ latest = o
      /\ state[booted] # "New"
  BY <1>1, <1>2 DEF Uploading, Candidate, Current
<1>4. /\ state'[booted] = state[booted]
      /\ upload' = "Draining" => state'[o] = "New" /\ UNCHANGED half
      /\ upload' = "None" => state'[o] \in {state[o], "Blank"} /\ half'
  BY <1>2, <1>3 DEF Mark, Marked, Torn, TypeOK
<1>5. UNCHANGED <<image, latest, booted, restarting, confirm, proved, boots, hasty>>
  BY DEF Mark, tasks
<1>6. AlwaysBoots'
  BY <1>5 DEF AlwaysBoots, Bootable
<1>7. Uploading' /\ Settled'
  BY <1>1, <1>2, <1>3, <1>4, <1>5 DEF Uploading, Settled
<1>8. ASSUME NEW s \in Slots PROVE Candidate(s)'
  BY <1>1, <1>2, <1>3, <1>4, <1>5, <1>8 DEF Candidate
<1>9. Trial'
  <2> SUFFICES ASSUME ~hasty', ~half' PROVE Trial'
    BY DEF Trial
  <2>1. state'[o] = "New" /\ ~hasty /\ ~half
    BY <1>1, <1>4, <1>5
  <2>2. proved[booted] /\ Unproved(o)'
    BY <1>2, <1>3, <1>5, <2>1 DEF Trial, Unproved
  <2> QED BY <1>2, <1>5, <2>2 DEF Trial
<1> QED BY <1>6, <1>7, <1>8, <1>9
-----------------------------------------------------------------------------
(***************************************************************************)
(* The verdict on an image, and what ends its run.                         *)
(***************************************************************************)
LEMMA ConfirmStep ==
  ASSUME FirmwareInv, TypeOK', Confirm PROVE FirmwareInv'
<1> USE DEF FirmwareInv
<1>1. booted # "None" /\ UNCHANGED <<image, latest, booted, upload, boots, hasty, half>>
  BY DEF Confirm, Awake
<1>2. PICK o \in Slots :
        o = Other(booted) /\ booted \in Slots /\ o # booted /\ \A s \in Slots : s \in {booted, o}
  BY <1>1, Sides
<1>3. CASE ~Awaiting
  <2>1. state' = state
    BY <1>3 DEF Confirm, Confirmable
  <2>2. proved' = proved
    BY <1>2, <1>3 DEF Confirm, TypeOK
  <2>3. AlwaysBoots' /\ Uploading' /\ Settled' /\ Trial'
    BY <1>1, <2>1, <2>2 DEF AlwaysBoots, Bootable, Uploading, Settled, Trial, Unproved
  <2> QED BY <1>1, <2>1, <2>2, <2>3 DEF Candidate
<1>4. CASE Awaiting
  <2>1. Current = booted /\ state[booted] = "PendingVerify" /\ image[booted] # "Torn"
    BY <1>1, <1>2, <1>4 DEF Awaiting, AlwaysBoots, Bootable
  <2>2. ~proved[booted]
    BY <1>2, <2>1 DEF Settled
  <2>3. /\ state'[o] = state[o]
        /\ state'[booted] \in {"Valid", "PendingVerify", "Blank"}
    BY <1>2, <2>1, <1>4 DEF Confirm, Confirmable, Torn, TypeOK
  <2>4. /\ proved'[o] = proved[o]
        /\ proved'[booted] <=> state'[booted] = "Valid"
    BY <1>2, <1>4, <2>2 DEF Confirm, TypeOK
  <2>5. AlwaysBoots'
    BY <1>1 DEF AlwaysBoots, Bootable
  <2>6. Uploading'
    BY <1>1, <1>2, <2>3, <2>4 DEF Uploading, Confirm, Awake
  <2>7. proved[o] => latest = booted
    BY <1>2, <2>1 DEF Settled, Current, TypeOK
  <2>8. Settled'
    BY <1>1, <1>2, <2>1, <2>3, <2>4, <2>7 DEF Settled
  <2>9. ASSUME NEW s \in Slots PROVE Candidate(s)'
    BY <1>1, <1>2, <2>1, <2>3, <2>9 DEF Candidate
  <2>10. Trial'
    <3> SUFFICES ASSUME ~hasty, ~half PROVE Trial'
      BY <1>1 DEF Trial
    <3>1. proved[o] /\ Unproved(booted)
      BY <1>2, <2>2 DEF Trial
    <3>2. ~proved'[booted] => Unproved(booted)'
      BY <1>1, <2>1, <2>3, <2>4, <3>1 DEF Unproved
    <3> QED BY <1>1, <1>2, <2>4, <3>1, <3>2 DEF Trial
  <2> QED BY <2>5, <2>6, <2>8, <2>9, <2>10
<1> QED BY <1>3, <1>4

\* A reset, with or without an entry lost to it.
LEMMA ResetStep ==
  ASSUME FirmwareInv, TypeOK', Reset,
         state' = state \/ \E s \in UnderWrite : state' \in Torn(s),
         booted # "None", half \/ upload = "Pointed" => half'
  PROVE  FirmwareInv'
<1> USE DEF FirmwareInv
<1>1. /\ booted' = "None" /\ upload' = "None" /\ confirm' = "Off" /\ ~restarting'
      /\ UNCHANGED <<image, latest, proved, boots, hasty>>
  BY DEF Reset
<1>2. PICK o \in Slots :
        o = Other(booted) /\ booted \in Slots /\ o # booted /\ \A s \in Slots : s \in {booted, o}
  BY Sides
<1>3. \A s \in UnderWrite : s \in Slots /\ ~proved[s]
  <2>1. UnderWrite \subseteq Slots
    BY DEF UnderWrite
  <2>2. upload = "Pointed" => Current = o /\ ~proved[o]
    BY <1>2 DEF Uploading, Current
  <2>3. upload = "Written" => ~proved[o]
    BY <1>2 DEF Uploading
  <2>4. Awaiting => ~proved[booted]
    BY <1>2 DEF Awaiting, Settled
  <2> QED BY <1>2, <2>1, <2>2, <2>3, <2>4 DEF UnderWrite, idle_slot
<1>4. \A s \in Slots : state'[s] = state[s] \/ (~proved[s] /\ state'[s] = "Blank")
  <2>1. CASE state' = state
    BY <2>1
  <2>2. CASE \E s \in UnderWrite : state' \in Torn(s)
    BY <1>3, <2>2 DEF Torn, TypeOK
  <2> QED BY <2>1, <2>2
<1>5. AlwaysBoots' /\ Uploading' /\ Settled'
  BY <1>1, <1>4 DEF AlwaysBoots, Bootable, Uploading, Settled
<1>6. ASSUME NEW s \in Slots PROVE Candidate(s)'
  BY <1>1, <1>4, <1>6, TwoSlots DEF Candidate
<1>7. Trial'
  <2> SUFFICES ASSUME ~hasty', ~half' PROVE Trial'
    BY DEF Trial
  <2>1. ~hasty /\ ~half /\ upload # "Pointed"
    BY <1>1
  <2>2. ASSUME NEW s \in Slots, ~proved[s] PROVE Unproved(s)'
    <3>1. Unproved(s) /\ s # "None"
      BY <2>1, <2>2, TwoSlots DEF Trial
    <3> QED BY <1>1, <1>4, <2>1, <2>2, <3>1 DEF Unproved
  <2> QED BY <1>1, <2>1, <2>2 DEF Trial
<1> QED BY <1>5, <1>6, <1>7

\* The steps that touch neither a slot nor an entry.
LEMMA QuietStep ==
  ASSUME FirmwareInv, TypeOK', UNCHANGED <<flash, booted, ghosts>>,
         \/ upload' = upload
         \/ upload' \in {"Claimed", "None"} /\ booted # "None" /\ upload # "Pointed",
         restarting' = restarting \/ booted # "None",
         confirm' = confirm \/ booted # "None"
  PROVE  FirmwareInv'
<1> USE DEF FirmwareInv, flash, ghosts
<1>1. AlwaysBoots' /\ Settled'
  BY DEF AlwaysBoots, Bootable, Settled
<1>2. Uploading'
  BY DEF Uploading
<1>3. ASSUME NEW s \in Slots PROVE Candidate(s)'
  BY <1>3 DEF Candidate
<1>4. Trial'
  BY DEF Trial, Unproved
<1> QED BY <1>1, <1>2, <1>3, <1>4
-----------------------------------------------------------------------------
(***************************************************************************)
(* The theorems.                                                           *)
(***************************************************************************)
LEMMA InvStep == FirmwareInv /\ [Next]_vars => FirmwareInv'
<1> SUFFICES ASSUME FirmwareInv, [Next]_vars PROVE FirmwareInv'
  OBVIOUS
<1>1. TypeOK /\ TypeOK'
  BY TypeStep DEF FirmwareInv
<1>2. CASE Boot
  BY <1>1, <1>2, BootStep
<1>3. CASE BootCut
  BY <1>1, <1>3, BootCutStep
<1>4. CASE Claim
  BY <1>1, <1>4, QuietStep DEF Claim, Awake, tasks
<1>5. CASE WriteFirst
  BY <1>1, <1>5, WriteFirstStep
<1>6. CASE WriteLast
  BY <1>1, <1>6, WriteLastStep
<1>7. CASE Abandon
  BY <1>1, <1>7, QuietStep DEF Abandon, Awake, tasks
<1>8. CASE Point
  BY <1>1, <1>8, PointStep
<1>9. CASE Mark
  BY <1>1, <1>9, MarkStep
<1>10. CASE Confirm
  BY <1>1, <1>10, ConfirmStep
<1>11. CASE GiveUp
  BY <1>1, <1>11, QuietStep DEF GiveUp, Awake
<1>12. CASE \E up \in BOOLEAN : SetBroker(up)
  BY <1>1, <1>12, QuietStep DEF SetBroker
<1>13. CASE Meal
  BY <1>1, <1>13, QuietStep DEF Meal
<1>14. CASE MealEnds
  BY <1>1, <1>14, QuietStep DEF MealEnds
<1>15. CASE Restart
  <2>1. booted # "None" /\ upload # "Pointed" /\ Reset /\ UNCHANGED <<state, half>>
    BY <1>15 DEF Restart, Awake
  <2> QED BY <1>1, <2>1, ResetStep
<1>16. CASE PowerCut
  <2>1. /\ booted # "None" /\ Reset /\ half' = (half \/ upload = "Pointed")
        /\ state' = state \/ \E s \in UnderWrite : state' \in Torn(s)
    BY <1>16 DEF PowerCut
  <2> QED BY <1>1, <2>1, ResetStep DEF TypeOK
<1>17. CASE Drained
  BY <1>1, <1>17, QuietStep DEF Drained, Awake
<1>18. CASE UNCHANGED vars
  BY <1>1, <1>18, QuietStep DEF vars, tasks
<1> QED BY <1>2, <1>3, <1>4, <1>5, <1>6, <1>7, <1>8, <1>9, <1>10, <1>11, <1>12,
           <1>13, <1>14, <1>15, <1>16, <1>17, <1>18 DEF Next

\* The properties follow from the invariant.
LEMMA InvGives == FirmwareInv => AlwaysBoots /\ WayBack /\ OneChance
<1> SUFFICES ASSUME FirmwareInv PROVE AlwaysBoots /\ WayBack /\ OneChance
  OBVIOUS
<1>1. WayBack
  <2> SUFFICES ASSUME booted # "None", ~proved[booted], ~hasty, ~half
               PROVE  proved[Other(booted)] /\ BootChoice = Other(booted)
    BY DEF WayBack
  <2>1. booted \in Slots
    BY Sides DEF FirmwareInv
  <2>2. proved[Other(booted)] /\ Unproved(booted)
    BY <2>1, OneProved DEF FirmwareInv
  <2>3. state[booted] \notin {"Valid", "Undefined", "New"}
    BY <2>2 DEF Unproved
  <2> QED BY <2>1, <2>2, <2>3, Selection DEF FirmwareInv
<1>2. OneChance
  BY DEF FirmwareInv, Trial, Unproved, OneChance
<1> QED BY <1>1, <1>2 DEF FirmwareInv

\* firmware.rs, web.rs: whatever is uploaded, refused, interrupted or rolled
\* back, a slot holds a whole image and the running one is never written over.
THEOREM NeverBricked == Spec => []AlwaysBoots
BY InitInv, InvStep, InvGives, PTL DEF Spec

\* main.rs, confirm_task: unless an upload wrote over it during the trial or a
\* selection stopped half way, the image a new one replaced is what comes back.
THEOREM RollsBack == Spec => []WayBack
BY InitInv, InvStep, InvGives, PTL DEF Spec

\* With the same exceptions, an image that is not confirmed is booted once.
THEOREM BootedOnce == Spec => []OneChance
BY InitInv, InvStep, InvGives, PTL DEF Spec
-----------------------------------------------------------------------------
(***************************************************************************)
(* An image on its way in: the provers' own arithmetic, then the mark, the *)
(* hash, the files, a piece that arrives, the verdict and the invariant.   *)
(***************************************************************************)
\* Induction, by the least counterexample: the one form the provers can be given.
LEMMA SmallestOf ==
  ASSUME NEW T \in SUBSET Nat, T # {}
  PROVE  \E x \in T : \A y \in T : x <= y
<1>. DEFINE R == OpToRel(<, Nat)
<1>1. IsWellFoundedOn(R, Nat)
  BY NatLessThanWellFounded
<1>2. \A x, y \in Nat : x < y => <<x, y>> \in R
  BY DEF OpToRel
<1>. HIDE DEF R
<1>3. \E x \in T : \A y \in T : ~ (<<y, x>> \in R)
  BY <1>1, WFMin, Zenon
<1>4. PICK x \in T : \A y \in T : ~ (<<y, x>> \in R)
  BY <1>3
<1>5. \A y \in T : x <= y
  <2>1. TAKE y \in T
  <2>2. x \in Nat /\ y \in Nat /\ ~(y < x)
    BY <1>2, <1>4
  <2>. QED BY <2>2
<1>. QED BY <1>5

\* What holds of a number whenever it holds of all below it, holds of all of them.
LEMMA BelowFirst ==
  ASSUME NEW S \in SUBSET Nat, \A n \in Nat : (\A m \in Nat : m < n => m \in S) => n \in S
  PROVE  S = Nat
<1>. SUFFICES ASSUME Nat \ S # {} PROVE FALSE
  OBVIOUS
<1>1. PICK x \in Nat \ S : \A y \in Nat \ S : x <= y
  BY SmallestOf
<1>2. \A m \in Nat : m < x => m \in S
  BY <1>1
<1>. QED BY <1>1, <1>2

\* A set of numbers that is bounded has its largest.
LEMMA LargestOf ==
  ASSUME NEW n \in Nat, NEW T \in SUBSET (0..n), T # {}
  PROVE  \E x \in T : \A y \in T : y <= x
<1>. DEFINE U == {n - y : y \in T}
<1>1. U \in SUBSET Nat /\ U # {}
  <2>1. ASSUME NEW y \in T PROVE n - y \in Nat
    <3>1. y \in 0..n
      OBVIOUS
    <3>. QED BY <3>1
  <2>. QED BY <2>1
<1>2. PICK u \in U : \A v \in U : u <= v
  <2>. HIDE DEF U
  <2>. QED BY <1>1, SmallestOf
<1>3. PICK x \in T : u = n - x
  OBVIOUS
<1>4. \A y \in T : n - x <= n - y
  BY <1>2, <1>3
<1>5. ASSUME NEW y \in T PROVE y <= x
  <2>1. x \in Int /\ y \in Int /\ n - x <= n - y
    BY <1>4
  <2>. QED BY <2>1
<1>. QED BY <1>5
-----------------------------------------------------------------------------
(***************************************************************************)
(* The mark.                                                               *)
(***************************************************************************)
MarkLen == Len(needle)

\* The first k of the mark end the stretch of it that ends at i.
Border(j, k) == \A t \in 1..j : needle[t] = needle[k - j + t]

\* What the code falls back to in the table: the longest that ends the mark up to there.
Best(v, i) ==
  /\ v \in 0..(i - 1) /\ Border(v, i)
  /\ \A j \in (v + 1)..(i - 1) : ~Border(j, i)

\* A table that is right for the first m of the mark.
Right(f, m) == \A i \in 1..m : Best(f[i], i)

\* Of k and all that ends it, the longest that this byte goes on with.
Falls(r, k, byte) ==
  /\ r \in 0..k /\ (r = k \/ Border(r, k))
  /\ r = 0 \/ needle[r + 1] = byte
  /\ \A j \in (r + 1)..k : (j = k \/ Border(j, k)) => needle[j + 1] # byte

\* The mark is not empty.
LEMMA NeedleIs == MarkLen \in Nat \ {0}
BY UploadAssumption DEF MarkLen, needle, Bytes

\* A border of a border is one, and of two borders the shorter is one of the longer.
LEMMA BorderOfBorder ==
  ASSUME NEW i \in Nat, NEW j \in Nat, NEW k \in Nat, i <= j, j <= k, Border(j, k)
  PROVE  Border(i, j) <=> Border(i, k)
<1>1. ASSUME NEW t \in 1..i PROVE needle[j - i + t] = needle[k - i + t]
  <2>1. j - i + t \in 1..j /\ k - j + (j - i + t) = k - i + t
    OBVIOUS
  <2>. QED BY <2>1 DEF Border
<1>. QED BY <1>1 DEF Border

\* There is one such.
LEMMA FallsOne ==
  ASSUME NEW k \in Nat, NEW byte, NEW r, NEW q, Falls(r, k, byte), Falls(q, k, byte)
  PROVE  r = q
BY DEF Falls

\* Where the byte does not go on with j, it is that of the longest that ends j.
LEMMA FallsOn ==
  ASSUME NEW j \in Nat, j # 0, NEW byte, NEW v, NEW r, Best(v, j), needle[j + 1] # byte,
         Falls(r, v, byte)
  PROVE  Falls(r, j, byte)
<1>1. v \in Nat /\ v < j /\ Border(v, j) /\ r \in Nat /\ r <= v
  BY DEF Best, Falls
<1>2. Border(r, j)
  BY <1>1, BorderOfBorder DEF Falls
<1>3. ASSUME NEW i \in (r + 1)..j, i = j \/ Border(i, j) PROVE needle[i + 1] # byte
  <2>1. CASE i = j
    BY <2>1
  <2>2. CASE i # j
    <3>1. i \in Nat /\ i <= v
      BY <1>1, <1>3, <2>2 DEF Best
    <3>2. i = v \/ Border(i, v)
      BY <1>1, <1>3, <2>2, <3>1, BorderOfBorder
    <3>. QED BY <1>1, <3>1, <3>2 DEF Falls
  <2>. QED BY <2>1, <2>2
<1>. QED BY <1>1, <1>2, <1>3 DEF Falls

\* Where it does, it is k.
LEMMA FallsAt ==
  ASSUME NEW k \in Nat, NEW byte, k = 0 \/ needle[k + 1] = byte
  PROVE  Falls(k, k, byte)
BY DEF Falls

\* There always is one: the borders get shorter.
LEMMA FallsSome ==
  ASSUME NEW k \in Nat, NEW byte, NEW f, Right(f, k)
  PROVE  \A j \in 0..k : \E r : Falls(r, j, byte)
<1>. DEFINE S == {n \in Nat : n <= k => \E r : Falls(r, n, byte)}
<1>1. ASSUME NEW n \in Nat, \A m \in Nat : m < n => m \in S PROVE n \in S
  <2>. SUFFICES ASSUME n <= k PROVE \E r : Falls(r, n, byte)
    OBVIOUS
  <2>1. CASE n = 0 \/ needle[n + 1] = byte
    BY <2>1, FallsAt
  <2>2. CASE ~(n = 0 \/ needle[n + 1] = byte)
    <3>1. Best(f[n], n)
      BY <2>2 DEF Right
    <3>2. f[n] \in Nat /\ f[n] < n
      BY <3>1 DEF Best
    <3>3. PICK r : Falls(r, f[n], byte)
      BY <1>1, <3>2
    <3>. QED BY <2>2, <3>1, <3>3, FallsOn
  <2>. QED BY <2>1, <2>2
<1>2. S = Nat
  <2>1. S \in SUBSET Nat
    OBVIOUS
  <2>. HIDE DEF S
  <2>. QED BY <1>1, <2>1, BelowFirst
<1>3. ASSUME NEW j \in 0..k PROVE \E r : Falls(r, j, byte)
  <2>1. j \in S
    <3>1. j \in Nat
      OBVIOUS
    <3>. HIDE DEF S
    <3>. QED BY <1>2, <3>1
  <2>. QED BY <2>1
<1>. QED BY <1>3

\* What Fall's recursion asks of its function.
FallStep(g, f, k, byte) ==
  g = [j \in 0..k |-> IF j = 0 \/ needle[j + 1] = byte THEN j ELSE g[f[j]]]

\* Some function is as it asks.
LEMMA FallExists ==
  ASSUME NEW k \in Nat, NEW byte, NEW f, Right(f, k)
  PROVE  \E g : FallStep(g, f, k, byte)
<1>. DEFINE g == [j \in 0..k |-> CHOOSE r : Falls(r, j, byte)]
<1>1. \A j \in 0..k : Falls(g[j], j, byte)
  BY FallsSome
<1>2. DOMAIN g = 0..k /\ g = [j \in 0..k |-> g[j]]
  OBVIOUS
<1>. HIDE DEF g
<1>3. ASSUME NEW j \in 0..k
      PROVE  g[j] = IF j = 0 \/ needle[j + 1] = byte THEN j ELSE g[f[j]]
  <2>1. CASE j = 0 \/ needle[j + 1] = byte
    BY <1>1, <2>1, FallsAt, FallsOne
  <2>2. CASE ~(j = 0 \/ needle[j + 1] = byte)
    <3>1. Best(f[j], j)
      BY <2>2 DEF Right
    <3>2. f[j] \in 0..k
      BY <3>1 DEF Best
    <3>3. Falls(g[f[j]], j, byte)
      BY <1>1, <2>2, <3>1, <3>2, FallsOn
    <3>. QED BY <1>1, <2>2, <3>3, FallsOne
  <2>. QED BY <2>1, <2>2
<1>4. g = [j \in 0..k |-> IF j = 0 \/ needle[j + 1] = byte THEN j ELSE g[f[j]]]
  BY <1>2, <1>3
<1>5. FallStep(g, f, k, byte)
  BY <1>4 DEF FallStep
<1>. QED BY <1>5

\* Where the loop of the code stops, given a table that is right so far.
LEMMA FallIs ==
  ASSUME NEW k \in Nat, NEW byte, NEW f, Right(f, k)
  PROVE  Falls(Fall(f, k, byte), k, byte)
<1>. DEFINE g == CHOOSE h : FallStep(h, f, k, byte)
<1>1. FallStep(g, f, k, byte)
  BY FallExists
<1>2. Fall(f, k, byte) = g[k]
  BY DEF Fall, FallStep
<1>. HIDE DEF g
<1>3. \A j \in 0..k : g[j] = IF j = 0 \/ needle[j + 1] = byte THEN j ELSE g[f[j]]
  BY <1>1 DEF FallStep
<1>. DEFINE S == {n \in Nat : n <= k => Falls(g[n], n, byte)}
<1>4. ASSUME NEW n \in Nat, \A m \in Nat : m < n => m \in S PROVE n \in S
  <2>. SUFFICES ASSUME n <= k PROVE Falls(g[n], n, byte)
    OBVIOUS
  <2>1. CASE n = 0 \/ needle[n + 1] = byte
    BY <1>3, <2>1, FallsAt
  <2>2. CASE ~(n = 0 \/ needle[n + 1] = byte)
    <3>1. Best(f[n], n)
      BY <2>2 DEF Right
    <3>2. f[n] \in Nat /\ f[n] < n
      BY <3>1 DEF Best
    <3>3. Falls(g[f[n]], f[n], byte)
      BY <1>4, <3>2
    <3>4. g[n] = g[f[n]]
      BY <1>3, <2>2
    <3>. QED BY <2>2, <3>1, <3>3, <3>4, FallsOn
  <2>. QED BY <2>1, <2>2
<1>5. S = Nat
  <2>1. S \in SUBSET Nat
    OBVIOUS
  <2>. HIDE DEF S
  <2>. QED BY <1>4, <2>1, BelowFirst
<1>6. k \in S
  <2>. HIDE DEF S
  <2>. QED BY <1>5
<1>. QED BY <1>2, <1>6

\* Every stretch of the mark has a longest border,
LEMMA BestSome ==
  ASSUME NEW i \in Nat \ {0}
  PROVE  \E v : Best(v, i)
<1>. DEFINE T == {j \in 0..(i - 1) : Border(j, i)}
<1>1. 0 \in T
  BY DEF Border
<1>2. PICK v \in T : \A j \in T : j <= v
  <2>1. i - 1 \in Nat /\ T \in SUBSET (0..(i - 1)) /\ T # {}
    BY <1>1
  <2>. HIDE DEF T
  <2>. QED BY <2>1, LargestOf
<1>3. ASSUME NEW j \in (v + 1)..(i - 1) PROVE ~Border(j, i)
  BY <1>2
<1>. QED BY <1>2, <1>3 DEF Best

\* and only one;
LEMMA BestOne ==
  ASSUME NEW i \in Nat, NEW v, NEW w, Best(v, i), Best(w, i)
  PROVE  v = w
BY DEF Best

\* that of its first byte is empty.
LEMMA BestOfFirst == Best(0, 1)
BY DEF Best, Border

\* A stretch that one more of the mark is read after: c ends it, and e what was before.
LEMMA BorderOn ==
  ASSUME NEW j \in Nat \ {0}, NEW i \in Nat, j <= i
  PROVE  Border(j, i) <=> Border(j - 1, i - 1) /\ needle[j] = needle[i]
<1>1. ASSUME Border(j, i) PROVE Border(j - 1, i - 1) /\ needle[j] = needle[i]
  <2>1. ASSUME NEW t \in 1..(j - 1) PROVE needle[t] = needle[(i - 1) - (j - 1) + t]
    <3>1. t \in 1..j /\ (i - 1) - (j - 1) + t = i - j + t
      OBVIOUS
    <3>. QED BY <1>1, <3>1 DEF Border
  <2>2. j \in 1..j /\ i - j + j = i
    OBVIOUS
  <2>. QED BY <1>1, <2>1, <2>2 DEF Border
<1>2. ASSUME Border(j - 1, i - 1), needle[j] = needle[i] PROVE Border(j, i)
  <2>1. ASSUME NEW t \in 1..j PROVE needle[t] = needle[i - j + t]
    <3>1. CASE t = j
      BY <1>2, <3>1
    <3>2. CASE t # j
      <4>1. t \in 1..(j - 1) /\ (i - 1) - (j - 1) + t = i - j + t
        BY <3>2
      <4>. QED BY <1>2, <4>1 DEF Border
    <3>. QED BY <3>1, <3>2
  <2>. QED BY <2>1 DEF Border
<1>. QED BY <1>1, <1>2

\* One more line of the table.
LEMMA BestOn ==
  ASSUME NEW i \in Nat, i > 1, NEW f, Right(f, i - 1)
  PROVE  Best(Longer(Fall(f, f[i - 1], needle[i]), needle[i]), i)
<1>. DEFINE k == f[i - 1]
            c == needle[i]
            r == Fall(f, k, c)
            v == Longer(r, c)
<1>1. Best(k, i - 1)
  <2>1. i - 1 \in 1..(i - 1)
    OBVIOUS
  <2>. QED BY <2>1 DEF Right
<1>2. k \in 0..(i - 2) /\ Border(k, i - 1)
  BY <1>1 DEF Best
<1>3. Falls(r, k, c)
  <2>1. k \in Nat /\ Right(f, k)
    BY <1>2 DEF Right
  <2>. QED BY <2>1, FallIs
<1>4. v = IF needle[r + 1] = c THEN r + 1 ELSE r
  BY DEF Longer
<1>. HIDE DEF k, r, v
<1>5. r \in 0..k /\ (r = k \/ Border(r, k)) /\ (r = 0 \/ needle[r + 1] = c)
  BY <1>3 DEF Falls
<1>6. Border(r, i - 1)
  BY <1>2, <1>5, BorderOfBorder
<1>7. v \in 0..(i - 1) /\ Border(v, i)
  <2>1. CASE needle[r + 1] = c
    <3>1. v = r + 1 /\ r + 1 \in Nat \ {0} /\ r + 1 <= i /\ (r + 1) - 1 = r /\ v \in 0..(i - 1)
      BY <1>2, <1>4, <1>5, <2>1
    <3>. QED BY <1>6, <2>1, <3>1, BorderOn
  <2>2. CASE needle[r + 1] # c
    BY <1>2, <1>4, <1>5, <2>2 DEF Border
  <2>. QED BY <2>1, <2>2
<1>8. ASSUME NEW j \in (v + 1)..(i - 1) PROVE ~Border(j, i)
  <2>. SUFFICES ASSUME Border(j, i) PROVE FALSE
    OBVIOUS
  <2>1. j \in Nat \ {0} /\ j <= i - 1 /\ v < j
    BY <1>7
  <2>2. Border(j - 1, i - 1) /\ needle[j] = c
    BY <2>1, BorderOn
  <2>3. j - 1 <= k
    <3>1. j - 1 \in 0..((i - 1) - 1)
      BY <2>1
    <3>. QED BY <1>1, <2>2, <3>1 DEF Best
  <2>4. j - 1 = k \/ Border(j - 1, k)
    <3>1. j - 1 \in Nat /\ k \in Nat /\ i - 1 \in Nat /\ k <= i - 1
      BY <1>2, <2>1
    <3>. QED BY <1>2, <2>2, <2>3, <3>1, BorderOfBorder
  <2>5. CASE j - 1 > r
    <3>1. j - 1 \in (r + 1)..k /\ (j - 1) + 1 = j
      BY <1>5, <2>1, <2>3, <2>5
    <3>. QED BY <1>3, <2>2, <2>4, <3>1 DEF Falls
  <2>6. CASE j - 1 <= r
    <3>1. needle[r + 1] # c /\ v = r
      BY <1>4, <1>5, <2>1, <2>6
    <3>2. j = r + 1
      BY <1>5, <2>1, <2>6, <3>1
    <3>. QED BY <2>2, <3>1, <3>2
  <2>. QED BY <1>5, <2>1, <2>5, <2>6
<1>9. Best(v, i)
  BY <1>7, <1>8 DEF Best
<1>. QED BY <1>9 DEF k, r, v

\* What fail_table's recursion asks of its function.
TableStep(f) ==
  f = [i \in 1..MarkLen |->
         IF i = 1 THEN 0 ELSE Longer(Fall(f, f[i - 1], needle[i]), needle[i])]

\* Some function is as it asks.
LEMMA TableExists == \E f : TableStep(f)
<1>. DEFINE f == [i \in 1..MarkLen |-> CHOOSE v : Best(v, i)]
<1>1. \A i \in 1..MarkLen : Best(f[i], i)
  BY BestSome, NeedleIs
<1>2. f = [i \in 1..MarkLen |-> f[i]]
  OBVIOUS
<1>. HIDE DEF f
<1>3. ASSUME NEW i \in 1..MarkLen
      PROVE  f[i] = IF i = 1 THEN 0 ELSE Longer(Fall(f, f[i - 1], needle[i]), needle[i])
  <2>0. i \in Nat /\ MarkLen \in Nat
    BY NeedleIs
  <2>1. CASE i = 1
    BY <1>1, <2>0, <2>1, BestOne, BestOfFirst
  <2>2. CASE i # 1
    <3>1. i > 1 /\ Right(f, i - 1)
      BY <1>1, <2>0, <2>2 DEF Right
    <3>2. Best(Longer(Fall(f, f[i - 1], needle[i]), needle[i]), i)
      BY <2>0, <3>1, BestOn
    <3>. QED BY <1>1, <2>0, <2>2, <3>2, BestOne
  <2>. QED BY <2>1, <2>2
<1>4. TableStep(f)
  BY <1>2, <1>3, Zenon DEF TableStep
<1>. QED BY <1>4

\* Every line of the table is the longest there is.
LEMMA TableIs == Right(fail_table, MarkLen)
<1>1. TableStep(fail_table)
  <2>1. fail_table = CHOOSE f : TableStep(f)
    BY DEF fail_table, TableStep, MarkLen
  <2>. QED BY <2>1, TableExists
<1>2. PICK f : f = fail_table
  OBVIOUS
<1>3. \A i \in 1..MarkLen :
        f[i] = IF i = 1 THEN 0 ELSE Longer(Fall(f, f[i - 1], needle[i]), needle[i])
  BY <1>1, <1>2 DEF TableStep
<1>. DEFINE S == {n \in Nat : n \in 1..MarkLen => Best(f[n], n)}
<1>4. ASSUME NEW n \in Nat, \A m \in Nat : m < n => m \in S PROVE n \in S
  <2>. SUFFICES ASSUME n \in 1..MarkLen PROVE Best(f[n], n)
    OBVIOUS
  <2>1. CASE n = 1
    BY <1>3, <2>1, BestOfFirst
  <2>2. CASE n # 1
    <3>1. n > 1 /\ f[n] = Longer(Fall(f, f[n - 1], needle[n]), needle[n])
      BY <1>3, <2>2
    <3>2. Right(f, n - 1)
      <4>1. ASSUME NEW i \in 1..(n - 1) PROVE Best(f[i], i)
        <5>1. i \in Nat /\ i < n /\ i \in 1..MarkLen
          BY NeedleIs
        <5>. QED BY <1>4, <5>1
      <4>. QED BY <4>1 DEF Right
    <3>. QED BY <3>1, <3>2, BestOn
  <2>. QED BY <2>1, <2>2
<1>5. S = Nat
  <2>1. S \in SUBSET Nat
    OBVIOUS
  <2>. HIDE DEF S
  <2>. QED BY <1>4, <2>1, BelowFirst
<1>6. ASSUME NEW i \in 1..MarkLen PROVE Best(f[i], i)
  <2>1. i \in S
    <3>1. i \in Nat
      BY NeedleIs
    <3>. HIDE DEF S
    <3>. QED BY <1>5, <3>1
  <2>. QED BY <2>1
<1>. QED BY <1>2, <1>6 DEF Right
-----------------------------------------------------------------------------
\* Of the first a bytes of x, the last k are the first k of the mark.
Ends(k, x, a) == k <= a /\ \A t \in 1..k : needle[t] = x[a - k + t]

\* k is the most of the mark that the first a bytes of x end with.
Longest(k, x, a) ==
  /\ k \in 0..MarkLen /\ Ends(k, x, a)
  /\ \A j \in (k + 1)..MarkLen : ~Ends(j, x, a)

\* The mark is among the first a bytes of x.
Held(x, a) == \E i \in 0..(a - MarkLen) : \A t \in 1..MarkLen : x[i + t] = needle[t]

\* What the matcher says of them.
Tracks(m, x, a) ==
  /\ m = [matched |-> m.matched, found |-> m.found] /\ m.found \in BOOLEAN
  /\ m.found => Held(x, a)
  /\ ~m.found => ~Held(x, a) /\ m.matched < MarkLen /\ Longest(m.matched, x, a)

\* What the bytes end with once one more is read: what they ended with, and that byte.
LEMMA EndsOn ==
  ASSUME NEW j \in Nat \ {0}, NEW a \in Nat, NEW x
  PROVE  Ends(j, x, a + 1) <=> Ends(j - 1, x, a) /\ needle[j] = x[a + 1]
<1>1. ASSUME Ends(j, x, a + 1) PROVE Ends(j - 1, x, a) /\ needle[j] = x[a + 1]
  <2>1. ASSUME NEW t \in 1..(j - 1) PROVE needle[t] = x[a - (j - 1) + t]
    <3>1. t \in 1..j /\ a - (j - 1) + t = (a + 1) - j + t
      OBVIOUS
    <3>. QED BY <1>1, <3>1 DEF Ends
  <2>2. j \in 1..j /\ (a + 1) - j + j = a + 1
    OBVIOUS
  <2>3. j - 1 <= a
    BY <1>1 DEF Ends
  <2>. QED BY <1>1, <2>1, <2>2, <2>3 DEF Ends
<1>2. ASSUME Ends(j - 1, x, a), needle[j] = x[a + 1] PROVE Ends(j, x, a + 1)
  <2>1. ASSUME NEW t \in 1..j PROVE needle[t] = x[(a + 1) - j + t]
    <3>1. CASE t = j
      <4>1. (a + 1) - j + t = a + 1
        BY <3>1
      <4>. QED BY <1>2, <3>1, <4>1
    <3>2. CASE t # j
      <4>1. t \in 1..(j - 1) /\ a - (j - 1) + t = (a + 1) - j + t
        BY <3>2
      <4>. QED BY <1>2, <4>1 DEF Ends
    <3>. QED BY <3>1, <3>2
  <2>2. j <= a + 1
    BY <1>2 DEF Ends
  <2>. QED BY <2>1, <2>2 DEF Ends
<1>. QED BY <1>1, <1>2

\* What ends with the first k ends with a shorter stretch just if that one ends those k.
LEMMA EndsOfEnds ==
  ASSUME NEW i \in Nat, NEW k \in Nat, NEW a \in Nat, NEW x, i <= k, Ends(k, x, a)
  PROVE  Border(i, k) <=> Ends(i, x, a)
<1>1. k <= a
  BY DEF Ends
<1>2. ASSUME NEW t \in 1..i PROVE needle[k - i + t] = x[a - i + t]
  <2>1. k - i + t \in 1..k /\ a - k + (k - i + t) = a - i + t
    BY <1>1
  <2>. QED BY <2>1 DEF Ends
<1>. QED BY <1>1, <1>2 DEF Border, Ends

\* One byte on: what the table says is again the longest.
LEMMA LongestOn ==
  ASSUME NEW x, NEW a \in Nat, NEW k, Longest(k, x, a), k < MarkLen
  PROVE  Longest(Longer(Fall(fail_table, k, x[a + 1]), x[a + 1]), x, a + 1)
<1>. DEFINE c == x[a + 1]
            r == Fall(fail_table, k, c)
            v == Longer(r, c)
<1>1. k \in Nat /\ MarkLen \in Nat /\ Ends(k, x, a)
  BY NeedleIs DEF Longest
<1>2. Falls(r, k, c)
  <2>1. Right(fail_table, k)
    BY <1>1, TableIs DEF Right
  <2>. QED BY <1>1, <2>1, FallIs
<1>3. v = IF needle[r + 1] = c THEN r + 1 ELSE r
  BY DEF Longer
<1>. HIDE DEF r, v
<1>4. r \in 0..k /\ (r = k \/ Border(r, k)) /\ (r = 0 \/ needle[r + 1] = c)
  BY <1>2 DEF Falls
<1>5. Ends(r, x, a)
  BY <1>1, <1>4, EndsOfEnds
<1>6. v \in 0..MarkLen /\ Ends(v, x, a + 1)
  <2>1. CASE needle[r + 1] = c
    <3>1. v = r + 1 /\ r + 1 \in Nat \ {0} /\ (r + 1) - 1 = r /\ v \in 0..MarkLen
      BY <1>1, <1>3, <1>4, <2>1
    <3>. QED BY <1>5, <2>1, <3>1, EndsOn
  <2>2. CASE needle[r + 1] # c
    <3>1. v = 0
      BY <1>3, <1>4, <2>2
    <3>2. Ends(0, x, a + 1)
      BY DEF Ends
    <3>. QED BY <1>1, <3>1, <3>2
  <2>. QED BY <2>1, <2>2
<1>7. ASSUME NEW j \in (v + 1)..MarkLen PROVE ~Ends(j, x, a + 1)
  <2>. SUFFICES ASSUME Ends(j, x, a + 1) PROVE FALSE
    OBVIOUS
  <2>1. j \in Nat \ {0} /\ j <= MarkLen /\ v < j
    BY <1>1, <1>6
  <2>2. Ends(j - 1, x, a) /\ needle[j] = c
    BY <2>1, EndsOn
  <2>3. j - 1 <= k
    <3>1. CASE j - 1 > k
      <4>1. j - 1 \in (k + 1)..MarkLen
        BY <1>1, <2>1, <3>1
      <4>. QED BY <2>2, <4>1 DEF Longest
    <3>. QED BY <1>1, <2>1, <3>1
  <2>4. j - 1 = k \/ Border(j - 1, k)
    <3>1. j - 1 \in Nat
      BY <2>1
    <3>. QED BY <1>1, <2>2, <2>3, <3>1, EndsOfEnds
  <2>5. CASE j - 1 > r
    <3>1. j - 1 \in (r + 1)..k /\ (j - 1) + 1 = j
      BY <1>4, <2>1, <2>3, <2>5
    <3>. QED BY <1>2, <2>2, <2>4, <3>1 DEF Falls
  <2>6. CASE j - 1 <= r
    <3>1. needle[r + 1] # c /\ v = r
      BY <1>3, <1>4, <2>1, <2>6
    <3>2. j = r + 1
      BY <1>4, <2>1, <2>6, <3>1
    <3>. QED BY <2>2, <3>1, <3>2
  <2>. QED BY <1>4, <2>1, <2>5, <2>6
<1>8. Longest(v, x, a + 1)
  BY <1>6, <1>7 DEF Longest
<1>. QED BY <1>8 DEF r, v

\* The mark is among them once it was, or if it ends them.
LEMMA HeldOn ==
  ASSUME NEW x, NEW a \in Nat
  PROVE  Held(x, a + 1) <=> Held(x, a) \/ Ends(MarkLen, x, a + 1)
<1>1. MarkLen \in Nat
  BY NeedleIs
<1>2. ASSUME Held(x, a) PROVE Held(x, a + 1)
  BY <1>1, <1>2 DEF Held
<1>3. ASSUME Ends(MarkLen, x, a + 1) PROVE Held(x, a + 1)
  <2>1. (a + 1) - MarkLen \in 0..((a + 1) - MarkLen)
    BY <1>1, <1>3 DEF Ends
  <2>. QED BY <1>3, <2>1 DEF Ends, Held
<1>4. ASSUME Held(x, a + 1), ~Held(x, a) PROVE Ends(MarkLen, x, a + 1)
  <2>1. PICK i \in 0..((a + 1) - MarkLen) : \A t \in 1..MarkLen : x[i + t] = needle[t]
    BY <1>4 DEF Held
  <2>2. i = (a + 1) - MarkLen
    <3>1. i \notin 0..(a - MarkLen)
      BY <1>4, <2>1 DEF Held
    <3>. QED BY <1>1, <3>1
  <2>. QED BY <1>1, <2>1, <2>2 DEF Ends
<1>. QED BY <1>2, <1>3, <1>4

\* A matcher's state that is put together from its parts.
LEMMA TracksIs ==
  ASSUME NEW k, NEW b \in BOOLEAN, NEW x, NEW a,
         b => Held(x, a),
         ~b => ~Held(x, a) /\ k < MarkLen /\ Longest(k, x, a)
  PROVE  Tracks([matched |-> k, found |-> b], x, a)
<1>1. PICK m : m = [matched |-> k, found |-> b]
  OBVIOUS
<1>2. m = [matched |-> m.matched, found |-> m.found] /\ m.matched = k /\ m.found = b
  BY <1>1, Zenon
<1>3. Tracks(m, x, a)
  BY <1>2, Zenon DEF Tracks
<1>. QED BY <1>1, <1>3

\* A matcher that is right about the first a bytes is right about one more.
LEMMA MatchedOn ==
  ASSUME NEW x, NEW a \in Nat, NEW m, Tracks(m, x, a)
  PROVE  Tracks(Matched(m, x[a + 1]), x, a + 1)
<1>1. CASE m.found
  <2>1. Matched(m, x[a + 1]) = m
    BY <1>1 DEF Matched
  <2>. QED BY <1>1, <2>1, HeldOn DEF Tracks
<1>2. CASE ~m.found
  <2>1. PICK k : k = Longer(Fall(fail_table, m.matched, x[a + 1]), x[a + 1])
    OBVIOUS
  <2>2. Matched(m, x[a + 1]) = [matched |-> k, found |-> k = MarkLen]
    BY <1>2, <2>1 DEF Matched, MarkLen
  <2>3. Longest(k, x, a + 1)
    BY <1>2, <2>1, LongestOn DEF Tracks
  <2>4. k \in 0..MarkLen /\ MarkLen \in Nat
    BY <2>3, NeedleIs DEF Longest
  <2>5. CASE k = MarkLen
    <3>1. Held(x, a + 1)
      BY <2>3, <2>5, HeldOn DEF Longest
    <3>2. Matched(m, x[a + 1]) = [matched |-> k, found |-> TRUE]
      BY <2>2, <2>5
    <3>. QED BY <3>1, <3>2, TracksIs
  <2>6. CASE k # MarkLen
    <3>1. ~Ends(MarkLen, x, a + 1)
      BY <2>3, <2>4, <2>6 DEF Longest
    <3>2. ~Held(x, a + 1)
      BY <1>2, <3>1, HeldOn DEF Tracks
    <3>3. Matched(m, x[a + 1]) = [matched |-> k, found |-> FALSE]
      BY <2>2, <2>6, Zenon
    <3>4. k < MarkLen
      BY <2>4, <2>6
    <3>. QED BY <2>3, <3>2, <3>3, <3>4, TracksIs
  <2>. QED BY <2>5, <2>6
<1>. QED BY <1>1, <1>2 DEF Tracks

\* The matcher, fed byte by byte.
LEMMA ScanSome ==
  ASSUME NEW x, NEW a \in Nat, NEW m, Tracks(m, x, a),
         NEW bytes, Len(bytes) \in Nat, \A i \in 1..Len(bytes) : bytes[i] = x[a + i],
         NEW f, NEW n \in Nat, n <= Len(bytes),
         f[0] = m, \A i \in 1..n : f[i] = Matched(f[i - 1], bytes[i])
  PROVE  Tracks(f[n], x, a + n)
<1>. DEFINE S == {i \in Nat : i <= n => Tracks(f[i], x, a + i)}
<1>1. ASSUME NEW i \in Nat, \A j \in Nat : j < i => j \in S PROVE i \in S
  <2>. SUFFICES ASSUME i <= n PROVE Tracks(f[i], x, a + i)
    OBVIOUS
  <2>1. CASE i = 0
    BY <2>1
  <2>2. CASE i # 0
    <3>1. i - 1 \in Nat /\ i - 1 < i /\ i \in 1..n /\ i \in 1..Len(bytes)
      BY <2>2
    <3>2. Tracks(f[i - 1], x, a + (i - 1))
      BY <1>1, <3>1
    <3>3. a + (i - 1) \in Nat /\ (a + (i - 1)) + 1 = a + i
      BY <3>1
    <3>4. Tracks(Matched(f[i - 1], x[a + i]), x, a + i)
      BY <3>2, <3>3, MatchedOn
    <3>. QED BY <3>1, <3>4
  <2>. QED BY <2>1, <2>2
<1>2. S = Nat
  <2>1. S \in SUBSET Nat
    OBVIOUS
  <2>. HIDE DEF S
  <2>. QED BY <1>1, <2>1, BelowFirst
<1>3. n \in S
  <2>. HIDE DEF S
  <2>. QED BY <1>2
<1>. QED BY <1>3

\* What Scanned's recursion asks of its function.
ScanTo(f, m, bytes, n) ==
  f = [i \in 0..n |-> IF i = 0 THEN m ELSE Matched(f[i - 1], bytes[i])]

\* The recursion the matcher's walk is written with has an answer.
LEMMA ScanExists ==
  ASSUME NEW m, NEW bytes, NEW k \in Nat
  PROVE  \E f : ScanTo(f, m, bytes, k)
<1>. DEFINE S == {n \in Nat : \E f : ScanTo(f, m, bytes, n)}
<1>1. ASSUME NEW n \in Nat, \A j \in Nat : j < n => j \in S PROVE n \in S
  <2>1. CASE n = 0
    <3>. DEFINE f == [i \in 0..0 |-> m]
    <3>1. ScanTo(f, m, bytes, 0)
      BY DEF ScanTo
    <3>. QED BY <2>1, <3>1
  <2>2. CASE n # 0
    <3>1. n - 1 \in Nat /\ n - 1 < n
      BY <2>2
    <3>2. PICK f : ScanTo(f, m, bytes, n - 1)
      BY <1>1, <3>1
    <3>. DEFINE g == [i \in 0..n |-> IF i = n THEN Matched(f[n - 1], bytes[n]) ELSE f[i]]
    <3>3. \A i \in 0..(n - 1) : g[i] = f[i]
      BY <3>1
    <3>4. \A i \in 0..(n - 1) : f[i] = IF i = 0 THEN m ELSE Matched(f[i - 1], bytes[i])
      BY <3>2 DEF ScanTo
    <3>5. \A i \in 0..n : g[i] = IF i = 0 THEN m ELSE Matched(g[i - 1], bytes[i])
      <4>1. TAKE i \in 0..n
      <4>2. CASE i = n
        <5>1. n - 1 \in 0..(n - 1) /\ n \in 0..n
          BY <3>1
        <5>2. g[n] = Matched(f[n - 1], bytes[n]) /\ g[n - 1] = f[n - 1]
          BY <3>3, <5>1
        <5>. QED BY <2>2, <4>2, <5>2
      <4>3. CASE i # n
        <5>1. i \in 0..(n - 1) /\ (i # 0 => i - 1 \in 0..(n - 1))
          BY <3>1, <4>3
        <5>. QED BY <3>3, <3>4, <5>1
      <4>. QED BY <4>2, <4>3
    <3>6. g = [i \in 0..n |-> IF i = 0 THEN m ELSE Matched(g[i - 1], bytes[i])]
      <4>1. DOMAIN g = 0..n /\ g = [i \in 0..n |-> g[i]]
        OBVIOUS
      <4>. HIDE DEF g
      <4>. QED BY <3>5, <4>1
    <3>7. \E h : ScanTo(h, m, bytes, n)
      <4>. HIDE DEF g
      <4>1. ScanTo(g, m, bytes, n)
        BY <3>6 DEF ScanTo
      <4>. QED BY <4>1
    <3>. QED BY <3>7
  <2>. QED BY <2>1, <2>2
<1>2. S = Nat
  <2>1. S \in SUBSET Nat
    OBVIOUS
  <2>. HIDE DEF S
  <2>. QED BY <1>1, <2>1, BelowFirst
<1>. QED BY <1>2

\* What the matcher says after a piece is right of all that has come, if it was before it.
LEMMA ScannedOn ==
  ASSUME NEW x, NEW a \in Nat, NEW m, Tracks(m, x, a),
         NEW bytes, Len(bytes) \in Nat, \A i \in 1..Len(bytes) : bytes[i] = x[a + i]
  PROVE  Tracks(Scanned(m, bytes), x, a + Len(bytes))
<1>. DEFINE f == CHOOSE g : ScanTo(g, m, bytes, Len(bytes))
            n == Len(bytes)
<1>1. ScanTo(f, m, bytes, n)
  BY ScanExists
<1>2. Scanned(m, bytes) = f[n]
  BY DEF Scanned, ScanTo
<1>. HIDE DEF f
<1>3. \A i \in 0..n : f[i] = IF i = 0 THEN m ELSE Matched(f[i - 1], bytes[i])
  BY <1>1 DEF ScanTo
<1>4. f[0] = m /\ \A i \in 1..n : f[i] = Matched(f[i - 1], bytes[i])
  <2>1. \A i \in 1..n : i \in 0..n /\ i # 0
    OBVIOUS
  <2>. QED BY <1>3, <2>1
<1>5. Tracks(f[n], x, a + n)
  BY <1>4, ScanSome
<1>. QED BY <1>2, <1>5

\* A matcher that has seen nothing.
LEMMA TracksNothing ==
  ASSUME NEW x
  PROVE  Tracks([matched |-> 0, found |-> FALSE], x, 0)
<1>1. ~Held(x, 0)
  BY NeedleIs DEF Held
<1>2. Longest(0, x, 0)
  BY NeedleIs DEF Longest, Ends
<1>3. 0 < MarkLen
  BY NeedleIs
<1>. QED BY <1>1, <1>2, <1>3, TracksIs
-----------------------------------------------------------------------------
(***************************************************************************)
(* The hash.                                                               *)
(***************************************************************************)
\* What times b is no less, of two numbers, when the number is no less.
LEMMA TimesUp ==
  ASSUME NEW b \in Nat, NEW i \in Int, NEW j \in Int, i <= j
  PROVE  i * b <= j * b
OBVIOUS

\* How often b goes into a.
LEMMA DivIs ==
  ASSUME NEW a \in Nat, NEW b \in Nat \ {0}
  PROVE  /\ a \div b \in Nat /\ (a \div b) * b \in Nat
         /\ (a \div b) * b <= a /\ a < (a \div b) * b + b
OBVIOUS

\* A remainder is less than what it is the remainder of.
LEMMA ModIs ==
  ASSUME NEW a \in Int, NEW b \in Nat \ {0}
  PROVE  a % b \in Nat /\ a % b < b
OBVIOUS

\* ... and no other number of times.
LEMMA DivOne ==
  ASSUME NEW a \in Nat, NEW b \in Nat \ {0}, NEW q \in Nat, q * b <= a, a < q * b + b
  PROVE  a \div b = q
<1>1. PICK p : p = a \div b
  OBVIOUS
<1>2. p \in Nat /\ p * b <= a /\ a < p * b + b
  BY <1>1, DivIs
<1>3. ~(p < q)
  <2>1. p + 1 <= q => (p + 1) * b <= q * b
    BY <1>2, TimesUp
  <2>2. (p + 1) * b = p * b + b
    BY <1>2
  <2>. QED BY <1>2, <2>1, <2>2
<1>4. ~(q < p)
  <2>1. q + 1 <= p => (q + 1) * b <= p * b
    BY <1>2, TimesUp
  <2>2. (q + 1) * b = q * b + b
    OBVIOUS
  <2>. QED BY <1>2, <2>1, <2>2
<1>. QED BY <1>1, <1>2, <1>3, <1>4

\* Cells of a stretch of a sequence.
LEMMA Part ==
  ASSUME NEW S, NEW x \in Seq(S), NEW m \in Nat, NEW n \in Nat, m <= n, n <= Len(x)
  PROVE  /\ SubSeq(x, m + 1, n) \in Seq(S) /\ Len(SubSeq(x, m + 1, n)) = n - m
         /\ \A i \in 1..(n - m) : SubSeq(x, m + 1, n)[i] = x[m + i]
<1>1. \A i \in (m + 1)..n : x[i] \in S
  BY ElementOfSeq
<1>2. PICK p : p = m + 1
  OBVIOUS
<1>3. /\ SubSeq(x, p, n) \in Seq(S)
      /\ Len(SubSeq(x, p, n)) = IF p <= n THEN n - p + 1 ELSE 0
      /\ \A i \in 1..(n - p + 1) : SubSeq(x, p, n)[i] = x[p + i - 1]
  <2>1. p \in Int /\ n \in Int
    BY <1>2
  <2>. QED BY <1>1, <1>2, <2>1, SubSeqProperties
<1>4. n - p + 1 = n - m /\ (p <= n \/ n - m = 0)
  BY <1>2
<1>5. ASSUME NEW i \in 1..(n - m) PROVE SubSeq(x, p, n)[i] = x[m + i]
  <2>1. p + i - 1 = m + i /\ i \in 1..(n - p + 1)
    BY <1>2
  <2>. QED BY <1>3, <2>1
<1>6. Len(SubSeq(x, p, n)) = n - m
  BY <1>2, <1>3
<1>. QED BY <1>2, <1>3, <1>5, <1>6

\* What is left of a sequence, and its first cells.
LEMMA FirstPart ==
  ASSUME NEW S, NEW x \in Seq(S), NEW n \in Nat, n <= Len(x)
  PROVE  /\ SubSeq(x, 1, n) \in Seq(S) /\ Len(SubSeq(x, 1, n)) = n
         /\ \A i \in 1..n : SubSeq(x, 1, n)[i] = x[i]
<1>1. 0 + 1 = 1 /\ n - 0 = n /\ 0 <= n
  OBVIOUS
<1>2. /\ SubSeq(x, 0 + 1, n) \in Seq(S) /\ Len(SubSeq(x, 0 + 1, n)) = n - 0
      /\ \A i \in 1..(n - 0) : SubSeq(x, 0 + 1, n)[i] = x[0 + i]
  BY <1>1, Part
<1>. QED BY <1>1, <1>2

\* What is beyond the first n of x.
LEMMA BeyondIs ==
  ASSUME NEW S, NEW x \in Seq(S), NEW n \in Nat, n <= Len(x)
  PROVE  /\ Beyond(x, n) \in Seq(S) /\ Len(Beyond(x, n)) = Len(x) - n
         /\ \A i \in 1..(Len(x) - n) : Beyond(x, n)[i] = x[n + i]
<1>1. Len(x) \in Nat
  BY LenProperties
<1>. QED BY <1>1, Part DEF Beyond

\* The i-th of the pieces is within the sequence.
LEMMA WithinPiece ==
  ASSUME NEW b \in Nat \ {0}, NEW n \in Nat, NEW q \in Nat, q * b <= n, NEW i \in 1..q
  PROVE  /\ (i - 1) * b \in Nat /\ i * b \in Nat /\ (i - 1) * b + b = i * b
         /\ (i - 1) * b <= i * b /\ i * b <= n
<1>1. i * b <= q * b
  BY TimesUp
<1>2. i * b = (i - 1) * b + b
  OBVIOUS
<1>3. 0 * b <= (i - 1) * b /\ 0 * b = 0
  BY TimesUp
<1>4. (i - 1) * b \in Int /\ i * b \in Int /\ q * b \in Int
  OBVIOUS
<1>. QED BY <1>1, <1>2, <1>3, <1>4

\* c is q pieces of x, each of b cells, and v what of x is from n on.
Pieces(S, c, x, b, q) ==
  /\ c \in Seq(Seq(S)) /\ Len(c) = q
  /\ \A i \in 1..q : /\ c[i] \in Seq(S) /\ Len(c[i]) = b
                     /\ \A t \in 1..b : c[i][t] = x[(i - 1) * b + t]
\* v is what x has beyond its first n.
Left(S, v, x, n) ==
  /\ v \in Seq(S) /\ Len(v) = Len(x) - n
  /\ \A i \in 1..(Len(x) - n) : v[i] = x[n + i]

\* What Chunks cuts a sequence into.
LEMMA ChunksAre ==
  ASSUME NEW S, NEW x \in Seq(S), NEW b \in Nat \ {0}
  PROVE  Pieces(S, Chunks(x, b), x, b, Len(x) \div b)
<1>1. PICK q : q = Len(x) \div b
  OBVIOUS
<1>2. q \in Nat /\ q * b <= Len(x) /\ Len(x) \in Nat
  BY <1>1, DivIs, LenProperties
<1>3. Chunks(x, b) = [i \in 1..q |-> SubSeq(x, (i - 1) * b + 1, i * b)]
  BY <1>1 DEF Chunks
<1>4. ASSUME NEW i \in 1..q
      PROVE  LET c == SubSeq(x, (i - 1) * b + 1, i * b)
             IN  c \in Seq(S) /\ Len(c) = b /\ \A t \in 1..b : c[t] = x[(i - 1) * b + t]
  <2>1. PICK m, n : m = (i - 1) * b /\ n = i * b
    OBVIOUS
  <2>2. m \in Nat /\ n \in Nat /\ m <= n /\ n <= Len(x) /\ n - m = b
    BY <1>2, <2>1, WithinPiece
  <2>3. /\ SubSeq(x, m + 1, n) \in Seq(S) /\ Len(SubSeq(x, m + 1, n)) = n - m
        /\ \A t \in 1..(n - m) : SubSeq(x, m + 1, n)[t] = x[m + t]
    BY <2>2, Part
  <2>. QED BY <2>1, <2>2, <2>3
<1>5. \A i \in 1..q : Chunks(x, b)[i] = SubSeq(x, (i - 1) * b + 1, i * b)
  BY <1>3
<1>6. Chunks(x, b) \in [1..q -> Seq(S)]
  BY <1>3, <1>4
<1>7. Chunks(x, b) \in Seq(Seq(S)) /\ Len(Chunks(x, b)) = q
  BY <1>2, <1>6
<1>8. Pieces(S, Chunks(x, b), x, b, q)
  BY <1>4, <1>5, <1>7 DEF Pieces
<1>. QED BY <1>1, <1>8

\* What is over when whole pieces of b are cut from x.
Over(x, b) == Beyond(x, (Len(x) \div b) * b)

\* It is what comes after them.
LEMMA OverIs ==
  ASSUME NEW S, NEW x \in Seq(S), NEW b \in Nat \ {0}
  PROVE  Left(S, Over(x, b), x, (Len(x) \div b) * b)
<1>1. PICK n : n = (Len(x) \div b) * b
  OBVIOUS
<1>2. n \in Nat /\ n <= Len(x) /\ Len(x) \in Nat
  BY <1>1, DivIs, LenProperties
<1>3. Over(x, b) = Beyond(x, n)
  BY <1>1 DEF Over
<1>4. Left(S, Beyond(x, n), x, n)
  BY <1>2, BeyondIs DEF Left
<1>. QED BY <1>1, <1>3, <1>4

\* Nothing is over.
Whole(x, b) == \E p \in Nat : Len(x) = p * b

\* A sequence that is whole pieces, and another: cut as the two are.
LEMMA CutAfter ==
  ASSUME NEW S, NEW x \in Seq(S), NEW y \in Seq(S), NEW b \in Nat \ {0}, Whole(x, b)
  PROVE  /\ Chunks(x \o y, b) = Chunks(x, b) \o Chunks(y, b)
         /\ Over(x \o y, b) = Over(y, b)
<1>. DEFINE q == Len(y) \div b
            z == x \o y
<1>0. PICK p \in Nat : Len(x) = p * b
  BY DEF Whole
<1>1. q \in Nat /\ q * b <= Len(y) /\ Len(y) < q * b + b /\ Len(y) \in Nat /\ Len(x) \in Nat
  BY DivIs, LenProperties
<1>2. /\ z \in Seq(S) /\ Len(z) = Len(x) + Len(y)
      /\ \A i \in 1..(Len(x) + Len(y)) : z[i] = IF i <= Len(x) THEN x[i] ELSE y[i - Len(x)]
  BY ConcatProperties
<1>3. (p + q) * b = p * b + q * b /\ q * b \in Nat /\ p * b \in Nat
  BY <1>0, <1>1, DivIs
<1>4. Len(x) \div b = p
  <2>1. p * b <= Len(x) /\ Len(x) < p * b + b
    BY <1>0, <1>1
  <2>. QED BY <1>1, <2>1, DivOne
<1>5. Len(z) \div b = p + q
  <2>1. p + q \in Nat /\ (p + q) * b <= Len(z) /\ Len(z) < (p + q) * b + b /\ Len(z) \in Nat
    BY <1>0, <1>1, <1>2, <1>3
  <2>. QED BY <2>1, DivOne
<1>. HIDE DEF z, q
<1>. DEFINE X == Chunks(x, b)
            Y == Chunks(y, b)
            Z == Chunks(z, b)
<1>6. Pieces(S, X, x, b, p)
  BY <1>4, ChunksAre
<1>7. Pieces(S, Y, y, b, q)
  BY ChunksAre DEF q
<1>8. Pieces(S, Z, z, b, p + q)
  <2>1. Pieces(S, Z, z, b, Len(z) \div b)
    BY <1>2, ChunksAre
  <2>. QED BY <1>5, <2>1
<1>. HIDE DEF X, Y, Z
<1>9. /\ X \o Y \in Seq(Seq(S)) /\ Len(X \o Y) = p + q
      /\ \A i \in 1..(p + q) : (X \o Y)[i] = IF i <= p THEN X[i] ELSE Y[i - p]
  <2>1. X \in Seq(Seq(S)) /\ Y \in Seq(Seq(S)) /\ Len(X) = p /\ Len(Y) = q
    BY <1>6, <1>7 DEF Pieces
  <2>2. /\ X \o Y \in Seq(Seq(S)) /\ Len(X \o Y) = Len(X) + Len(Y)
        /\ \A i \in 1..(Len(X) + Len(Y)) : (X \o Y)[i] = IF i <= Len(X) THEN X[i] ELSE Y[i - Len(X)]
    BY <2>1, ConcatProperties
  <2>. QED BY <2>1, <2>2
<1>10. ASSUME NEW i \in 1..(p + q) PROVE Z[i] = (X \o Y)[i]
  <2>1. CASE i <= p
    <3>1. i \in 1..p /\ Z[i] \in Seq(S) /\ X[i] \in Seq(S) /\ Len(Z[i]) = b /\ Len(X[i]) = b
      <4>1. i \in 1..p /\ i \in 1..(p + q)
        BY <1>1, <2>1
      <4>2. Z[i] \in Seq(S) /\ Len(Z[i]) = b
        BY <1>8, <4>1 DEF Pieces
      <4>3. X[i] \in Seq(S) /\ Len(X[i]) = b
        BY <1>6, <4>1 DEF Pieces
      <4>. QED BY <4>1, <4>2, <4>3
    <3>2. ASSUME NEW t \in 1..b PROVE Z[i][t] = X[i][t]
      <4>1. PICK m : m = (i - 1) * b
        OBVIOUS
      <4>2. m \in Nat /\ m + b <= p * b
        BY <1>0, <1>1, <1>3, <3>1, <4>1, WithinPiece
      <4>3. m + t \in 1..(Len(x) + Len(y)) /\ m + t <= Len(x)
        BY <1>0, <1>1, <4>2
      <4>. QED BY <1>2, <1>6, <1>8, <3>1, <4>1, <4>3 DEF Pieces
    <3>3. Z[i] = X[i]
      BY <3>1, <3>2, SeqEqual
    <3>. QED BY <1>9, <2>1, <3>3
  <2>2. CASE i > p
    <3>1. PICK k : k = i - p
      OBVIOUS
    <3>2. k \in 1..q /\ k \in Nat
      BY <1>1, <2>2, <3>1
    <3>3. Z[i] \in Seq(S) /\ Y[k] \in Seq(S) /\ Len(Z[i]) = b /\ Len(Y[k]) = b
      BY <1>7, <1>8, <3>2 DEF Pieces
    <3>4. ASSUME NEW t \in 1..b PROVE Z[i][t] = Y[k][t]
      <4>1. PICK m : m = (k - 1) * b
        OBVIOUS
      <4>2. m \in Nat /\ m + b <= q * b
        BY <1>1, <1>3, <3>2, <4>1, WithinPiece
      <4>3. (i - 1) * b = Len(x) + m
        <5>1. i - 1 = p + (k - 1)
          BY <1>1, <3>1, <3>2
        <5>2. (p + (k - 1)) * b = p * b + (k - 1) * b
          BY <3>2
        <5>. QED BY <1>0, <4>1, <5>1, <5>2
      <4>4. /\ Len(x) + m + t \in 1..(Len(x) + Len(y)) /\ ~(Len(x) + m + t <= Len(x))
            /\ (Len(x) + m + t) - Len(x) = m + t
        BY <1>1, <4>2
      <4>5. Z[i][t] = y[m + t]
        <5>1. Z[i][t] = z[(i - 1) * b + t]
          BY <1>8 DEF Pieces
        <5>2. PICK o : o = Len(x) + m + t
          OBVIOUS
        <5>3. (i - 1) * b + t = o
          BY <4>3, <5>2
        <5>4. z[o] = y[o - Len(x)]
          BY <1>2, <4>4, <5>2
        <5>. QED BY <4>4, <5>1, <5>2, <5>3, <5>4
      <4>. QED BY <1>7, <3>2, <4>1, <4>5 DEF Pieces
    <3>5. Z[i] = Y[k]
      BY <3>3, <3>4, SeqEqual
    <3>6. (X \o Y)[i] = Y[k]
      BY <1>1, <1>9, <2>2, <3>1
    <3>. QED BY <3>5, <3>6
  <2>3. i <= p \/ i > p
    OBVIOUS
  <2>. QED BY <2>1, <2>2, <2>3, Zenon
<1>11. Z = X \o Y
  BY <1>8, <1>9, <1>10, SeqEqual DEF Pieces
<1>12. Over(z, b) = Over(y, b)
  <2>1. PICK u, v : u = Over(z, b) /\ v = Over(y, b)
    OBVIOUS
  <2>2. PICK n : n = q * b
    OBVIOUS
  <2>3. Left(S, v, y, n)
    BY <2>1, <2>2, OverIs DEF q
  <2>4. Left(S, u, z, Len(x) + n)
    <3>1. Left(S, u, z, (Len(z) \div b) * b)
      BY <1>2, <2>1, OverIs
    <3>. QED BY <1>0, <1>3, <1>5, <2>2, <3>1
  <2>5. n \in Nat /\ Len(u) = Len(v)
    BY <1>0, <1>1, <1>2, <1>3, <2>2, <2>3, <2>4 DEF Left
  <2>6. ASSUME NEW i \in 1..Len(u) PROVE u[i] = v[i]
    <3>1. /\ (Len(x) + n) + i \in 1..(Len(x) + Len(y)) /\ ~((Len(x) + n) + i <= Len(x))
          /\ ((Len(x) + n) + i) - Len(x) = n + i
      BY <1>1, <1>2, <2>4, <2>5 DEF Left
    <3>. QED BY <1>2, <2>3, <2>4, <2>5, <3>1 DEF Left
  <2>. QED BY <2>1, <2>3, <2>4, <2>5, <2>6, SeqEqual DEF Left
<1>. QED BY <1>11, <1>12 DEF X, Y, Z, z

\* Less than a piece is none, and a piece is one.
LEMMA CutShort ==
  ASSUME NEW S, NEW x \in Seq(S), NEW b \in Nat \ {0}, Len(x) < b
  PROVE  Chunks(x, b) = <<>> /\ Over(x, b) = x
<1>1. Len(x) \in Nat
  BY LenProperties
<1>2. Len(x) \div b = 0
  <2>1. 0 * b <= Len(x) /\ Len(x) < 0 * b + b /\ 0 \in Nat
    BY <1>1
  <2>. QED BY <1>1, <2>1, DivOne
<1>3. Chunks(x, b) = <<>>
  <2>1. Pieces(S, Chunks(x, b), x, b, 0)
    BY <1>2, ChunksAre
  <2>2. Chunks(x, b) \in Seq(Seq(S)) /\ Len(Chunks(x, b)) = 0
    BY <2>1 DEF Pieces
  <2>. QED BY <2>2, EmptySeq
<1>4. Over(x, b) = x
  <2>1. PICK v : v = Over(x, b)
    OBVIOUS
  <2>2. Left(S, v, x, 0)
    <3>1. Left(S, v, x, 0 * b)
      BY <1>2, <2>1, OverIs
    <3>2. 0 * b = 0
      OBVIOUS
    <3>. QED BY <3>1, <3>2
  <2>3. v \in Seq(S) /\ Len(v) = Len(x)
    BY <1>1, <2>2 DEF Left
  <2>4. ASSUME NEW i \in 1..Len(v) PROVE v[i] = x[i]
    BY <1>1, <2>2, <2>3 DEF Left
  <2>. QED BY <2>1, <2>3, <2>4, SeqEqual
<1>. QED BY <1>3, <1>4

\* A sequence as long as a piece is that piece.
LEMMA CutOne ==
  ASSUME NEW S, NEW x \in Seq(S), NEW b \in Nat \ {0}, Len(x) = b
  PROVE  Chunks(x, b) = <<x>> /\ Over(x, b) = <<>>
<1>1. Len(x) \div b = 1
  <2>1. 1 * b <= b /\ b < 1 * b + b /\ 1 \in Nat /\ b \in Nat
    OBVIOUS
  <2>. QED BY <2>1, DivOne
<1>2. Chunks(x, b) = <<x>>
  <2>1. PICK c : c = Chunks(x, b)
    OBVIOUS
  <2>2. Pieces(S, c, x, b, 1)
    BY <1>1, <2>1, ChunksAre
  <2>3. c \in Seq(Seq(S)) /\ Len(c) = 1 /\ c[1] \in Seq(S) /\ Len(c[1]) = b
    BY <2>2 DEF Pieces
  <2>4. ASSUME NEW t \in 1..b PROVE c[1][t] = x[t]
    <3>1. c[1][t] = x[(1 - 1) * b + t]
      BY <2>2 DEF Pieces
    <3>2. (1 - 1) * b + t = t
      OBVIOUS
    <3>. QED BY <3>1, <3>2
  <2>5. c[1] = x
    BY <2>3, <2>4, SeqEqual
  <2>6. <<x>> \in Seq(Seq(S)) /\ Len(<<x>>) = 1 /\ <<x>>[1] = x
    OBVIOUS
  <2>7. c = <<x>>
    <3>1. \A i \in 1..Len(c) : c[i] = <<x>>[i]
      BY <2>3, <2>5, <2>6
    <3>. QED BY <2>3, <2>6, <3>1, SeqEqual
  <2>. QED BY <2>1, <2>7
<1>3. Over(x, b) = <<>>
  <2>1. PICK v : v = Over(x, b)
    OBVIOUS
  <2>2. Left(S, v, x, b)
    <3>1. Left(S, v, x, 1 * b)
      BY <1>1, <2>1, OverIs
    <3>2. 1 * b = b
      OBVIOUS
    <3>. QED BY <3>1, <3>2
  <2>3. v \in Seq(S) /\ Len(v) = 0
    BY <2>2 DEF Left
  <2>. QED BY <2>1, <2>3, EmptySeq
<1>. QED BY <1>2, <1>3

\* Any sequence is whole pieces and what is over.
LEMMA CutAt ==
  ASSUME NEW S, NEW x \in Seq(S), NEW b \in Nat \ {0}
  PROVE  \E w \in Seq(S) :
            /\ Whole(w, b) /\ Len(Over(x, b)) < b /\ Over(x, b) \in Seq(S)
            /\ x = w \o Over(x, b) /\ Chunks(x, b) = Chunks(w, b)
<1>1. PICK p, v : p = Len(x) \div b /\ v = Over(x, b)
  OBVIOUS
<1>2. PICK n : n = p * b
  OBVIOUS
<1>3. p \in Nat /\ n \in Nat /\ n <= Len(x) /\ Len(x) < n + b /\ Len(x) \in Nat
  BY <1>1, <1>2, DivIs, LenProperties
<1>4. Left(S, v, x, n)
  BY <1>1, <1>2, OverIs
<1>5. PICK w : w = SubSeq(x, 1, n)
  OBVIOUS
<1>6. w \in Seq(S) /\ Len(w) = n /\ \A i \in 1..n : w[i] = x[i]
  BY <1>3, <1>5, FirstPart
<1>7. v \in Seq(S) /\ Len(v) = Len(x) - n /\ Len(v) < b
  BY <1>3, <1>4 DEF Left
<1>8. /\ w \o v \in Seq(S) /\ Len(w \o v) = Len(x)
      /\ \A i \in 1..Len(x) : (w \o v)[i] = IF i <= n THEN w[i] ELSE v[i - n]
  BY <1>3, <1>6, <1>7, ConcatProperties
<1>9. ASSUME NEW i \in 1..Len(x) PROVE x[i] = (w \o v)[i]
  <2>1. CASE i <= n
    BY <1>3, <1>6, <1>8, <2>1
  <2>2. CASE ~(i <= n)
    <3>1. i - n \in 1..(Len(x) - n) /\ n + (i - n) = i
      BY <1>3, <2>2
    <3>. QED BY <1>4, <1>8, <2>2, <3>1 DEF Left
  <2>. QED BY <2>1, <2>2
<1>10. x = w \o v
  BY <1>8, <1>9, SeqEqual
<1>11. Whole(w, b)
  BY <1>2, <1>3, <1>6 DEF Whole
<1>12. Chunks(x, b) = Chunks(w, b)
  <2>1. Chunks(w \o v, b) = Chunks(w, b) \o Chunks(v, b)
    BY <1>6, <1>7, <1>11, CutAfter
  <2>2. Chunks(v, b) = <<>>
    BY <1>7, CutShort
  <2>3. Chunks(w, b) \in Seq(Seq(S))
    BY <1>6, ChunksAre DEF Pieces
  <2>4. Chunks(w, b) \o <<>> = Chunks(w, b)
    BY <2>3, ConcatEmptySeq
  <2>. QED BY <1>10, <2>1, <2>2, <2>4
<1>. QED BY <1>1, <1>2, <1>3, <1>6, <1>7, <1>10, <1>11, <1>12

\* c is a and then b.
Then(S, c, a, b) ==
  /\ a \in Seq(S) /\ b \in Seq(S) /\ c \in Seq(S) /\ Len(c) = Len(a) + Len(b)
  /\ \A i \in 1..(Len(a) + Len(b)) : c[i] = IF i <= Len(a) THEN a[i] ELSE b[i - Len(a)]

\* Two sequences that are joined are one and then the other.
LEMMA ThenIs ==
  ASSUME NEW S, NEW a \in Seq(S), NEW b \in Seq(S)
  PROVE  Then(S, a \o b, a, b)
BY ConcatProperties DEF Then

\* Two sequences and two, joined in another order.
LEMMA Regrouped ==
  ASSUME NEW S, NEW w, NEW v, NEW d, NEW r, NEW x, NEW y, NEW block, NEW z, NEW u, NEW t,
         Then(S, x, w, v), Then(S, y, d, r), Then(S, block, v, d), Then(S, z, block, r),
         Then(S, u, x, y), Then(S, t, w, z)
  PROVE  u = t
<1>1. /\ Len(w) \in Nat /\ Len(v) \in Nat /\ Len(d) \in Nat /\ Len(r) \in Nat
      /\ Len(u) = Len(w) + Len(v) + Len(d) + Len(r) /\ Len(t) = Len(u)
      /\ Len(x) = Len(w) + Len(v) /\ Len(block) = Len(v) + Len(d)
      /\ Len(y) = Len(d) + Len(r) /\ Len(z) = Len(block) + Len(r)
  BY LenProperties DEF Then
<1>2. ASSUME NEW i \in 1..Len(u) PROVE u[i] = t[i]
  <2>1. CASE i <= Len(w)
    <3>1. i \in 1..(Len(x) + Len(y)) /\ i <= Len(x) /\ i \in 1..(Len(w) + Len(v)) /\ i \in 1..(Len(w) + Len(z))
      BY <1>1, <2>1
    <3>. QED BY <2>1, <3>1 DEF Then
  <2>2. CASE i > Len(w) /\ i <= Len(x)
    <3>1. /\ i \in 1..(Len(x) + Len(y)) /\ i \in 1..(Len(w) + Len(v)) /\ i \in 1..(Len(w) + Len(z)) /\ ~(i <= Len(w))
          /\ i - Len(w) \in 1..(Len(block) + Len(r)) /\ i - Len(w) <= Len(block)
          /\ i - Len(w) \in 1..(Len(v) + Len(d)) /\ i - Len(w) <= Len(v)
      BY <1>1, <2>2
    <3>2. u[i] = v[i - Len(w)]
      BY <2>2, <3>1 DEF Then
    <3>3. t[i] = z[i - Len(w)] /\ z[i - Len(w)] = block[i - Len(w)] /\ block[i - Len(w)] = v[i - Len(w)]
      BY <3>1 DEF Then
    <3>. QED BY <3>2, <3>3
  <2>3. CASE i > Len(x) /\ i <= Len(x) + Len(d)
    <3>1. PICK k, j : k = i - Len(x) /\ j = i - Len(w)
      OBVIOUS
    <3>2. /\ i \in 1..(Len(x) + Len(y)) /\ ~(i <= Len(x)) /\ i \in 1..(Len(w) + Len(z)) /\ ~(i <= Len(w))
          /\ j \in 1..(Len(block) + Len(r)) /\ j <= Len(block)
          /\ j \in 1..(Len(v) + Len(d)) /\ ~(j <= Len(v)) /\ j - Len(v) = k
          /\ k \in 1..(Len(d) + Len(r)) /\ k <= Len(d)
      BY <1>1, <2>3, <3>1
    <3>3. u[i] = y[k] /\ y[k] = d[k]
      BY <3>1, <3>2 DEF Then
    <3>4. t[i] = z[j] /\ z[j] = block[j] /\ block[j] = d[k]
      BY <3>1, <3>2 DEF Then
    <3>. QED BY <3>3, <3>4
  <2>4. CASE i > Len(x) + Len(d)
    <3>1. PICK k, j : k = i - Len(x) /\ j = i - Len(w)
      OBVIOUS
    <3>2. /\ i \in 1..(Len(x) + Len(y)) /\ ~(i <= Len(x)) /\ i \in 1..(Len(w) + Len(z)) /\ ~(i <= Len(w))
          /\ j \in 1..(Len(block) + Len(r)) /\ ~(j <= Len(block)) /\ j - Len(block) = k - Len(d)
          /\ k \in 1..(Len(d) + Len(r)) /\ ~(k <= Len(d))
      BY <1>1, <2>4, <3>1
    <3>3. u[i] = y[k] /\ y[k] = r[k - Len(d)]
      BY <3>1, <3>2 DEF Then
    <3>4. t[i] = z[j] /\ z[j] = r[k - Len(d)]
      BY <3>1, <3>2 DEF Then
    <3>. QED BY <3>3, <3>4
  <2>. QED BY <1>1, <2>1, <2>2, <2>3, <2>4
<1>. QED BY <1>1, <1>2, SeqEqual DEF Then

\* The hash after these bytes, in however many pieces they came.
Fed(x) == [state |-> Chunks(x, BLOCK), block |-> Over(x, BLOCK), len |-> Len(x)]

LEMMA FedNothing == Sha256 = Fed(<<>>)
<1>1. BLOCK \in Nat \ {0}
  BY UploadAssumption
<1>2. <<>> \in Seq({}) /\ Len(<<>>) = 0
  OBVIOUS
<1>3. Chunks(<<>>, BLOCK) = <<>> /\ Over(<<>>, BLOCK) = <<>>
  <2>1. Len(<<>>) < BLOCK
    BY <1>1, <1>2
  <2>. QED BY <1>1, <1>2, <2>1, CutShort, Zenon
<1>. QED BY <1>2, <1>3 DEF Fed, Sha256

\* The hash of bytes that come in two pieces is the hash of them as one.
LEMMA FedOn ==
  ASSUME NEW S, NEW x \in Seq(S), NEW y \in Seq(S)
  PROVE  sha_update(Fed(x), y) = Fed(x \o y)
<1>0. PICK v : v = Over(x, BLOCK)
  OBVIOUS
<1>1. BLOCK \in Nat \ {0}
  BY UploadAssumption
<1>2. PICK w \in Seq(S) :
        /\ Whole(w, BLOCK) /\ Len(v) < BLOCK /\ v \in Seq(S)
        /\ x = w \o v /\ Chunks(x, BLOCK) = Chunks(w, BLOCK)
  <2>1. PICK w \in Seq(S) :
          /\ Whole(w, BLOCK) /\ Len(Over(x, BLOCK)) < BLOCK /\ Over(x, BLOCK) \in Seq(S)
          /\ x = w \o Over(x, BLOCK) /\ Chunks(x, BLOCK) = Chunks(w, BLOCK)
    BY <1>1, CutAt
  <2>. QED BY <1>0, <2>1
<1>3. Len(v) \in Nat /\ Len(y) \in Nat /\ Len(x) \in Nat /\ Len(x \o y) = Len(x) + Len(y)
  BY <1>2, LenProperties, ConcatProperties
<1>4. PICK h : h = Fed(x)
  OBVIOUS
<1>5. h.state = Chunks(x, BLOCK) /\ h.block = v /\ h.len = Len(x)
  BY <1>0, <1>4 DEF Fed
<1>6. PICK take : take = IF v = <<>> THEN 0 ELSE Least(Len(y), BLOCK - Len(v))
  OBVIOUS
<1>7. take \in Nat /\ take <= Len(y) /\ (v # <<>> => Len(v) + take <= BLOCK)
  BY <1>1, <1>2, <1>3, <1>6 DEF Least
<1>8. PICK d, rest : d = SubSeq(y, 1, take) /\ rest = Beyond(y, take)
  OBVIOUS
<1>9. d \in Seq(S) /\ Len(d) = take /\ rest \in Seq(S) /\ Len(rest) = Len(y) - take /\ y = d \o rest
  <2>1. /\ d \in Seq(S) /\ Len(d) = take /\ \A i \in 1..take : d[i] = y[i]
    BY <1>7, <1>8, FirstPart
  <2>2. /\ rest \in Seq(S) /\ Len(rest) = Len(y) - take
        /\ \A i \in 1..(Len(y) - take) : rest[i] = y[take + i]
    BY <1>7, <1>8, BeyondIs
  <2>3. /\ d \o rest \in Seq(S) /\ Len(d \o rest) = Len(y)
        /\ \A i \in 1..Len(y) : (d \o rest)[i] = IF i <= take THEN d[i] ELSE rest[i - take]
    BY <1>3, <1>7, <2>1, <2>2, ConcatProperties
  <2>4. ASSUME NEW i \in 1..Len(y) PROVE y[i] = (d \o rest)[i]
    <3>1. CASE i <= take
      BY <1>7, <2>1, <2>3, <3>1
    <3>2. CASE ~(i <= take)
      <4>1. i - take \in 1..(Len(y) - take) /\ take + (i - take) = i
        BY <1>3, <1>7, <3>2
      <4>. QED BY <2>2, <2>3, <3>2, <4>1
    <3>. QED BY <3>1, <3>2
  <2>. QED BY <2>1, <2>2, <2>3, <2>4, SeqEqual
<1>10. PICK block : block = v \o d
  OBVIOUS
<1>11. block \in Seq(S) /\ Len(block) = Len(v) + take
  BY <1>2, <1>9, <1>10, ConcatProperties
<1>12. x \o y = w \o (block \o rest)
  <2>1. v \in Seq(S) /\ d \in Seq(S) /\ rest \in Seq(S) /\ block \in Seq(S)
    BY <1>2, <1>9, <1>11
  <2>2. PICK z : z = block \o rest
    OBVIOUS
  <2>3. PICK u, t : u = x \o y /\ t = w \o z
    OBVIOUS
  <2>4. Then(S, x, w, v) /\ Then(S, y, d, rest) /\ Then(S, block, v, d) /\ Then(S, z, block, rest)
    BY <1>2, <1>9, <1>10, <2>1, <2>2, ThenIs
  <2>5. Then(S, u, x, y) /\ Then(S, t, w, z)
    <3>1. z \in Seq(S)
      BY <2>4 DEF Then
    <3>. QED BY <2>3, <3>1, ThenIs
  <2>6. u = t
    BY <2>4, <2>5, Regrouped
  <2>. QED BY <2>2, <2>3, <2>6
<1>13. block \o rest \in Seq(S)
  BY <1>9, <1>11, ConcatProperties
<1>14. /\ Chunks(x \o y, BLOCK) = Chunks(w, BLOCK) \o Chunks(block \o rest, BLOCK)
       /\ Over(x \o y, BLOCK) = Over(block \o rest, BLOCK)
  <2>1. PICK z : z = block \o rest
    OBVIOUS
  <2>2. z \in Seq(S) /\ w \in Seq(S) /\ Whole(w, BLOCK)
    BY <1>2, <1>13, <2>1
  <2>3. /\ Chunks(w \o z, BLOCK) = Chunks(w, BLOCK) \o Chunks(z, BLOCK)
        /\ Over(w \o z, BLOCK) = Over(z, BLOCK)
    BY <1>1, <2>2, CutAfter
  <2>. QED BY <1>12, <2>1, <2>3
<1>15. Fed(x \o y) = [state |-> Chunks(x, BLOCK) \o Chunks(block \o rest, BLOCK),
                      block |-> Over(block \o rest, BLOCK), len |-> Len(x) + Len(y)]
  BY <1>2, <1>3, <1>14 DEF Fed
<1>16. CASE v # <<>> /\ Len(block) < BLOCK
  <2>1. take = Len(y) /\ Len(rest) = 0
    BY <1>1, <1>2, <1>3, <1>6, <1>7, <1>9, <1>11, <1>16 DEF Least
  <2>2. block \o rest = block
    <3>1. rest = <<>>
      BY <1>9, <2>1, EmptySeq
    <3>. QED BY <1>11, <3>1, ConcatEmptySeq
  <2>3. Chunks(block, BLOCK) = <<>> /\ Over(block, BLOCK) = block
    BY <1>1, <1>11, <1>16, CutShort
  <2>4. Chunks(x, BLOCK) \o <<>> = Chunks(x, BLOCK)
    <3>1. Chunks(x, BLOCK) \in Seq(Seq(S))
      BY <1>1, ChunksAre DEF Pieces
    <3>. QED BY <3>1, ConcatEmptySeq
  <2>5. Fed(x \o y) = [state |-> Chunks(x, BLOCK), block |-> block, len |-> Len(x) + Len(y)]
    BY <1>15, <2>2, <2>3, <2>4
  <2>6. sha_update(h, y) = [h EXCEPT !.block = block, !.len = @ + Len(y)]
    BY <1>5, <1>6, <1>8, <1>10, <1>16 DEF sha_update
  <2>7. h = [state |-> Chunks(x, BLOCK), block |-> v, len |-> Len(x)]
    BY <1>0, <1>4 DEF Fed
  <2>8. [h EXCEPT !.block = block, !.len = @ + Len(y)]
          = [state |-> Chunks(x, BLOCK), block |-> block, len |-> Len(x) + Len(y)]
    <3>1. [h EXCEPT !.block = block, !.len = @ + Len(y)] = [[h EXCEPT !.block = block] EXCEPT !.len = @ + Len(y)]
      OBVIOUS
    <3>2. [h EXCEPT !.block = block] = [state |-> Chunks(x, BLOCK), block |-> block, len |-> Len(x)]
      BY <2>7
    <3>3. [[state |-> Chunks(x, BLOCK), block |-> block, len |-> Len(x)] EXCEPT !.len = @ + Len(y)]
            = [state |-> Chunks(x, BLOCK), block |-> block, len |-> Len(x) + Len(y)]
      OBVIOUS
    <3>. QED BY <3>1, <3>2, <3>3
  <2>. QED BY <1>4, <2>5, <2>6, <2>8, Zenon
<1>17. CASE v = <<>>
  <2>1. take = 0 /\ d = <<>> /\ rest = y /\ block = <<>>
    <3>1. take = 0 /\ Len(d) = 0 /\ Len(block) = 0
      <4>1. Len(v) = 0
        BY <1>17
      <4>. QED BY <1>6, <1>9, <1>11, <1>17, <4>1
    <3>2. d = <<>> /\ block = <<>>
      BY <1>9, <1>11, <3>1, EmptySeq
    <3>3. rest = y
      BY <1>9, <3>2, ConcatEmptySeq
    <3>. QED BY <3>1, <3>2, <3>3
  <2>2. block \o rest = y
    BY <2>1, ConcatEmptySeq
  <2>3. PICK whole : whole = Chunks(y, BLOCK)
    OBVIOUS
  <2>4. /\ whole \in Seq(Seq(S)) /\ Len(whole) = Len(y) \div BLOCK
        /\ Chunks(x, BLOCK) \in Seq(Seq(S))
    <3>1. Pieces(S, whole, y, BLOCK, Len(y) \div BLOCK)
      BY <1>1, <2>3, ChunksAre
    <3>2. Pieces(S, Chunks(x, BLOCK), x, BLOCK, Len(x) \div BLOCK)
      BY <1>1, ChunksAre
    <3>. QED BY <3>1, <3>2 DEF Pieces
  <2>5. (h.state \o <<>>) \o whole = Chunks(x, BLOCK) \o whole
    BY <1>5, <2>4, ConcatEmptySeq
  <2>6. Beyond(rest, Len(whole) * BLOCK) = Over(y, BLOCK)
    BY <2>1, <2>4 DEF Over
  <2>7. sha_update(h, y) = [state |-> (h.state \o <<>>) \o whole,
                            block |-> Beyond(rest, Len(whole) * BLOCK), len |-> h.len + Len(y)]
    BY <1>5, <1>6, <1>8, <1>17, <2>1, <2>3 DEF sha_update
  <2>. QED BY <1>4, <1>5, <1>15, <2>2, <2>3, <2>5, <2>6, <2>7
<1>18. CASE v # <<>> /\ ~(Len(block) < BLOCK)
  <2>1. Len(block) = BLOCK
    <3>1. Len(v) + take <= BLOCK /\ Len(block) = Len(v) + take /\ Len(v) \in Nat
      BY <1>3, <1>7, <1>11, <1>18
    <3>. QED BY <1>1, <1>7, <1>18, <3>1
  <2>2. Chunks(block, BLOCK) = <<block>> /\ Over(block, BLOCK) = <<>> /\ Whole(block, BLOCK)
    <3>1. Len(block) = 1 * BLOCK /\ 1 \in Nat
      BY <1>1, <2>1
    <3>. QED BY <1>1, <1>11, <2>1, <3>1, CutOne DEF Whole
  <2>3. PICK whole : whole = Chunks(rest, BLOCK)
    OBVIOUS
  <2>4. /\ whole \in Seq(Seq(S)) /\ Len(whole) = Len(rest) \div BLOCK
        /\ Chunks(x, BLOCK) \in Seq(Seq(S)) /\ <<block>> \in Seq(Seq(S))
    <3>1. Pieces(S, whole, rest, BLOCK, Len(rest) \div BLOCK)
      BY <1>1, <1>9, <2>3, ChunksAre
    <3>2. Pieces(S, Chunks(x, BLOCK), x, BLOCK, Len(x) \div BLOCK)
      BY <1>1, ChunksAre
    <3>3. <<block>> \in Seq(Seq(S))
      BY <1>11
    <3>. QED BY <3>1, <3>2, <3>3 DEF Pieces
  <2>5. /\ Chunks(block \o rest, BLOCK) = <<block>> \o whole
        /\ Over(block \o rest, BLOCK) = Over(rest, BLOCK)
    <3>1. /\ Chunks(block \o rest, BLOCK) = Chunks(block, BLOCK) \o Chunks(rest, BLOCK)
          /\ Over(block \o rest, BLOCK) = Over(rest, BLOCK)
      <4>1. block \in Seq(S) /\ rest \in Seq(S)
        BY <1>9, <1>11
      <4>2. Whole(block, BLOCK)
        BY <2>2
      <4>. QED BY <1>1, <4>1, <4>2, CutAfter
    <3>. QED BY <2>2, <2>3, <3>1
  <2>6. (h.state \o <<block>>) \o whole = Chunks(x, BLOCK) \o (<<block>> \o whole)
    <3>1. PICK c, e : c = Chunks(x, BLOCK) /\ e = <<block>>
      OBVIOUS
    <3>2. (c \o e) \o whole = c \o (e \o whole)
      <4>1. PICK T : T = Seq(S)
        OBVIOUS
      <4>2. c \in Seq(T) /\ e \in Seq(T) /\ whole \in Seq(T)
        BY <2>4, <3>1, <4>1
      <4>. QED BY <4>2, ConcatAssociative
    <3>. QED BY <1>5, <3>1, <3>2
  <2>7. Beyond(rest, Len(whole) * BLOCK) = Over(rest, BLOCK)
    BY <2>4 DEF Over
  <2>8. sha_update(h, y) = [state |-> (h.state \o <<block>>) \o whole,
                            block |-> Beyond(rest, Len(whole) * BLOCK), len |-> h.len + Len(y)]
    BY <1>5, <1>6, <1>8, <1>10, <1>18, <2>3 DEF sha_update
  <2>. QED BY <1>4, <1>5, <1>15, <2>5, <2>6, <2>7, <2>8
<1>. QED BY <1>4, <1>16, <1>17, <1>18

\* Whole pieces say what they are the pieces of.
LEMMA OfPieces ==
  ASSUME NEW S, NEW u \in Seq(S), NEW v \in Seq(S), NEW b \in Nat \ {0},
         Whole(u, b), Whole(v, b), Chunks(u, b) = Chunks(v, b)
  PROVE  u = v
<1>1. PICK p \in Nat : Len(u) = p * b
  BY DEF Whole
<1>2. PICK q \in Nat : Len(v) = q * b
  BY DEF Whole
<1>3. b \in Nat /\ p * b \in Nat /\ q * b \in Nat /\ Len(u) \in Nat /\ Len(v) \in Nat
  BY <1>1, <1>2, LenProperties
<1>4. Len(u) \div b = p /\ Len(v) \div b = q
  <2>1. p * b <= Len(u) /\ Len(u) < p * b + b /\ q * b <= Len(v) /\ Len(v) < q * b + b
    BY <1>1, <1>2, <1>3
  <2>. QED BY <1>3, <2>1, DivOne
<1>5. PICK c : c = Chunks(u, b)
  OBVIOUS
<1>6. Pieces(S, c, u, b, p)
  BY <1>4, <1>5, ChunksAre
<1>7. Pieces(S, c, v, b, q)
  BY <1>4, <1>5, ChunksAre
<1>8. p = q /\ Len(u) = Len(v)
  <2>1. p = q
    BY <1>6, <1>7 DEF Pieces
  <2>. QED BY <1>1, <1>2, <2>1
<1>9. ASSUME NEW j \in 1..Len(u) PROVE u[j] = v[j]
  <2>1. PICK k : k = (j - 1) \div b
    OBVIOUS
  <2>2. j - 1 \in Nat
    BY <1>3
  <2>3. k \in Nat /\ k * b \in Nat /\ k * b <= j - 1 /\ j - 1 < k * b + b
    BY <2>1, <2>2, DivIs
  <2>4. k < p
    <3>1. p <= k => p * b <= k * b
      BY <2>3, TimesUp
    <3>. QED BY <1>1, <1>3, <2>2, <2>3, <3>1
  <2>5. PICK i, t : i = k + 1 /\ t = j - k * b
    OBVIOUS
  <2>6. i \in 1..p /\ t \in 1..b /\ (i - 1) * b + t = j
    <3>1. i - 1 = k /\ i \in 1..p
      BY <2>3, <2>4, <2>5
    <3>2. t \in 1..b /\ k * b + t = j
      BY <1>3, <2>2, <2>3, <2>5
    <3>. QED BY <3>1, <3>2
  <2>7. c[i][t] = u[(i - 1) * b + t] /\ c[i][t] = v[(i - 1) * b + t]
    BY <1>6, <1>7, <1>8, <2>6 DEF Pieces
  <2>. QED BY <2>6, <2>7
<1>. QED BY <1>8, <1>9, SeqEqual

\* The bytes that padding is made of.
Numbers == {Byte(n) : n \in Nat}

\* The last of what is hashed: what is over of it, and how long it was.
Padded(S, w, t, x) ==
  /\ w \in Seq(S) /\ Whole(w, BLOCK) /\ Len(w) <= Len(x) /\ Len(x) - Len(w) < BLOCK
  /\ t \in Seq(S) /\ Whole(t, BLOCK) /\ Len(x) - Len(w) < Len(t) /\ t[Len(t)] = Byte(Len(x))
  /\ \A i \in 1..Len(x) : x[i] = IF i <= Len(w) THEN w[i] ELSE t[i - Len(w)]

\* What finish hashes: whole blocks of x, then what is over of it with its padding.
LEMMA FinishIs ==
  ASSUME NEW S, NEW x \in Seq(S), Numbers \subseteq S
  PROVE  \E w, t : Padded(S, w, t, x) /\ sha_finish(Fed(x)) = Chunks(w \o t, BLOCK)
<1>0. LENGTH_BYTES \in Nat \ {0} /\ LENGTH_BYTES + 1 <= BLOCK
  BY UploadAssumption
<1>1. BLOCK \in Nat \ {0}
  BY UploadAssumption
<1>2. PICK v : v = Over(x, BLOCK)
  OBVIOUS
<1>3. PICK w \in Seq(S) :
        /\ Whole(w, BLOCK) /\ Len(v) < BLOCK /\ v \in Seq(S)
        /\ x = w \o v /\ Chunks(x, BLOCK) = Chunks(w, BLOCK)
  <2>1. PICK w \in Seq(S) :
          /\ Whole(w, BLOCK) /\ Len(Over(x, BLOCK)) < BLOCK /\ Over(x, BLOCK) \in Seq(S)
          /\ x = w \o Over(x, BLOCK) /\ Chunks(x, BLOCK) = Chunks(w, BLOCK)
    BY <1>1, CutAt
  <2>. QED BY <1>2, <2>1
<1>4. PICK f, k : f = Len(v) /\ k = Tail1(f)
  OBVIOUS
<1>5. f \in Nat /\ k \in {BLOCK, 2 * BLOCK} /\ k \in Nat /\ f + 1 < k
  <2>1. f \in Nat /\ f < BLOCK
    BY <1>3, <1>4, LenProperties
  <2>2. k = IF f + 1 + LENGTH_BYTES <= BLOCK THEN BLOCK ELSE 2 * BLOCK
    BY <1>4 DEF Tail1
  <2>. QED BY <1>0, <1>1, <2>1, <2>2
<1>6. PICK n : n = Len(x)
  OBVIOUS
<1>7. n \in Nat
  BY <1>6, LenProperties
<1>8. PICK t : t = [i \in 1..k |-> CASE i <= f -> v[i]
                                     [] i = f + 1 -> Byte(128)
                                     [] i = k -> Byte(n)
                                     [] OTHER -> Byte(0)]
  OBVIOUS
<1>9. /\ \A i \in 1..f : t[i] = v[i] /\ t[i] \in S
      /\ t[f + 1] = Byte(128) /\ t[k] = Byte(n)
      /\ \A i \in 1..k : i > f + 1 /\ i # k => t[i] = Byte(0)
  <2>1. ASSUME NEW i \in 1..f PROVE t[i] = v[i] /\ t[i] \in S
    <3>1. i \in 1..k /\ i <= f /\ i # f + 1 /\ i # k /\ v[i] \in S
      BY <1>3, <1>4, <1>5, ElementOfSeq
    <3>. QED BY <1>8, <3>1
  <2>2. t[f + 1] = Byte(128)
    <3>1. PICK i : i = f + 1
      OBVIOUS
    <3>2. i \in 1..k /\ ~(i <= f) /\ i # k
      BY <1>5, <3>1
    <3>3. t[i] = Byte(128)
      BY <1>8, <3>1, <3>2
    <3>. QED BY <3>1, <3>3
  <2>3. t[k] = Byte(n)
    <3>1. PICK i : i = k
      OBVIOUS
    <3>2. i \in 1..k /\ ~(i <= f) /\ i # f + 1
      BY <1>5, <3>1
    <3>3. t[i] = Byte(n)
      BY <1>8, <3>1, <3>2
    <3>. QED BY <3>1, <3>3
  <2>4. ASSUME NEW i \in 1..k, i > f + 1, i # k PROVE t[i] = Byte(0)
    <3>1. ~(i <= f) /\ i # f + 1
      BY <1>5, <2>4
    <3>. QED BY <1>8, <2>4, <3>1
  <2>. QED BY <2>1, <2>2, <2>3, <2>4
<1>10. t \in Seq(S) /\ Len(t) = k
  <2>1. ASSUME NEW i \in 1..k PROVE t[i] \in S
    <3>1. Byte(128) \in S /\ Byte(n) \in S /\ Byte(0) \in S
      <4>1. Byte(128) \in Numbers /\ Byte(n) \in Numbers /\ Byte(0) \in Numbers
        BY <1>7 DEF Numbers
      <4>. QED BY <4>1
    <3>2. i \in 1..f \/ i = f + 1 \/ (i > f + 1 /\ i # k) \/ i = k
      BY <1>5
    <3>. QED BY <1>9, <3>1, <3>2
  <2>2. t \in [1..k -> S]
    BY <1>8, <2>1
  <2>. QED BY <1>5, <2>2
<1>11. Whole(t, BLOCK)
  <2>1. Len(t) = 1 * BLOCK \/ Len(t) = 2 * BLOCK
    BY <1>1, <1>5, <1>10
  <2>. QED BY <2>1 DEF Whole
<1>12. Padded(S, w, t, x)
  <2>1. Then(S, x, w, v)
    BY <1>3, ThenIs
  <2>2. n = Len(w) + f /\ Len(w) \in Nat
    BY <1>4, <1>6, <2>1, LenProperties DEF Then
  <2>3. ASSUME NEW i \in 1..n PROVE x[i] = IF i <= Len(w) THEN w[i] ELSE t[i - Len(w)]
    <3>1. CASE i <= Len(w)
      BY <1>4, <2>1, <2>2, <3>1 DEF Then
    <3>2. CASE ~(i <= Len(w))
      <4>1. i - Len(w) \in 1..f /\ i \in 1..(Len(w) + Len(v))
        BY <1>4, <1>5, <2>2, <3>2
      <4>2. x[i] = v[i - Len(w)]
        BY <2>1, <3>2, <4>1 DEF Then
      <4>. QED BY <1>9, <3>2, <4>1, <4>2
    <3>. QED BY <3>1, <3>2
  <2>4. Len(x) - Len(w) < Len(t) /\ t[Len(t)] = Byte(Len(x))
    BY <1>5, <1>6, <1>9, <1>10, <2>2
  <2>5. Len(w) <= Len(x) /\ Len(x) - Len(w) < BLOCK
    BY <1>1, <1>3, <1>4, <1>5, <1>6, <2>2
  <2>. QED BY <1>3, <1>6, <1>10, <1>11, <2>3, <2>4, <2>5 DEF Padded
<1>13. sha_finish(Fed(x)) = Chunks(w \o t, BLOCK)
  <2>1. PICK h : h = Fed(x)
    OBVIOUS
  <2>2. h.state = Chunks(w, BLOCK) /\ h.block = v /\ h.len = n
    BY <1>2, <1>3, <1>6, <2>1 DEF Fed
  <2>3. sha_finish(h) = Chunks(w, BLOCK) \o Chunks(t, BLOCK)
    BY <1>4, <1>8, <2>2 DEF sha_finish
  <2>4. Chunks(w \o t, BLOCK) = Chunks(w, BLOCK) \o Chunks(t, BLOCK)
    BY <1>1, <1>3, <1>10, CutAfter
  <2>. QED BY <2>1, <2>3, <2>4
<1>. QED BY <1>12, <1>13

\* No two inputs are hashed to the same blocks.
LEMMA FinishOne ==
  ASSUME NEW S, NEW x \in Seq(S), NEW y \in Seq(S), sha_finish(Fed(x)) = sha_finish(Fed(y))
  PROVE  x = y
<1>1. BLOCK \in Nat \ {0}
  BY UploadAssumption
<1>2. PICK T : T = S \cup Numbers
  OBVIOUS
<1>3. x \in Seq(T) /\ y \in Seq(T) /\ Numbers \subseteq T
  BY <1>2, SeqMonotonic
<1>4. PICK w, t : Padded(T, w, t, x) /\ sha_finish(Fed(x)) = Chunks(w \o t, BLOCK)
  BY <1>3, FinishIs
<1>5. PICK w2, t2 : Padded(T, w2, t2, y) /\ sha_finish(Fed(y)) = Chunks(w2 \o t2, BLOCK)
  BY <1>3, FinishIs
<1>6. PICK z, z2 : z = w \o t /\ z2 = w2 \o t2
  OBVIOUS
<1>7. /\ w \in Seq(T) /\ t \in Seq(T) /\ w2 \in Seq(T) /\ t2 \in Seq(T)
      /\ Whole(w, BLOCK) /\ Whole(t, BLOCK) /\ Whole(w2, BLOCK) /\ Whole(t2, BLOCK)
  BY <1>4, <1>5 DEF Padded
<1>8. Then(T, z, w, t) /\ Then(T, z2, w2, t2)
  BY <1>6, <1>7, ThenIs
<1>9. Whole(z, BLOCK) /\ Whole(z2, BLOCK)
  <2>1. Len(z) = Len(w) + Len(t) /\ Len(z2) = Len(w2) + Len(t2)
    BY <1>8 DEF Then
  <2>2. PICK a \in Nat, b \in Nat, c \in Nat, d \in Nat :
          Len(w) = a * BLOCK /\ Len(t) = b * BLOCK /\ Len(w2) = c * BLOCK /\ Len(t2) = d * BLOCK
    BY <1>7 DEF Whole
  <2>3. a * BLOCK + b * BLOCK = (a + b) * BLOCK /\ c * BLOCK + d * BLOCK = (c + d) * BLOCK
    BY <1>1
  <2>4. Len(z) = (a + b) * BLOCK /\ Len(z2) = (c + d) * BLOCK
    BY <2>1, <2>2, <2>3
  <2>5. a + b \in Nat /\ c + d \in Nat
    OBVIOUS
  <2>. QED BY <2>4, <2>5 DEF Whole
<1>10. z = z2
  <2>1. Chunks(z, BLOCK) = Chunks(z2, BLOCK)
    BY <1>4, <1>5, <1>6
  <2>2. z \in Seq(T) /\ z2 \in Seq(T)
    BY <1>8 DEF Then
  <2>. QED BY <1>1, <1>9, <2>1, <2>2, OfPieces
<1>11. /\ Len(x) \in Nat /\ Len(y) \in Nat /\ Len(w) \in Nat /\ Len(w2) \in Nat
       /\ Len(t) \in Nat /\ Len(t2) \in Nat
  BY <1>7, LenProperties
<1>12. /\ Len(w) <= Len(x) /\ Len(x) - Len(w) < BLOCK /\ Len(x) - Len(w) < Len(t) /\ t[Len(t)] = Byte(Len(x))
       /\ Len(w2) <= Len(y) /\ Len(y) - Len(w2) < BLOCK /\ Len(y) - Len(w2) < Len(t2) /\ t2[Len(t2)] = Byte(Len(y))
  BY <1>4, <1>5 DEF Padded
<1>13. Len(w) + Len(t) = Len(w2) + Len(t2)
  BY <1>8, <1>10 DEF Then
<1>14. Len(x) = Len(y)
  <2>1. PICK e : e = Len(w) + Len(t)
    OBVIOUS
  <2>2. e \in 1..(Len(w) + Len(t)) /\ ~(e <= Len(w)) /\ e - Len(w) = Len(t)
    BY <1>11, <1>12, <2>1
  <2>3. e \in 1..(Len(w2) + Len(t2)) /\ ~(e <= Len(w2)) /\ e - Len(w2) = Len(t2)
    BY <1>11, <1>12, <1>13, <2>1
  <2>4. z[e] = t[Len(t)] /\ z2[e] = t2[Len(t2)]
    BY <1>8, <2>2, <2>3 DEF Then
  <2>5. Byte(Len(x)).n = Byte(Len(y)).n
    BY <1>10, <1>12, <2>4
  <2>. QED BY <2>5 DEF Byte
<1>15. Len(w) = Len(w2)
  <2>1. PICK a \in Nat : Len(w) = a * BLOCK
    BY <1>7 DEF Whole
  <2>2. PICK b \in Nat : Len(w2) = b * BLOCK
    BY <1>7 DEF Whole
  <2>3. Len(x) < a * BLOCK + BLOCK /\ Len(y) < b * BLOCK + BLOCK
    BY <1>1, <1>11, <1>12, <2>1, <2>2
  <2>4. Len(x) \div BLOCK = a
    <3>1. a * BLOCK <= Len(x)
      BY <1>12, <2>1
    <3>. QED BY <1>1, <1>11, <2>3, <3>1, DivOne
  <2>5. Len(y) \div BLOCK = b
    <3>1. b * BLOCK <= Len(y)
      BY <1>12, <2>2
    <3>. QED BY <1>1, <1>11, <2>3, <3>1, DivOne
  <2>. QED BY <1>14, <2>1, <2>2, <2>4, <2>5
<1>16. ASSUME NEW i \in 1..Len(x) PROVE x[i] = y[i]
  <2>1. /\ x[i] = IF i <= Len(w) THEN w[i] ELSE t[i - Len(w)]
        /\ y[i] = IF i <= Len(w) THEN w2[i] ELSE t2[i - Len(w)]
    BY <1>4, <1>5, <1>14, <1>15 DEF Padded
  <2>2. i \in 1..(Len(w) + Len(t)) /\ i \in 1..(Len(w2) + Len(t2))
    BY <1>11, <1>12, <1>13
  <2>3. /\ z[i] = IF i <= Len(w) THEN w[i] ELSE t[i - Len(w)]
        /\ z2[i] = IF i <= Len(w) THEN w2[i] ELSE t2[i - Len(w)]
    BY <1>8, <1>15, <2>2 DEF Then
  <2>. QED BY <1>10, <2>1, <2>3
<1>. QED BY <1>14, <1>16, SeqEqual
-----------------------------------------------------------------------------
(***************************************************************************)
(* The files.                                                              *)
(***************************************************************************)
Hash(x) == sha_finish(Fed(x))

\* The bytes of an image: those of the build, and those of its digest.
Of(body) == {Byte(n) : n \in 0..255} \cup {Summed(Hash(Bytes(body)), k) : k \in 1..DIGEST_LEN}

\* A body's bytes are bytes of the image.
LEMMA BytesOf ==
  ASSUME NEW body \in Bodies
  PROVE  Bytes(body) \in Seq(Of(body)) /\ Len(Bytes(body)) = Len(body) /\ Len(body) \in Nat
<1>1. body \in Seq(0..255)
  BY UploadAssumption
<1>2. \A i \in 1..Len(body) : body[i] \in 0..255
  BY <1>1, ElementOfSeq
<1>3. PICK n, S : n = Len(body) /\ S = Of(body)
  OBVIOUS
<1>4. n \in Nat /\ DOMAIN body = 1..n
  BY <1>1, <1>3, LenProperties
<1>5. \A i \in 1..n : Byte(body[i]) \in S
  BY <1>2, <1>3 DEF Of
<1>6. Bytes(body) \in [1..n -> S]
  BY <1>4, <1>5 DEF Bytes
<1>7. Bytes(body) \in Seq(S) /\ Len(Bytes(body)) = n
  BY <1>4, <1>6
<1>. QED BY <1>3, <1>4, <1>7

\* A digest has DIGEST_LEN bytes, each of them of the hash.
LEMMA DigestIs ==
  ASSUME NEW h
  PROVE  /\ DigestOf(h) \in Seq({Summed(h, k) : k \in 1..DIGEST_LEN}) /\ Len(DigestOf(h)) = DIGEST_LEN
         /\ \A k \in 1..DIGEST_LEN : DigestOf(h)[k] = Summed(h, k)
         /\ DIGEST_LEN \in Nat \ {0}
<1>1. DIGEST_LEN \in Nat \ {0}
  BY UploadAssumption
<1>2. DigestOf(h) \in [1..DIGEST_LEN -> {Summed(h, k) : k \in 1..DIGEST_LEN}]
  BY DEF DigestOf
<1>3. \A k \in 1..DIGEST_LEN : DigestOf(h)[k] = Summed(h, k)
  BY DEF DigestOf
<1>4. DigestOf(h) \in Seq({Summed(h, k) : k \in 1..DIGEST_LEN}) /\ Len(DigestOf(h)) = DIGEST_LEN
  <2>1. PICK S, d : S = {Summed(h, k) : k \in 1..DIGEST_LEN} /\ d = DigestOf(h)
    OBVIOUS
  <2>2. d \in [1..DIGEST_LEN -> S] /\ DIGEST_LEN \in Nat
    BY <1>1, <1>2, <2>1
  <2>3. d \in Seq(S) /\ Len(d) = DIGEST_LEN
    BY <2>2
  <2>. QED BY <2>1, <2>3
<1>. QED BY <1>1, <1>3, <1>4

\* A hasher's first input.
LEMMA FedFirst ==
  ASSUME NEW S, NEW y \in Seq(S)
  PROVE  sha_update(Sha256, y) = Fed(y)
<1>1. <<>> \in Seq(S) /\ <<>> \o y = y
  BY EmptySeq, ConcatEmptySeq
<1>2. sha_update(Fed(<<>>), y) = Fed(<<>> \o y)
  BY <1>1, FedOn
<1>. QED BY <1>1, <1>2, FedNothing

\* An image is its build's bytes and their digest.
LEMMA BuildIs ==
  ASSUME NEW body \in Bodies
  PROVE  /\ Then(Of(body), Build(body), Bytes(body), DigestOf(Hash(Bytes(body))))
         /\ Len(DigestOf(Hash(Bytes(body)))) = DIGEST_LEN
<1>1. PICK x, h, S : x = Bytes(body) /\ h = Hash(x) /\ S = Of(body)
  OBVIOUS
<1>2. x \in Seq(S)
  BY <1>1, BytesOf
<1>3. {Summed(h, k) : k \in 1..DIGEST_LEN} \subseteq S
  BY <1>1 DEF Of
<1>4. DigestOf(h) \in Seq(S) /\ Len(DigestOf(h)) = DIGEST_LEN
  BY <1>3, DigestIs, SeqMonotonic
<1>5. Build(body) = x \o DigestOf(h)
  <2>1. sha_update(Sha256, x) = Fed(x)
    BY <1>2, FedFirst
  <2>. QED BY <1>1, <2>1 DEF Build, Hash
<1>6. Then(S, x \o DigestOf(h), x, DigestOf(h))
  BY <1>2, <1>4, ThenIs
<1>. QED BY <1>1, <1>4, <1>5, <1>6

\* Only one sequence is a and then b.
LEMMA ThenOne ==
  ASSUME NEW S, NEW a, NEW b, NEW c, NEW d, Then(S, c, a, b), Then(S, d, a, b)
  PROVE  c = d
BY SeqEqual DEF Then

\* A file that is cut where its digest begins.
LEMMA CutFile ==
  ASSUME NEW S, NEW file \in Seq(S), NEW n \in Nat, n <= Len(file)
  PROVE  Then(S, file, SubSeq(file, 1, n), SubSeq(file, n + 1, Len(file)))
<1>1. PICK a, b : a = SubSeq(file, 1, n) /\ b = SubSeq(file, n + 1, Len(file))
  OBVIOUS
<1>2. Len(file) \in Nat
  BY LenProperties
<1>3. a \in Seq(S) /\ Len(a) = n /\ \A i \in 1..n : a[i] = file[i]
  BY <1>1, FirstPart
<1>4. b \in Seq(S) /\ Len(b) = Len(file) - n /\ \A i \in 1..(Len(file) - n) : b[i] = file[n + i]
  BY <1>1, <1>2, Part
<1>5. ASSUME NEW i \in 1..(Len(a) + Len(b))
      PROVE  file[i] = IF i <= Len(a) THEN a[i] ELSE b[i - Len(a)]
  <2>1. CASE i <= n
    BY <1>3, <2>1
  <2>2. CASE ~(i <= n)
    <3>1. i - n \in 1..(Len(file) - n) /\ n + (i - n) = i
      BY <1>2, <1>3, <1>4, <2>2
    <3>. QED BY <1>3, <1>4, <2>2, <3>1
  <2>. QED BY <2>1, <2>2
<1>6. Len(file) = Len(a) + Len(b)
  BY <1>2, <1>3, <1>4
<1>. QED BY <1>1, <1>3, <1>4, <1>5, <1>6 DEF Then

\* What is cut off a file is what it was joined from.
LEMMA ThenParts ==
  ASSUME NEW S, NEW a, NEW b, NEW c, NEW d, NEW f, Then(S, f, a, b), Then(S, f, c, d), Len(b) = Len(d)
  PROVE  a = c /\ b = d
<1>1. /\ a \in Seq(S) /\ b \in Seq(S) /\ c \in Seq(S) /\ d \in Seq(S)
      /\ Len(a) \in Nat /\ Len(b) \in Nat /\ Len(c) \in Nat /\ Len(a) = Len(c)
      /\ Len(f) = Len(a) + Len(b)
  <2>1. a \in Seq(S) /\ b \in Seq(S) /\ c \in Seq(S) /\ d \in Seq(S)
    BY DEF Then
  <2>2. Len(a) \in Nat /\ Len(b) \in Nat /\ Len(c) \in Nat
    BY <2>1, LenProperties
  <2>. QED BY <2>1, <2>2 DEF Then
<1>2. a = c
  <2>1. ASSUME NEW i \in 1..Len(a) PROVE a[i] = c[i]
    <3>1. i \in 1..(Len(a) + Len(b)) /\ i <= Len(a)
      BY <1>1
    <3>. QED BY <1>1, <3>1 DEF Then
  <2>. QED BY <1>1, <2>1, SeqEqual
<1>3. b = d
  <2>1. ASSUME NEW i \in 1..Len(b) PROVE b[i] = d[i]
    <3>1. PICK j : j = Len(a) + i
      OBVIOUS
    <3>2. j \in 1..(Len(a) + Len(b)) /\ ~(j <= Len(a)) /\ j - Len(a) = i
      BY <1>1, <3>1
    <3>. QED BY <1>1, <3>2 DEF Then
  <2>. QED BY <1>1, <2>1, SeqEqual
<1>. QED BY <1>2, <1>3

\* A file ends with the digest of what is before it just if it is a build's image.
LEMMA DigestTells ==
  ASSUME NEW body \in Bodies, NEW file \in Seq(Of(body)), NEW head, NEW tail,
         Then(Of(body), file, head, tail), Len(tail) = DIGEST_LEN
  PROVE  DigestOf(Hash(head)) = tail <=> Intact(file)
<1>0. DIGEST_LEN \in Nat \ {0}
  BY UploadAssumption
<1>1. ASSUME DigestOf(Hash(head)) = tail PROVE Intact(file)
  <2>1. PICK h : h = Hash(head)
    OBVIOUS
  <2>2. tail[DIGEST_LEN] = Summed(h, DIGEST_LEN)
    <3>1. DIGEST_LEN \in 1..DIGEST_LEN
      BY <1>0
    <3>. QED BY <1>1, <2>1, <3>1, DigestIs
  <2>3. tail[DIGEST_LEN] \in Of(body)
    <3>1. tail \in Seq(Of(body)) /\ DIGEST_LEN \in 1..Len(tail)
      BY <1>0 DEF Then
    <3>. QED BY <3>1, ElementOfSeq
  <2>4. PICK c : c = Summed(h, DIGEST_LEN)
    OBVIOUS
  <2>5. c.n = 255 + DIGEST_LEN /\ c.of = h
    BY <2>4 DEF Summed
  <2>6. \A n \in 0..255 : c # Byte(n)
    BY <1>0, <2>5 DEF Byte
  <2>7. \E k \in 1..DIGEST_LEN : c = Summed(Hash(Bytes(body)), k)
    BY <2>2, <2>3, <2>4, <2>6 DEF Of
  <2>8. h = Hash(Bytes(body))
    BY <2>5, <2>7 DEF Summed
  <2>9. head = Bytes(body)
    <3>1. head \in Seq(Of(body)) /\ Bytes(body) \in Seq(Of(body))
      BY BytesOf DEF Then
    <3>. QED BY <2>1, <2>8, <3>1, FinishOne DEF Hash
  <2>10. Then(Of(body), file, Bytes(body), DigestOf(Hash(Bytes(body))))
    BY <1>1, <2>9
  <2>11. file = Build(body)
    BY <2>10, BuildIs, ThenOne
  <2>. QED BY <2>11 DEF Intact
<1>2. ASSUME Intact(file) PROVE DigestOf(Hash(head)) = tail
  <2>1. PICK b \in Bodies : file = Build(b)
    BY <1>2 DEF Intact
  <2>2. PICK x, t : x = Bytes(b) /\ t = DigestOf(Hash(x))
    OBVIOUS
  <2>3. Then(Of(b), file, x, t) /\ Len(t) = DIGEST_LEN
    BY <2>1, <2>2, BuildIs
  <2>4. head = x /\ tail = t
    <3>1. PICK S : S = Of(body) \cup Of(b)
      OBVIOUS
    <3>2. Then(S, file, x, t) /\ Then(S, file, head, tail)
      BY <2>3, <3>1, SeqMonotonic DEF Then
    <3>. QED BY <2>3, <3>2, ThenParts
  <2>. QED BY <2>2, <2>4
<1>. QED BY <1>1, <1>2

\* Every file is a sequence of its image's bytes, whole, cut or with a byte changed.
LEMMA FilesAre ==
  ASSUME NEW file \in Files
  PROVE  \E body \in Bodies : file \in Seq(Of(body))
<1>1. PICK body \in Bodies :
        LET built == Build(body)
        IN  file \in {built, SubSeq(built, 1, Len(built) - 1)}
                       \cup {[built EXCEPT ![i] = Byte(9)] : i \in {1, 2, Len(built)}}
  BY DEF Files
<1>2. PICK built, S : built = Build(body) /\ S = Of(body)
  OBVIOUS
<1>3. built \in Seq(S) /\ Len(built) \in Nat \ {0}
  <2>1. Then(S, built, Bytes(body), DigestOf(Hash(Bytes(body)))) /\ Len(DigestOf(Hash(Bytes(body)))) = DIGEST_LEN
    BY <1>2, BuildIs
  <2>2. built \in Seq(S) /\ Len(built) = Len(Bytes(body)) + DIGEST_LEN /\ Bytes(body) \in Seq(S)
    BY <2>1 DEF Then
  <2>3. Len(Bytes(body)) \in Nat /\ DIGEST_LEN \in Nat \ {0}
    BY <2>2, LenProperties, UploadAssumption
  <2>. QED BY <2>2, <2>3
<1>4. Byte(9) \in S
  BY <1>2 DEF Of
<1>5. SubSeq(built, 1, Len(built) - 1) \in Seq(S)
  <2>1. PICK n : n = Len(built) - 1
    OBVIOUS
  <2>2. n \in Nat /\ n <= Len(built)
    BY <1>3, <2>1
  <2>. QED BY <1>3, <2>1, <2>2, FirstPart
<1>6. ASSUME NEW i PROVE [built EXCEPT ![i] = Byte(9)] \in Seq(S)
  <2>1. built \in [1..Len(built) -> S]
    BY <1>3, LenProperties
  <2>2. [built EXCEPT ![i] = Byte(9)] \in [1..Len(built) -> S]
    BY <1>4, <2>1
  <2>. QED BY <1>3, <2>2
<1>7. file = built \/ file = SubSeq(built, 1, Len(built) - 1) \/ \E i : file = [built EXCEPT ![i] = Byte(9)]
  BY <1>1, <1>2
<1>. QED BY <1>2, <1>3, <1>5, <1>6, <1>7
-----------------------------------------------------------------------------
(***************************************************************************)
(* A piece that arrives.                                                   *)
(***************************************************************************)
\* What ImageCheck holds once the first g bytes of x are read, of a stream of len.
Hashed(len, g) == Least(g, len - DIGEST_LEN)
\* The check's fields, once g bytes of a stream of len were fed to it.
Checked(c, x, len, g) ==
  /\ c = [expected |-> len, seen |-> g, hasher |-> Fed(SubSeq(x, 1, Hashed(len, g))),
          digest |-> SubSeq(x, Hashed(len, g) + 1, g), mark |-> c.mark]
  /\ Tracks(c.mark, x, g)

\* A new check, before the first byte.
LEMMA CheckedNothing ==
  ASSUME NEW S, NEW x \in Seq(S), NEW len \in Nat, DIGEST_LEN < len
  PROVE  Checked(ImageCheck(len), x, len, 0)
<1>1. Hashed(len, 0) = 0
  BY UploadAssumption DEF Hashed, Least
<1>2. SubSeq(x, 1, 0) = <<>> /\ SubSeq(x, 0 + 1, 0) = <<>>
  BY SubSeqEmpty
<1>3. PICK m : m = [matched |-> 0, found |-> FALSE]
  OBVIOUS
<1>4. Tracks(m, x, 0)
  BY <1>3, TracksNothing
<1>5. PICK c : c = ImageCheck(len)
  OBVIOUS
<1>6. c = [expected |-> len, seen |-> 0, hasher |-> Sha256, digest |-> <<>>, mark |-> m]
  BY <1>3, <1>5 DEF ImageCheck
<1>7. c.mark = m
  BY <1>6
<1>8. c = [expected |-> len, seen |-> 0, hasher |-> Fed(SubSeq(x, 1, Hashed(len, 0))),
           digest |-> SubSeq(x, Hashed(len, 0) + 1, 0), mark |-> c.mark]
  BY <1>1, <1>2, <1>6, <1>7, FedNothing, Zenon
<1>. QED BY <1>4, <1>5, <1>7, <1>8 DEF Checked

\* A stretch of x and the stretch after it are the stretch of x that is both.
LEMMA Onward ==
  ASSUME NEW S, NEW x \in Seq(S), NEW m \in Nat, NEW g \in Nat, NEW n \in Nat,
         m <= g, g <= n, n <= Len(x)
  PROVE  SubSeq(x, m + 1, n) = SubSeq(x, m + 1, g) \o SubSeq(x, g + 1, n)
<1>1. PICK a, b, c, d : a = SubSeq(x, m + 1, g) /\ b = SubSeq(x, g + 1, n) /\ c = SubSeq(x, m + 1, n) /\ d = a \o b
  OBVIOUS
<1>0. g <= Len(x) /\ m <= n
  <2>1. Len(x) \in Nat
    BY LenProperties
  <2>. QED BY <2>1
<1>2. a \in Seq(S) /\ Len(a) = g - m /\ \A i \in 1..(g - m) : a[i] = x[m + i]
  BY <1>0, <1>1, Part
<1>3. b \in Seq(S) /\ Len(b) = n - g /\ \A i \in 1..(n - g) : b[i] = x[g + i]
  BY <1>1, Part
<1>4. c \in Seq(S) /\ Len(c) = n - m /\ \A i \in 1..(n - m) : c[i] = x[m + i]
  BY <1>0, <1>1, Part
<1>5. Then(S, d, a, b)
  BY <1>1, <1>2, <1>3, ThenIs
<1>6. d \in Seq(S) /\ Len(d) = Len(c)
  BY <1>2, <1>3, <1>4, <1>5 DEF Then
<1>7. ASSUME NEW i \in 1..Len(c) PROVE c[i] = d[i]
  <2>1. i \in 1..(n - m) /\ i \in 1..(Len(a) + Len(b))
    BY <1>2, <1>3, <1>4
  <2>2. CASE i <= g - m
    <3>1. i \in 1..(g - m) /\ i <= Len(a)
      BY <1>2, <2>1, <2>2
    <3>2. d[i] = a[i]
      BY <1>5, <2>1, <3>1 DEF Then
    <3>. QED BY <1>2, <1>4, <2>1, <3>1, <3>2
  <2>3. CASE ~(i <= g - m)
    <3>1. i - (g - m) \in 1..(n - g) /\ ~(i <= Len(a)) /\ g + (i - (g - m)) = m + i
      BY <1>2, <2>1, <2>3
    <3>2. d[i] = b[i - (g - m)]
      BY <1>2, <1>5, <2>1, <3>1 DEF Then
    <3>. QED BY <1>3, <1>4, <2>1, <3>1, <3>2
  <2>. QED BY <2>2, <2>3
<1>. QED BY <1>1, <1>4, <1>6, <1>7, SeqEqual

\* A stretch of a stretch.
LEMMA Within ==
  ASSUME NEW S, NEW x \in Seq(S), NEW g \in Nat, NEW n \in Nat, NEW i \in Nat, NEW j \in Nat,
         i <= j, g + j <= n, n <= Len(x)
  PROVE  SubSeq(SubSeq(x, g + 1, n), i + 1, j) = SubSeq(x, (g + i) + 1, g + j)
<1>1. PICK b, c, d : b = SubSeq(x, g + 1, n) /\ c = SubSeq(b, i + 1, j) /\ d = SubSeq(x, (g + i) + 1, g + j)
  OBVIOUS
<1>0. g <= n
  OBVIOUS
<1>2. b \in Seq(S) /\ Len(b) = n - g /\ \A t \in 1..(n - g) : b[t] = x[g + t]
  BY <1>0, <1>1, Part
<1>3. c \in Seq(S) /\ Len(c) = j - i /\ \A t \in 1..(j - i) : c[t] = b[i + t]
  <2>1. j <= Len(b)
    BY <1>2
  <2>. QED BY <1>1, <1>2, <2>1, Part
<1>4. d \in Seq(S) /\ Len(d) = j - i /\ \A t \in 1..(j - i) : d[t] = x[(g + i) + t]
  <2>1. PICK p, q : p = g + i /\ q = g + j
    OBVIOUS
  <2>2. p \in Nat /\ q \in Nat /\ p <= q /\ q <= Len(x) /\ q - p = j - i
    <3>1. Len(x) \in Nat
      BY LenProperties
    <3>. QED BY <2>1, <3>1
  <2>3. d \in Seq(S) /\ Len(d) = q - p /\ \A t \in 1..(q - p) : d[t] = x[p + t]
    <3>1. d = SubSeq(x, p + 1, q)
      BY <1>1, <2>1
    <3>2. p \in Nat /\ q \in Nat /\ p <= q /\ q <= Len(x)
      BY <2>2
    <3>3. /\ SubSeq(x, p + 1, q) \in Seq(S) /\ Len(SubSeq(x, p + 1, q)) = q - p
          /\ \A t \in 1..(q - p) : SubSeq(x, p + 1, q)[t] = x[p + t]
      BY <3>2, Part
    <3>. QED BY <3>1, <3>3
  <2>. QED BY <2>1, <2>2, <2>3
<1>5. ASSUME NEW t \in 1..(j - i) PROVE c[t] = d[t]
  <2>1. i + t \in 1..(n - g) /\ g + (i + t) = (g + i) + t
    OBVIOUS
  <2>. QED BY <1>2, <1>3, <1>4, <2>1
<1>. QED BY <1>1, <1>3, <1>4, <1>5, SeqEqual

\* What the check holds after a piece is what it holds of all that has come.
LEMMA FeedOn ==
  ASSUME NEW S, NEW x \in Seq(S), NEW len \in Nat, DIGEST_LEN < len, NEW g \in Nat, NEW n \in Nat,
         g + n <= Len(x), NEW c, Checked(c, x, len, g)
  PROVE  Checked(check_feed(c, SubSeq(x, g + 1, g + n)), x, len, g + n)
<1>0. DIGEST_LEN \in Nat \ {0} /\ Len(x) \in Nat
  BY UploadAssumption, LenProperties
<1>1. PICK bytes, e : bytes = SubSeq(x, g + 1, g + n) /\ e = g + n
  OBVIOUS
<1>2. e \in Nat /\ g <= e /\ e <= Len(x) /\ e - g = n
  BY <1>1
<1>3. bytes \in Seq(S) /\ Len(bytes) = n /\ \A i \in 1..n : bytes[i] = x[g + i]
  <2>1. bytes = SubSeq(x, g + 1, e)
    BY <1>1
  <2>. QED BY <1>2, <2>1, Part
<1>4. PICK k, k2 : k = Hashed(len, g) /\ k2 = Hashed(len, e)
  OBVIOUS
<1>5. PICK split : split = Least(IF len - DIGEST_LEN - g < 0 THEN 0 ELSE len - DIGEST_LEN - g, n)
  OBVIOUS
<1>6. /\ k \in Nat /\ k2 \in Nat /\ split \in Nat /\ k <= g /\ split <= n /\ k2 = k + split
      /\ k2 <= e /\ (split = 0 \/ k = g)
  BY <1>0, <1>1, <1>4, <1>5 DEF Hashed, Least
<1>7. c = [expected |-> len, seen |-> g, hasher |-> Fed(SubSeq(x, 1, k)),
           digest |-> SubSeq(x, k + 1, g), mark |-> c.mark] /\ Tracks(c.mark, x, g)
  BY <1>4 DEF Checked
<1>8. PICK h, d, m : h = Fed(SubSeq(x, 1, k)) /\ d = SubSeq(x, k + 1, g) /\ m = c.mark
  OBVIOUS
<1>9. c = [expected |-> len, seen |-> g, hasher |-> h, digest |-> d, mark |-> m]
  BY <1>7, <1>8
<1>10. PICK f : f = check_feed(c, bytes)
  OBVIOUS
<1>11. f = [c EXCEPT !.seen = @ + Len(bytes),
                     !.hasher = sha_update(@, SubSeq(bytes, 1, split)),
                     !.digest = @ \o Beyond(bytes, split),
                     !.mark = Scanned(@, bytes)]
  <2>1. c.expected = len /\ c.seen = g
    BY <1>9
  <2>. QED BY <1>3, <1>5, <1>10, <2>1 DEF check_feed
<1>12. /\ f = [expected |-> f.expected, seen |-> f.seen, hasher |-> f.hasher, digest |-> f.digest, mark |-> f.mark]
       /\ f.expected = len /\ f.seen = g + Len(bytes) /\ f.hasher = sha_update(h, SubSeq(bytes, 1, split))
       /\ f.digest = d \o Beyond(bytes, split) /\ f.mark = Scanned(m, bytes)
  BY <1>9, <1>11
<1>13. sha_update(h, SubSeq(bytes, 1, split)) = Fed(SubSeq(x, 1, k2))
  <2>1. PICK a, b : a = SubSeq(x, 1, k) /\ b = SubSeq(bytes, 1, split)
    OBVIOUS
  <2>2. a \in Seq(S) /\ b \in Seq(S) /\ Len(b) = split
    <3>1. a \in Seq(S)
      BY <1>2, <1>6, <2>1, FirstPart
    <3>2. b \in Seq(S) /\ Len(b) = split
      BY <1>3, <1>6, <2>1, FirstPart
    <3>. QED BY <3>1, <3>2
  <2>3. sha_update(h, b) = Fed(a \o b)
    BY <1>8, <2>1, <2>2, FedOn
  <2>4. a \o b = SubSeq(x, 1, k2)
    <3>1. CASE split = 0
      <4>1. b = <<>> /\ k2 = k
        BY <1>6, <2>2, <3>1, EmptySeq
      <4>. QED BY <2>1, <2>2, <4>1, ConcatEmptySeq
    <3>2. CASE k = g
      <4>1. b = SubSeq(x, (g + 0) + 1, g + split)
        <5>1. SubSeq(SubSeq(x, g + 1, e), 0 + 1, split) = SubSeq(x, (g + 0) + 1, g + split)
          BY <1>2, <1>6, Within
        <5>2. 0 + 1 = 1
          OBVIOUS
        <5>3. b = SubSeq(SubSeq(x, g + 1, e), 0 + 1, split)
          BY <1>1, <2>1, <5>2, Zenon
        <5>. QED BY <5>1, <5>3, Zenon
      <4>2. SubSeq(x, 0 + 1, k2) = SubSeq(x, 0 + 1, g) \o SubSeq(x, g + 1, k2)
        BY <1>2, <1>6, <3>2, Onward
      <4>3. a = SubSeq(x, 0 + 1, g) /\ b = SubSeq(x, g + 1, k2)
        BY <1>6, <2>1, <3>2, <4>1
      <4>4. 0 + 1 = 1
        OBVIOUS
      <4>5. SubSeq(x, 1, k2) = SubSeq(x, 0 + 1, k2)
        BY <4>4, Zenon
      <4>. QED BY <4>2, <4>3, <4>5, Zenon
    <3>. QED BY <1>6, <3>1, <3>2
  <2>. QED BY <2>1, <2>3, <2>4
<1>14. d \o Beyond(bytes, split) = SubSeq(x, k2 + 1, e)
  <2>1. PICK b : b = Beyond(bytes, split)
    OBVIOUS
  <2>2. b = SubSeq(x, (g + split) + 1, e)
    <3>1. SubSeq(SubSeq(x, g + 1, e), split + 1, n) = SubSeq(x, (g + split) + 1, g + n)
      BY <1>2, <1>6, Within
    <3>2. b = SubSeq(bytes, split + 1, n)
      BY <1>3, <2>1 DEF Beyond
    <3>. QED BY <1>1, <3>1, <3>2
  <2>3. CASE split = 0
    <3>1. SubSeq(x, k + 1, e) = SubSeq(x, k + 1, g) \o SubSeq(x, g + 1, e)
      BY <1>2, <1>6, Onward
    <3>2. b = SubSeq(x, g + 1, e) /\ k2 = k
      BY <1>6, <2>2, <2>3
    <3>. QED BY <1>8, <2>1, <3>1, <3>2
  <2>4. CASE k = g
    <3>1. d = <<>>
      BY <1>8, <2>4, SubSeqEmpty
    <3>2. b \in Seq(S)
      BY <1>3, <1>6, <2>1, BeyondIs
    <3>3. b = SubSeq(x, k2 + 1, e)
      BY <1>6, <2>2, <2>4
    <3>. QED BY <2>1, <3>1, <3>2, <3>3, ConcatEmptySeq
  <2>. QED BY <1>6, <2>3, <2>4
<1>15. Tracks(Scanned(m, bytes), x, e)
  <2>1. Len(bytes) \in Nat /\ \A i \in 1..Len(bytes) : bytes[i] = x[g + i]
    BY <1>3
  <2>2. Tracks(m, x, g)
    BY <1>7, <1>8
  <2>3. Tracks(Scanned(m, bytes), x, g + Len(bytes))
    BY <2>1, <2>2, ScannedOn
  <2>. QED BY <1>1, <1>3, <2>3
<1>16. Checked(f, x, len, e)
  <2>1. f = [expected |-> len, seen |-> e, hasher |-> Fed(SubSeq(x, 1, Hashed(len, e))),
             digest |-> SubSeq(x, Hashed(len, e) + 1, e), mark |-> f.mark]
    BY <1>1, <1>3, <1>4, <1>12, <1>13, <1>14, Zenon
  <2>. QED BY <1>12, <1>15, <2>1 DEF Checked
<1>. QED BY <1>1, <1>10, <1>16

\* What is in the slot, and what waits to fill a sector, after the first g bytes of x.
Slot(sl) == sl = [i \in 1..SLOT_LEN |-> sl[i]]
\* What filled a sector is in its place; what is after it waits.
Written(s, sl, x, g) ==
  /\ s = [buffer |-> SubSeq(x, s.at + 1, g), at |-> s.at] /\ s.at \in Nat /\ s.at <= g
  /\ Slot(sl) /\ \A i \in 1..s.at : sl[i] = x[i]

\* Sectors that start over, whatever the slot holds.
LEMMA WrittenNothing ==
  ASSUME NEW x, NEW sl, Slot(sl)
  PROVE  Written([buffer |-> <<>>, at |-> 0], sl, x, 0)
<1>1. PICK s : s = [buffer |-> <<>>, at |-> 0]
  OBVIOUS
<1>2. s.at = 0 /\ SubSeq(x, 0 + 1, 0) = <<>>
  BY <1>1, SubSeqEmpty
<1>3. s = [buffer |-> SubSeq(x, s.at + 1, 0), at |-> s.at]
  BY <1>1, <1>2, Zenon
<1>. QED BY <1>1, <1>2, <1>3 DEF Written

\* No sector of an image that fits the slot is past its end, and each is written in its place.
LEMMA PushOn ==
  ASSUME NEW S, NEW x \in Seq(S), NEW g \in Nat, NEW n \in Nat, g + n <= Len(x), g + n <= SLOT_LEN,
         NEW s, NEW sl, Written(s, sl, x, g)
  PROVE  LET w == Pushed([sectors |-> s, slot |-> sl, failed |-> FALSE], SubSeq(x, g + 1, g + n))
         IN  w.failed = FALSE /\ Written(w.sectors, w.slot, x, g + n)
<1>0. SECTOR_LEN \in Nat \ {0} /\ SLOT_LEN \in Nat /\ Len(x) \in Nat
  BY UploadAssumption, LenProperties
<1>1. PICK bytes, e : bytes = SubSeq(x, g + 1, g + n) /\ e = g + n
  OBVIOUS
<1>2. e \in Nat /\ g <= e /\ e <= Len(x) /\ e <= SLOT_LEN
  BY <1>1
<1>3. PICK at, buffer : at = s.at /\ buffer = s.buffer
  OBVIOUS
<1>4. at \in Nat /\ at <= g /\ buffer = SubSeq(x, at + 1, g) /\ Slot(sl) /\ \A i \in 1..at : sl[i] = x[i]
  <2>1. at \in Nat /\ at <= g /\ Slot(sl) /\ \A i \in 1..at : sl[i] = x[i]
    BY <1>3 DEF Written
  <2>2. PICK b : b = SubSeq(x, at + 1, g)
    OBVIOUS
  <2>3. buffer = b
    <3>1. s = [buffer |-> b, at |-> at]
      BY <1>3, <2>2 DEF Written
    <3>2. s.buffer = b
      BY <3>1
    <3>. QED BY <1>3, <3>2
  <2>. QED BY <2>1, <2>2, <2>3
<1>5. PICK all : all = buffer \o bytes
  OBVIOUS
<1>6. all = SubSeq(x, at + 1, e)
  <2>1. SubSeq(x, at + 1, e) = SubSeq(x, at + 1, g) \o SubSeq(x, g + 1, e)
    BY <1>2, <1>4, Onward
  <2>2. bytes = SubSeq(x, g + 1, e)
    BY <1>1
  <2>. QED BY <1>4, <1>5, <2>1, <2>2
<1>7. all \in Seq(S) /\ Len(all) = e - at /\ \A i \in 1..(e - at) : all[i] = x[at + i]
  BY <1>2, <1>4, <1>6, Part
<1>8. PICK full, room : full = Len(all) \div SECTOR_LEN /\ room = (SLOT_LEN - at) \div SECTOR_LEN
  OBVIOUS
<1>9. PICK k : k = full * SECTOR_LEN
  OBVIOUS
<1>10. full \in Nat /\ k \in Nat /\ k <= e - at
  <2>1. e - at \in Nat
    BY <1>2, <1>4
  <2>2. full = (e - at) \div SECTOR_LEN
    BY <1>7, <1>8
  <2>. QED BY <1>0, <1>9, <2>1, <2>2, DivIs
<1>11. room \in Nat /\ full <= room
  <2>1. SLOT_LEN - at \in Nat
    BY <1>0, <1>2, <1>4
  <2>2. room \in Nat /\ SLOT_LEN - at < room * SECTOR_LEN + SECTOR_LEN /\ room * SECTOR_LEN \in Nat
    BY <1>0, <1>8, <2>1, DivIs
  <2>3. room + 1 <= full => (room + 1) * SECTOR_LEN <= k
    BY <1>0, <1>9, <1>10, <2>2, TimesUp
  <2>4. (room + 1) * SECTOR_LEN = room * SECTOR_LEN + SECTOR_LEN
    BY <1>0, <2>2
  <2>5. ~(room + 1 <= full)
    BY <1>0, <1>2, <1>4, <1>10, <2>1, <2>2, <2>3, <2>4
  <2>. QED BY <1>10, <2>2, <2>5
<1>12. PICK w : w = Pushed([sectors |-> s, slot |-> sl, failed |-> FALSE], bytes)
  OBVIOUS
<1>13. Least(full, room) * SECTOR_LEN = k
  <2>1. Least(full, room) = full
    BY <1>10, <1>11 DEF Least
  <2>. QED BY <1>9, <2>1
<1>14. w = [sectors |-> [buffer |-> Beyond(all, k), at |-> at + k],
            slot |-> [i \in DOMAIN sl |-> IF i \in (at + 1)..(at + k) THEN all[i - at] ELSE sl[i]],
            failed |-> room < full]
  <2>1. PICK v : v = [sectors |-> s, slot |-> sl, failed |-> FALSE]
    OBVIOUS
  <2>2. v.sectors = s /\ v.slot = sl
    BY <2>1
  <2>3. w = Pushed(v, bytes)
    BY <1>12, <2>1
  <2>. QED BY <1>3, <1>5, <1>8, <1>9, <1>13, <2>2, <2>3, Zenon DEF Pushed
<1>15. w.failed = FALSE
  <2>1. w.failed = (room < full)
    BY <1>14, Zenon
  <2>2. (room < full) = FALSE
    BY <1>10, <1>11
  <2>. QED BY <2>1, <2>2, Zenon
<1>16. PICK t : t = [buffer |-> Beyond(all, k), at |-> at + k]
  OBVIOUS
<1>17. w.sectors = t /\ t.at = at + k
  BY <1>14, <1>16, Zenon
<1>18. PICK u : u = w.slot
  OBVIOUS
<1>19. u = [i \in 1..SLOT_LEN |-> IF i \in (at + 1)..(at + k) THEN all[i - at] ELSE sl[i]]
  <2>1. DOMAIN sl = 1..SLOT_LEN
    BY <1>4 DEF Slot
  <2>2. u = [i \in DOMAIN sl |-> IF i \in (at + 1)..(at + k) THEN all[i - at] ELSE sl[i]]
    BY <1>14, <1>18, Zenon
  <2>. QED BY <2>1, <2>2
<1>20. Slot(u)
  BY <1>19 DEF Slot
<1>21. Beyond(all, k) = SubSeq(x, (at + k) + 1, e)
  <2>1. PICK j : j = e - at
    OBVIOUS
  <2>2. j \in Nat /\ k <= j /\ at + j = e
    BY <1>2, <1>4, <1>10, <2>1
  <2>3. SubSeq(SubSeq(x, at + 1, e), k + 1, j) = SubSeq(x, (at + k) + 1, at + j)
    BY <1>2, <1>4, <1>10, <2>2, Within
  <2>4. Beyond(all, k) = SubSeq(all, k + 1, j)
    BY <1>7, <2>1 DEF Beyond
  <2>. QED BY <1>6, <2>2, <2>3, <2>4
<1>22. ASSUME NEW i \in 1..(at + k) PROVE u[i] = x[i]
  <2>1. i \in 1..SLOT_LEN
    BY <1>0, <1>2, <1>4, <1>10
  <2>2. CASE i <= at
    <3>1. i \in 1..at /\ ~(i \in (at + 1)..(at + k))
      BY <1>4, <2>2
    <3>. QED BY <1>4, <1>19, <2>1, <3>1
  <2>3. CASE i > at
    <3>1. i \in (at + 1)..(at + k) /\ i - at \in 1..(e - at) /\ at + (i - at) = i
      BY <1>2, <1>4, <1>10, <2>3
    <3>. QED BY <1>7, <1>19, <2>1, <3>1
  <2>. QED BY <1>4, <2>2, <2>3
<1>23. Written(t, u, x, e)
  <2>1. at + k \in Nat /\ at + k <= e
    BY <1>2, <1>4, <1>10
  <2>2. t = [buffer |-> SubSeq(x, t.at + 1, e), at |-> t.at]
    BY <1>16, <1>17, <1>21, Zenon
  <2>. QED BY <1>17, <1>20, <1>22, <2>1, <2>2 DEF Written
<1>. QED BY <1>1, <1>12, <1>15, <1>17, <1>18, <1>23

\* The last sector, padded, completes the file in the slot, if flash takes it.
LEMMA RestOn ==
  ASSUME NEW S, NEW x \in Seq(S), Len(x) <= SLOT_LEN, NEW s, NEW sl, Written(s, sl, x, Len(x))
  PROVE  LET w == Rest([sectors |-> s, slot |-> sl, failed |-> FALSE])
         IN  Slot(w.slot) /\ (~w.failed => \A i \in 1..Len(x) : w.slot[i] = x[i])
<1>0. WRITE_LEN \in Nat \ {0} /\ SLOT_LEN \in Nat /\ SECTOR_LEN \in Nat \ {0} /\ Len(x) \in Nat
  BY UploadAssumption, LenProperties
<1>1. PICK e : e = Len(x)
  OBVIOUS
<1>2. PICK at, buffer : at = s.at /\ buffer = s.buffer
  OBVIOUS
<1>3. at \in Nat /\ at <= e /\ Slot(sl) /\ \A i \in 1..at : sl[i] = x[i]
  BY <1>1, <1>2 DEF Written
<1>4. buffer = SubSeq(x, at + 1, e)
  <2>1. PICK b : b = SubSeq(x, at + 1, e)
    OBVIOUS
  <2>2. s = [buffer |-> b, at |-> at]
    BY <1>1, <1>2, <2>1 DEF Written
  <2>3. s.buffer = b
    BY <2>2
  <2>. QED BY <1>2, <2>1, <2>3
<1>5. buffer \in Seq(S) /\ Len(buffer) = e - at /\ \A i \in 1..(e - at) : buffer[i] = x[at + i]
  BY <1>0, <1>1, <1>3, <1>4, Part
<1>6. PICK v : v = [sectors |-> s, slot |-> sl, failed |-> FALSE]
  OBVIOUS
<1>7. v.sectors = s /\ v.slot = sl /\ v.failed = FALSE
  BY <1>6
<1>8. PICK w : w = Rest(v)
  OBVIOUS
<1>9. CASE buffer = <<>>
  <2>1. w = v
    BY <1>2, <1>7, <1>8, <1>9, Zenon DEF Rest
  <2>2. at = e
    <3>1. Len(buffer) = 0
      BY <1>9
    <3>. QED BY <1>0, <1>1, <1>3, <1>5, <3>1
  <2>. QED BY <1>1, <1>3, <1>6, <1>7, <1>8, <2>1, <2>2
<1>10. CASE buffer # <<>>
  <2>1. PICK padding : padding = (WRITE_LEN - (Len(buffer) % WRITE_LEN)) % WRITE_LEN
    OBVIOUS
  <2>2. padding \in Nat
    <3>1. Len(buffer) \in Int
      BY <1>0, <1>1, <1>3, <1>5
    <3>2. Len(buffer) % WRITE_LEN \in Nat
      BY <1>0, <3>1, ModIs
    <3>3. WRITE_LEN - (Len(buffer) % WRITE_LEN) \in Int
      BY <1>0, <3>2
    <3>. QED BY <1>0, <2>1, <3>3, ModIs
  <2>3. PICK pad, bytes : pad = [i \in 1..padding |-> FF] /\ bytes = buffer \o pad
    OBVIOUS
  <2>4. PICK T : T = S \cup {FF}
    OBVIOUS
  <2>5. buffer \in Seq(T)
    BY <1>5, <2>4, SeqMonotonic
  <2>6. pad \in Seq(T)
    <3>1. pad \in [1..padding -> T]
      BY <2>3, <2>4
    <3>. QED BY <2>2, <3>1
  <2>7. Then(T, bytes, buffer, pad)
    BY <2>3, <2>5, <2>6, ThenIs
  <2>8. Len(pad) \in Nat
    BY <2>6, LenProperties
  <2>9. Len(bytes) \in Nat /\ Len(bytes) >= e - at /\ \A i \in 1..(e - at) : bytes[i] = x[at + i]
    <3>1. Len(bytes) = (e - at) + Len(pad)
      BY <1>5, <2>7 DEF Then
    <3>2. ASSUME NEW i \in 1..(e - at) PROVE bytes[i] = x[at + i]
      <4>1. i \in 1..(Len(buffer) + Len(pad)) /\ i <= Len(buffer)
        BY <1>0, <1>1, <1>3, <1>5, <2>8
      <4>2. bytes[i] = buffer[i]
        BY <2>7, <4>1 DEF Then
      <4>. QED BY <1>5, <4>2
    <3>. QED BY <1>0, <1>1, <1>3, <2>8, <3>1, <3>2
  <2>10. w = [sectors |-> [buffer |-> <<>>, at |-> at + SECTOR_LEN],
              slot |-> IF PastTheEnd(at) THEN sl ELSE WriteSector(sl, at, bytes),
              failed |-> PastTheEnd(at)]
    BY <1>2, <1>7, <1>8, <1>10, <2>1, <2>3, Zenon DEF Rest
  <2>11. CASE PastTheEnd(at)
    <3>1. w.slot = sl /\ w.failed
      BY <2>10, <2>11, Zenon
    <3>. QED BY <1>3, <1>6, <1>8, <3>1
  <2>12. CASE ~PastTheEnd(at)
    <3>1. PICK u : u = WriteSector(sl, at, bytes)
      OBVIOUS
    <3>2. w.slot = u
      BY <2>10, <2>12, <3>1, Zenon
    <3>3. u = [i \in 1..SLOT_LEN |-> IF i \in (at + 1)..(at + Len(bytes)) THEN bytes[i - at]
                                     ELSE IF i \in (at + 1)..(at + SECTOR_LEN) THEN FF ELSE sl[i]]
      <4>1. DOMAIN sl = 1..SLOT_LEN
        BY <1>3 DEF Slot
      <4>. QED BY <3>1, <4>1 DEF WriteSector
    <3>4. Slot(u)
      BY <3>3 DEF Slot
    <3>5. ASSUME NEW i \in 1..e PROVE u[i] = x[i]
      <4>1. i \in 1..SLOT_LEN
        BY <1>0, <1>1
      <4>2. CASE i <= at
        <5>1. i \in 1..at /\ ~(i \in (at + 1)..(at + Len(bytes))) /\ ~(i \in (at + 1)..(at + SECTOR_LEN))
          BY <1>3, <4>2
        <5>. QED BY <1>3, <3>3, <4>1, <5>1
      <4>3. CASE i > at
        <5>1. /\ i \in (at + 1)..(at + Len(bytes)) /\ i - at \in 1..(e - at) /\ at + (i - at) = i
          BY <1>0, <1>1, <1>3, <2>9, <4>3
        <5>. QED BY <2>9, <3>3, <4>1, <5>1
      <4>. QED BY <1>3, <4>2, <4>3
    <3>. QED BY <1>1, <1>6, <1>8, <3>2, <3>4, <3>5
  <2>. QED BY <2>11, <2>12
<1>. QED BY <1>9, <1>10
-----------------------------------------------------------------------------
(***************************************************************************)
(* The verdict.                                                            *)
(***************************************************************************)
\* Where the mark is, the stretch there is the mark.
LEMMA HeldIsCarried ==
  ASSUME NEW S, NEW file \in Seq(S)
  PROVE  Held(file, Len(file)) <=> Carries(file)
<1>1. PICK m, L : m = MarkLen /\ L = Len(file)
  OBVIOUS
<1>2. m \in Nat \ {0} /\ L \in Nat /\ m = Len(needle)
  BY <1>1, NeedleIs, LenProperties DEF MarkLen
<1>3. needle \in Seq(Numbers)
  <2>0. MARK \in Seq(0..255)
    BY UploadAssumption
  <2>1. DOMAIN MARK = 1..Len(MARK) /\ Len(MARK) \in Nat
    BY <2>0, LenProperties
  <2>2. PICK k : k = Len(MARK)
    OBVIOUS
  <2>3. \A i \in 1..k : Byte(MARK[i]) \in Numbers
    <3>1. TAKE i \in 1..k
    <3>2. MARK[i] \in 0..255
      BY <2>0, <2>2, ElementOfSeq
    <3>3. \A v \in 0..255 : v \in Nat
      OBVIOUS
    <3>. QED BY <3>2, <3>3, Zenon DEF Numbers
  <2>4. needle \in [1..k -> Numbers]
    BY <2>1, <2>2, <2>3 DEF needle, Bytes
  <2>. QED BY <2>1, <2>2, <2>4
<1>4. ASSUME NEW i \in 0..(L - m)
      PROVE  SubSeq(file, i + 1, i + m) = needle <=> \A t \in 1..m : file[i + t] = needle[t]
  <2>1. PICK e, c : e = i + m /\ c = SubSeq(file, i + 1, i + m)
    OBVIOUS
  <2>2. i \in Nat /\ e \in Nat /\ i <= e /\ e <= L /\ e - i = m
    BY <1>2, <2>1
  <2>3. c = SubSeq(file, i + 1, e)
    BY <2>1
  <2>4. c \in Seq(S) /\ Len(c) = m /\ \A t \in 1..m : c[t] = file[i + t]
    BY <1>1, <2>2, <2>3, Part
  <2>5. ASSUME \A t \in 1..m : file[i + t] = needle[t] PROVE c = needle
    <3>1. PICK T : T = S \cup Numbers
      OBVIOUS
    <3>2. c \in Seq(T) /\ needle \in Seq(T)
      BY <1>3, <2>4, <3>1, SeqMonotonic
    <3>3. Len(c) = Len(needle) /\ \A t \in 1..Len(c) : c[t] = needle[t]
      BY <1>2, <2>4, <2>5
    <3>. QED BY <3>2, <3>3, SeqEqual
  <2>. QED BY <2>1, <2>4, <2>5
<1>5. Held(file, L) <=> \E i \in 0..(L - m) : \A t \in 1..m : file[i + t] = needle[t]
  BY <1>1 DEF Held
<1>6. Carries(file) <=> \E i \in 0..(L - m) : SubSeq(file, i + 1, i + m) = needle
  BY <1>1, <1>2 DEF Carries
<1>. QED BY <1>1, <1>4, <1>5, <1>6

\* At the end of a file the check says what a reader of the whole would.
LEMMA FinishJudges ==
  ASSUME NEW body \in Bodies, NEW file \in Seq(Of(body)), DIGEST_LEN < Len(file),
         file[1] = IMAGE_MAGIC, NEW c, Checked(c, file, Len(file), Len(file))
  PROVE  finish(c) = Judged(file)
<1>0. DIGEST_LEN \in Nat \ {0} /\ Len(file) \in Nat
  BY UploadAssumption, LenProperties
<1>1. PICK L, n : L = Len(file) /\ n = L - DIGEST_LEN
  OBVIOUS
<1>2. n \in Nat /\ n <= L /\ L - n = DIGEST_LEN /\ Hashed(L, L) = n
  BY <1>0, <1>1 DEF Hashed, Least
<1>3. PICK head, tail : head = SubSeq(file, 1, n) /\ tail = SubSeq(file, n + 1, L)
  OBVIOUS
<1>4. /\ c = [expected |-> L, seen |-> L, hasher |-> Fed(head), digest |-> tail, mark |-> c.mark]
      /\ Tracks(c.mark, file, L)
  BY <1>1, <1>2, <1>3 DEF Checked
<1>5. c.expected = L /\ c.seen = L /\ c.hasher = Fed(head) /\ c.digest = tail
  <2>1. PICK h, m : h = Fed(head) /\ m = c.mark
    OBVIOUS
  <2>2. c = [expected |-> L, seen |-> L, hasher |-> h, digest |-> tail, mark |-> m]
    BY <1>4, <2>1
  <2>. QED BY <2>1, <2>2
<1>6. Then(Of(body), file, head, tail) /\ Len(tail) = DIGEST_LEN
  <2>1. Then(Of(body), file, head, tail)
    BY <1>1, <1>2, <1>3, CutFile
  <2>2. Len(tail) = L - n
    BY <1>1, <1>2, <1>3, <1>0, Part
  <2>. QED BY <1>2, <2>1, <2>2
<1>7. DigestOf(sha_finish(c.hasher)) = c.digest <=> Intact(file)
  BY <1>5, <1>6, DigestTells DEF Hash
<1>8. c.mark.found <=> Carries(file)
  <2>1. c.mark.found <=> Held(file, L)
    BY <1>4 DEF Tracks
  <2>. QED BY <1>1, <2>1, HeldIsCarried
<1>9. CASE ~Intact(file)
  BY <1>5, <1>7, <1>9, Zenon DEF finish, Judged
<1>10. CASE Intact(file) /\ ~Carries(file)
  BY <1>5, <1>7, <1>8, <1>10 DEF finish, Judged
<1>11. CASE Intact(file) /\ Carries(file)
  BY <1>5, <1>7, <1>8, <1>11 DEF finish, Judged
<1>. QED BY <1>9, <1>10, <1>11
-----------------------------------------------------------------------------
\* What holds of an upload that goes on: nothing of it was cut, and nothing written amiss.
Going ==
  /\ sent \in Files /\ content_length \in {Len(sent), Len(sent) + 1}
  /\ MIN_IMAGE_LEN <= content_length /\ content_length <= SLOT_LEN
  /\ got \in Nat /\ got <= content_length /\ got <= Len(sent)
  /\ got > 0 => sent[1] = IMAGE_MAGIC
  /\ Checked(check, sent, content_length, got)
  /\ Written(sectors, slot, sent, got)

\* The inductive invariant of the upload.
UploadInv ==
  /\ Slot(slot)
  /\ verdict = "Going" => Going
  /\ StreamedAsWhole

\* It holds before the first upload.
LEMMA UploadInits == UploadInit => UploadInv
<1>. SUFFICES ASSUME UploadInit PROVE UploadInv
  OBVIOUS
<1>1. Slot(slot)
  BY DEF UploadInit, Slot
<1>2. verdict = "None"
  BY DEF UploadInit
<1>. QED BY <1>1, <1>2 DEF UploadInv, StreamedAsWhole

\* A file is a sequence, and its length a number.
LEMMA SentIs ==
  ASSUME NEW file \in Files
  PROVE  \E body \in Bodies : file \in Seq(Of(body)) /\ Len(file) \in Nat
BY FilesAre, LenProperties

\* A new upload starts from nothing, whatever the last one left.
LEMMA KeepsBegins == ASSUME UploadInv, Begins PROVE UploadInv'
<1>1. Slot(slot') /\ slot' = slot
  BY DEF UploadInv, Begins
<1>2. verdict' \in {"TooSmall", "TooLarge", "Going"}
  BY DEF Begins, Sizes
<1>3. ASSUME verdict' = "Going" PROVE Going'
  <2>1. sent' \in Files /\ content_length' \in {Len(sent'), Len(sent') + 1} /\ got' = 0
    BY DEF Begins
  <2>2. PICK body \in Bodies : sent' \in Seq(Of(body)) /\ Len(sent') \in Nat
    BY <2>1, SentIs
  <2>3. content_length' \in Nat
    BY <2>1, <2>2
  <2>4. MIN_IMAGE_LEN <= content_length' /\ content_length' <= SLOT_LEN
    <3>1. Sizes(content_length') = "Going"
      BY <1>3 DEF Begins
    <3>2. ~(content_length' < MIN_IMAGE_LEN) /\ ~(content_length' > SLOT_LEN)
      BY <3>1 DEF Sizes
    <3>. QED BY <2>3, <3>2, UploadAssumption
  <2>5. Checked(check', sent', content_length', 0)
    <3>1. DIGEST_LEN < content_length'
      BY <2>3, <2>4, UploadAssumption
    <3>2. Checked(ImageCheck(content_length'), sent', content_length', 0)
      BY <2>2, <2>3, <3>1, CheckedNothing
    <3>3. check' = ImageCheck(content_length')
      BY DEF Begins
    <3>. QED BY <3>2, <3>3
  <2>6. Written(sectors', slot', sent', 0)
    <3>1. sectors' = [buffer |-> <<>>, at |-> 0]
      BY DEF Begins
    <3>. QED BY <1>1, <3>1, WrittenNothing
  <2>. QED BY <2>1, <2>2, <2>3, <2>4, <2>5, <2>6 DEF Going
<1>4. StreamedAsWhole'
  BY <1>2 DEF StreamedAsWhole
<1>. QED BY <1>1, <1>3, <1>4 DEF UploadInv

\* A piece, of whatever size, goes on with the check and with the sectors.
LEMMA KeepsArrives == ASSUME UploadInv, Arrives PROVE UploadInv'
<1>1. Going /\ Slot(slot) /\ sent' = sent /\ content_length' = content_length
  BY DEF UploadInv, Arrives
<1>2. PICK n \in 1..Least(REQUEST_LEN, Least(content_length, Len(sent)) - got) :
        LET bytes == SubSeq(sent, got + 1, got + n)
            w == Pushed([sectors |-> sectors, slot |-> slot, failed |-> FALSE], bytes)
            refusal == Refuses(check, bytes)
        IN  /\ got' = got + n
            /\ check' = IF refusal = "None" THEN check_feed(check, bytes) ELSE check
            /\ sectors' = IF refusal = "None" THEN w.sectors ELSE sectors
            /\ slot' = IF refusal = "None" THEN w.slot ELSE slot
            /\ verdict' = IF refusal # "None" THEN refusal ELSE IF w.failed THEN "Flash" ELSE "Going"
  BY DEF Arrives
<1>3. PICK body \in Bodies : sent \in Seq(Of(body)) /\ Len(sent) \in Nat
  BY <1>1, SentIs DEF Going
<1>4. /\ content_length \in Nat /\ got \in Nat /\ n \in Nat /\ n > 0
      /\ got + n <= content_length /\ got + n <= Len(sent) /\ got + n <= SLOT_LEN
      /\ DIGEST_LEN < content_length
  <2>1. content_length \in Nat /\ got \in Nat /\ MIN_IMAGE_LEN <= content_length /\ content_length <= SLOT_LEN
    BY <1>1, <1>3 DEF Going
  <2>2. got <= content_length /\ got <= Len(sent)
    BY <1>1 DEF Going
  <2>3. Least(REQUEST_LEN, Least(content_length, Len(sent)) - got) \in Int
    BY <1>3, <2>1, UploadAssumption DEF Least
  <2>4. n \in Nat /\ n > 0 /\ n <= Least(REQUEST_LEN, Least(content_length, Len(sent)) - got)
    BY <2>3
  <2>5. n <= Least(content_length, Len(sent)) - got
    BY <1>3, <2>1, <2>4, UploadAssumption DEF Least
  <2>6. got + n <= content_length /\ got + n <= Len(sent)
    BY <1>3, <2>1, <2>4, <2>5 DEF Least
  <2>. QED BY <2>1, <2>4, <2>6, UploadAssumption
<1>5. PICK bytes : bytes = SubSeq(sent, got + 1, got + n)
  OBVIOUS
<1>6. PICK w : w = Pushed([sectors |-> sectors, slot |-> slot, failed |-> FALSE], bytes)
  OBVIOUS
<1>7. PICK refusal : refusal = Refuses(check, bytes)
  OBVIOUS
<1>8. /\ got' = got + n
      /\ check' = IF refusal = "None" THEN check_feed(check, bytes) ELSE check
      /\ sectors' = IF refusal = "None" THEN w.sectors ELSE sectors
      /\ slot' = IF refusal = "None" THEN w.slot ELSE slot
      /\ verdict' = IF refusal # "None" THEN refusal ELSE IF w.failed THEN "Flash" ELSE "Going"
  BY <1>2, <1>5, <1>6, <1>7, Zenon
<1>9. bytes[1] = sent[got + 1] /\ Len(bytes) = n
  <2>1. PICK e : e = got + n
    OBVIOUS
  <2>2. /\ SubSeq(sent, got + 1, e) \in Seq(Of(body)) /\ Len(SubSeq(sent, got + 1, e)) = e - got
        /\ \A i \in 1..(e - got) : SubSeq(sent, got + 1, e)[i] = sent[got + i]
    BY <1>3, <1>4, <2>1, Part
  <2>3. 1 \in 1..(e - got) /\ e - got = n
    BY <1>4, <2>1
  <2>. QED BY <1>5, <2>1, <2>2, <2>3
<1>10. check.seen = got /\ check.expected = content_length
  <2>1. Checked(check, sent, content_length, got)
    BY <1>1 DEF Going
  <2>. QED BY <2>1 DEF Checked
<1>11. refusal = "None" \/ (refusal = "NotAnImage" /\ got = 0 /\ sent[1] # IMAGE_MAGIC)
  <2>1. ~(check.seen + Len(bytes) > check.expected)
    BY <1>4, <1>9, <1>10
  <2>2. CASE check.seen = 0 /\ bytes[1] # IMAGE_MAGIC
    <3>1. refusal = "NotAnImage"
      BY <1>7, <2>1, <2>2 DEF Refuses
    <3>2. got = 0 /\ got + 1 = 1
      BY <1>10, <2>2
    <3>. QED BY <1>9, <2>2, <3>1, <3>2
  <2>3. CASE ~(check.seen = 0 /\ bytes[1] # IMAGE_MAGIC)
    BY <1>7, <2>1, <2>3 DEF Refuses
  <2>. QED BY <2>2, <2>3
<1>12. CASE refusal = "None"
  <2>1. w.failed = FALSE /\ Written(w.sectors, w.slot, sent, got + n)
    <3>1. Written(sectors, slot, sent, got)
      BY <1>1 DEF Going
    <3>. QED BY <1>3, <1>4, <1>5, <1>6, <3>1, PushOn
  <2>2. got' = got + n /\ check' = check_feed(check, bytes) /\ sectors' = w.sectors /\ slot' = w.slot /\ verdict' = "Going"
    BY <1>8, <1>12, <2>1, Zenon
  <2>3. Checked(check', sent, content_length, got + n)
    <3>1. Checked(check, sent, content_length, got)
      BY <1>1 DEF Going
    <3>2. Checked(check_feed(check, SubSeq(sent, got + 1, got + n)), sent, content_length, got + n)
      BY <1>3, <1>4, <3>1, FeedOn
    <3>. QED BY <1>5, <2>2, <3>2
  <2>4. sent[1] = IMAGE_MAGIC
    <3>1. CASE got = 0
      <4>1. ~(check.seen = 0 /\ bytes[1] # IMAGE_MAGIC)
        BY <1>7, <1>12 DEF Refuses
      <4>2. got + 1 = 1
        BY <3>1
      <4>. QED BY <1>9, <1>10, <3>1, <4>1, <4>2
    <3>2. CASE got # 0
      BY <1>1, <1>4, <3>2 DEF Going
    <3>. QED BY <3>1, <3>2
  <2>5. Going'
    <3>1. got' \in Nat /\ got' <= content_length' /\ got' <= Len(sent')
      BY <1>1, <1>4, <2>2
    <3>2. Checked(check', sent', content_length', got') /\ Written(sectors', slot', sent', got')
      BY <1>1, <2>1, <2>2, <2>3
    <3>3. /\ sent' \in Files /\ content_length' \in {Len(sent'), Len(sent') + 1}
          /\ MIN_IMAGE_LEN <= content_length' /\ content_length' <= SLOT_LEN
      BY <1>1 DEF Going
    <3>. QED BY <1>1, <2>4, <3>1, <3>2, <3>3 DEF Going
  <2>6. Slot(slot')
    BY <2>1, <2>2 DEF Written
  <2>7. StreamedAsWhole'
    BY <2>2 DEF StreamedAsWhole
  <2>. QED BY <2>5, <2>6, <2>7 DEF UploadInv
<1>13. CASE refusal = "NotAnImage" /\ got = 0 /\ sent[1] # IMAGE_MAGIC
  <2>1. slot' = slot /\ verdict' = "NotAnImage"
    BY <1>8, <1>13
  <2>2. Judged(sent') = "NotAnImage"
    BY <1>1, <1>13 DEF Judged
  <2>3. StreamedAsWhole'
    BY <2>1, <2>2 DEF StreamedAsWhole
  <2>. QED BY <1>1, <2>1, <2>3 DEF UploadInv
<1>. QED BY <1>11, <1>12, <1>13

\* An upload that is cut off has no verdict that has to be right.
LEMMA KeepsEnds == ASSUME UploadInv, ConnectionEnds \/ FlashRefuses PROVE UploadInv'
<1>1. slot' = slot /\ verdict' \in {"Truncated", "Flash"}
  BY DEF ConnectionEnds, FlashRefuses
<1>2. StreamedAsWhole'
  BY <1>1 DEF StreamedAsWhole
<1>. QED BY <1>1, <1>2 DEF UploadInv

\* The verdict at the end is the whole file's, and an image that is ok is in the slot.
LEMMA KeepsFinishes == ASSUME UploadInv, Finishes PROVE UploadInv'
<1>1. Going /\ got = content_length /\ UNCHANGED <<sent, content_length, got, check>>
  BY DEF UploadInv, Finishes
<1>2. PICK w : w = Rest([sectors |-> sectors, slot |-> slot, failed |-> FALSE])
  OBVIOUS
<1>3. slot' = w.slot /\ verdict' = IF w.failed THEN "Flash" ELSE finish(check)
  BY <1>2 DEF Finishes
<1>4. PICK body \in Bodies : sent \in Seq(Of(body)) /\ Len(sent) \in Nat
  BY <1>1, SentIs DEF Going
<1>5. got = Len(sent) /\ content_length = Len(sent) /\ Len(sent) <= SLOT_LEN /\ DIGEST_LEN < Len(sent)
  <2>1. /\ content_length \in {Len(sent), Len(sent) + 1} /\ got <= Len(sent)
        /\ MIN_IMAGE_LEN <= content_length /\ content_length <= SLOT_LEN
    BY <1>1 DEF Going
  <2>. QED BY <1>1, <1>4, <2>1, UploadAssumption
<1>6. Checked(check, sent, Len(sent), Len(sent)) /\ Written(sectors, slot, sent, Len(sent))
  BY <1>1, <1>5 DEF Going
<1>7. sent[1] = IMAGE_MAGIC
  <2>1. got > 0
    BY <1>4, <1>5, UploadAssumption
  <2>. QED BY <1>1, <2>1 DEF Going
<1>8. Slot(w.slot) /\ (~w.failed => \A i \in 1..Len(sent) : w.slot[i] = sent[i])
  BY <1>2, <1>4, <1>5, <1>6, RestOn
<1>9. finish(check) = Judged(sent)
  BY <1>4, <1>5, <1>6, <1>7, FinishJudges
<1>10. CASE w.failed
  <2>1. verdict' = "Flash"
    BY <1>3, <1>10, Zenon
  <2>. QED BY <1>3, <1>8, <2>1 DEF UploadInv, StreamedAsWhole
<1>11. CASE ~w.failed
  <2>1. verdict' = Judged(sent)
    BY <1>3, <1>9, <1>11, Zenon
  <2>2. verdict' # "Going"
    BY <2>1 DEF Judged
  <2>3. SubSeq(slot', 1, content_length') = sent'
    <3>1. PICK u, L, x : u = w.slot /\ L = Len(sent) /\ x = sent
      OBVIOUS
    <3>2. PICK T : T = Of(body) \cup {u[i] : i \in 1..SLOT_LEN}
      OBVIOUS
    <3>3. u \in Seq(T) /\ Len(u) = SLOT_LEN
      <4>1. u = [i \in 1..SLOT_LEN |-> u[i]]
        BY <1>8, <3>1 DEF Slot
      <4>2. u \in [1..SLOT_LEN -> T]
        BY <3>2, <4>1
      <4>3. SLOT_LEN \in Nat
        BY UploadAssumption
      <4>. QED BY <4>2, <4>3
    <3>4. x \in Seq(T) /\ L \in Nat /\ L <= Len(u) /\ L = Len(x)
      BY <1>4, <1>5, <3>1, <3>2, <3>3, SeqMonotonic
    <3>5. PICK c : c = SubSeq(u, 1, L)
      OBVIOUS
    <3>6. c \in Seq(T) /\ Len(c) = L /\ \A i \in 1..L : c[i] = u[i]
      BY <3>3, <3>4, <3>5, FirstPart
    <3>7. \A i \in 1..Len(c) : c[i] = x[i]
      BY <1>8, <1>11, <3>1, <3>6
    <3>8. c = x
      BY <3>4, <3>6, <3>7, SeqEqual
    <3>. QED BY <1>1, <1>3, <1>5, <3>1, <3>5, <3>8
  <2>4. StreamedAsWhole'
    BY <1>1, <2>1, <2>3 DEF StreamedAsWhole
  <2>. QED BY <1>3, <1>8, <2>2, <2>4 DEF UploadInv
<1>. QED BY <1>10, <1>11

\* However a file is cut into pieces, and whatever an upload before it left behind, the
\* verdict on it is the one the whole file deserves, and the slot of an image that may be
\* selected holds the file.
THEOREM UploadedAsWhole == UploadSpec => []StreamedAsWhole
<1>1. UploadInit => UploadInv
  BY UploadInits
<1>2. UploadInv /\ [UploadNext]_upload_vars => UploadInv'
  <2>. SUFFICES ASSUME UploadInv, [UploadNext]_upload_vars PROVE UploadInv'
    OBVIOUS
  <2>1. CASE Begins
    BY <2>1, KeepsBegins
  <2>2. CASE Arrives
    BY <2>2, KeepsArrives
  <2>3. CASE ConnectionEnds \/ FlashRefuses
    BY <2>3, KeepsEnds
  <2>4. CASE Finishes
    BY <2>4, KeepsFinishes
  <2>5. CASE UNCHANGED upload_vars
    BY <2>5 DEF upload_vars, UploadInv, Going, Checked, Written, StreamedAsWhole
  <2>. QED BY <2>1, <2>2, <2>3, <2>4, <2>5 DEF UploadNext
<1>3. UploadInv => StreamedAsWhole
  BY DEF UploadInv
<1>. QED BY <1>1, <1>2, <1>3, PTL DEF UploadSpec
===============================================================================

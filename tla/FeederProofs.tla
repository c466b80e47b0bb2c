----------------------------- MODULE FeederProofs -----------------------------
(***************************************************************************)
(* Feeder, for every mechanism that keeps MechanismAssumption, every       *)
(* calibration, request and bound: the bowl gets what was asked for, a jam *)
(* is bounded, and nothing turns while the flash is written.               *)
(***************************************************************************)
EXTENDS Feeder, TLAPS

\* clicks_for never rounds a meal away and never leaves a byte (ADR-0007).
THEOREM MealNeverVanishes ==
  ASSUME NEW portions \in U8, NEW scale \in Nat
  PROVE  /\ clicks_for(portions, scale) \in U8
         /\ clicks_for(portions, scale) = 0 <=> portions = 0
<1>. DEFINE scaled_up == (portions * scale + 50) \div 100
<1>1. portions * scale \in Int
  BY DEF U8
<1>2. scaled_up \in Int
  BY <1>1
<1>. HIDE DEF scaled_up
<1>3. Least(Greatest(scaled_up, 1), 255) \in 1 .. 255
  BY <1>2 DEF Least, Greatest
<1>4. clicks_for(portions, scale)
        = IF portions = 0 THEN 0 ELSE Least(Greatest(scaled_up, 1), 255)
  BY DEF clicks_for, scaled_up
<1>. QED BY <1>3, <1>4 DEF U8

\* Pending::add keeps what was owed and never passes the cap, whatever is asked.
THEOREM PendingCapped ==
  ASSUME NEW cap \in U8, NEW count \in 0 .. cap, NEW more \in U8
  PROVE  /\ PendingAdd(count, more, cap) \in count .. cap
         /\ PendingAdd(count, more, cap) <= count + more
BY DEF PendingAdd, Least, U8

LEMMA TimingsType ==
  ASSUME NEW c \in Calibrations
  PROVE  /\ min_click_spacing(c.detent, MIN_SPACING) \in Nat \ {0}
         /\ jam_timeout(c.detent, MIN_JAM) \in Nat \ {0}
         /\ c.scale \in Nat
<1>1. c.detent \in Nat /\ c.scale \in Nat
  BY FeederAssumption DEF Calibration
<1>2. (c.detent * 2) \div 5 \in Int /\ (c.detent * 5) \div 2 \in Int
  BY <1>1
<1>. QED
  BY <1>1, <1>2, FeederAssumption DEF min_click_spacing, jam_timeout, Greatest
-----------------------------------------------------------------------------
(***************************************************************************)
(* The inductive invariant, in parts.                                      *)
(***************************************************************************)

\* An edge the motor made that on_click has yet to count.
Uncounted == phase = "Counting" /\ clicks > 0 /\ elapsed >= Spacing

\* The motor, the status and the phase agree, and a write finds them at rest.
AtRest ==
  /\ motor = (phase # "Idle") /\ feeding = (phase # "Idle")
  /\ flash_busy => phase = "Idle"
  /\ phase = "Idle" => elapsed = 0
  /\ phase = "Calibrating" => run < DETENTS

\* Portions are owed while turning, or held over, and never otherwise.
Owing ==
  /\ Turning => pending > 0
  /\ phase = "Calibrating" => pending = 0
  /\ feed_held <=> (phase = "Idle" /\ pending > 0)

\* Where the rotor is, as far as the edges tell.
Rotor ==
  /\ clicks > 0 => angle = 0
  /\ phase = "Aligning" => (whole <=> clicks > 0) /\ (angle = 0 <=> clicks > 0)
  /\ phase = "Counting" => whole /\ (clicks = 0 => angle <= elapsed)
  /\ phase = "Counting" /\ shaking > 0 /\ ~Uncounted => elapsed + shaking <= Chatter

\* The clicks owed are the clicks pending, but for an edge not yet counted.
Ledger == owed = IF Uncounted THEN pending - 1 ELSE pending

\* The budget covers the time since the last detent.
Budget ==
  /\ Turning => stall <= elapsed /\ elapsed <= Jam
  /\ Uncounted \/ (phase = "Aligning" /\ clicks > 0) => stall = 0

FeederInv == AtRest /\ Owing /\ Rotor /\ Ledger /\ Budget
-----------------------------------------------------------------------------
\* What a request leaves pending.
LEMMA RequestLeaves ==
  ASSUME TypeOK, applied' \in Calibrations, NEW portions \in U8,
         RequestClicks(portions)
  PROVE  /\ pending' \in pending .. MAX_CLICKS
         /\ portions = 0 => pending' = pending
         /\ \E more \in Nat : pending' = pending + more /\ owed' = owed + more
<1>. DEFINE more == clicks_for(portions, applied'.scale)
<1>1. more \in U8 /\ (more = 0 <=> portions = 0)
  BY TimingsType, MealNeverVanishes
<1>. HIDE DEF more
<1>2. MAX_CLICKS \in U8 /\ pending \in 0 .. MAX_CLICKS
  BY FeederAssumption DEF TypeOK
<1>3. /\ PendingAdd(pending, more, MAX_CLICKS) \in pending .. MAX_CLICKS
      /\ PendingAdd(pending, more, MAX_CLICKS) <= pending + more
  BY <1>1, <1>2, PendingCapped
<1>4. pending' = PendingAdd(pending, more, MAX_CLICKS)
      /\ owed' = owed + (PendingAdd(pending, more, MAX_CLICKS) - pending)
  BY DEF RequestClicks, more
<1>6. ASSUME NEW total \in pending .. MAX_CLICKS
      PROVE  total - pending \in Nat /\ total = pending + (total - pending)
  BY <1>2 DEF U8
<1>7. \E k \in Nat : pending' = pending + k /\ owed' = owed + k
  BY <1>3, <1>4, <1>6
<1>. QED BY <1>1, <1>2, <1>3, <1>4, <1>7

LEMMA QueueType ==
  ASSUME TypeOK, feed # <<>>
  PROVE  Head(feed) \in U8 /\ Tail(feed) \in Seq(Requests)
BY FeederAssumption DEF TypeOK

\* What TakeFeed does, with the request it takes named.
LEMMA TakeFeedLeaves ==
  ASSUME TypeOK, TakeFeed
  PROVE  /\ feed' \in Seq(Requests) /\ applied' \in Calibrations
         /\ pending' \in pending .. MAX_CLICKS
         /\ \E more \in Nat : pending' = pending + more /\ owed' = owed + more
<1>1. feed' \in Seq(Requests) /\ applied' \in Calibrations
  BY QueueType DEF TakeFeed, FeedReady, TypeOK
<1>2. CASE pending > 0
  BY <1>1, <1>2, RequestLeaves DEF TakeFeed, U8
<1>3. CASE ~(pending > 0)
  <2>1. feed # <<>>
    BY <1>3 DEF TakeFeed, FeedReady
  <2>. QED BY <1>1, <1>3, <2>1, QueueType, RequestLeaves DEF TakeFeed
<1>. QED BY <1>1, <1>2, <1>3

LEMMA TypeInit == Init => TypeOK
<1>. SUFFICES ASSUME Init PROVE TypeOK
  OBVIOUS
<1>1. angle \in 0 .. DetentSteps - 1 /\ shaking \in 0 .. Chatter
  BY FeederAssumption DEF Init
<1>2. feed \in Seq(Requests) /\ spent \in [Bounded -> Nat]
  BY DEF Init
<1>3. pending \in 0 .. MAX_CLICKS /\ run \in 0 .. DETENTS
  BY FeederAssumption DEF Init, U8
<1>3a. clicks \in Nat /\ elapsed \in Nat /\ stall \in Nat /\ owed \in Int
  BY DEF Init
<1>4. /\ calibrate \in BOOLEAN /\ jammed \in BOOLEAN /\ holding \in BOOLEAN
      /\ motor \in BOOLEAN /\ feeding \in BOOLEAN /\ flash_busy \in BOOLEAN
      /\ feed_held \in BOOLEAN /\ whole \in BOOLEAN /\ restarting \in BOOLEAN
  BY DEF Init
<1>5. /\ calibration \in Calibrations /\ applied \in Calibrations
      /\ phase = "Idle" /\ upload = "None"
  BY DEF Init
<1>. QED BY <1>1, <1>2, <1>3, <1>3a, <1>4, <1>5 DEF TypeOK

LEMMA SpendType ==
  ASSUME TypeOK, NEW what \in Bounded, NEW most, Spend(what, most)
  PROVE  spent' \in [Bounded -> Nat]
BY DEF Spend, TypeOK

\* The loop top leaves flags.
LEMMA LoopTopType ==
  ASSUME TypeOK, LoopTop
  PROVE  feeding' \in BOOLEAN /\ motor' \in BOOLEAN /\ holding' \in BOOLEAN
<1>. DEFINE on == phase' # "Idle"
            waits == phase' = "Idle" /\ flash_busy
<1>1. on \in BOOLEAN /\ waits \in BOOLEAN
  BY DEF TypeOK
<1>2. feeding' = on /\ motor' = on /\ holding' = waits
  BY DEF LoopTop
<1>. HIDE DEF on, waits
<1>. QED BY <1>1, <1>2

\* A turning of the rotor by one tick keeps it in range.
LEMMA RotorTurns ==
  ASSUME NEW a \in 0 .. DetentSteps - 1
  PROVE  /\ (a + 1) % DetentSteps \in 0 .. DetentSteps - 1
         /\ (a + 1) % DetentSteps = 0 => a = DetentSteps - 1
         /\ (a + 1) % DetentSteps # 0 => (a + 1) % DetentSteps = a + 1
<1>1. CASE a = DetentSteps - 1
  BY <1>1, FeederAssumption
<1>2. CASE a # DetentSteps - 1
  BY <1>2, FeederAssumption
<1>. QED BY <1>1, <1>2

LEMMA TypeNext ==
  ASSUME TypeOK, FeederInv, [Next]_vars
  PROVE  TypeOK'
<1>. USE FeederAssumption
<1>1. CASE TakeFeed
  <2>1. pending' \in 0 .. MAX_CLICKS /\ owed' \in Int
    BY <1>1, TakeFeedLeaves DEF TypeOK, U8
  <2>2. /\ phase' \in {"Idle", "Aligning", "Counting"}
        /\ shaking' \in 0 .. Chatter /\ stall' \in Nat
    BY <1>1 DEF TakeFeed, TypeOK, FeedReady
  <2>3. whole' \in BOOLEAN /\ feed_held' \in BOOLEAN
    <3>. DEFINE held == feed_held \/ pending' > 0
    <3>1. held \in BOOLEAN /\ OnDetent \in BOOLEAN
      BY DEF TypeOK, OnDetent
    <3>2. whole' \in {OnDetent, whole} /\ feed_held' \in {held, FALSE}
      BY <1>1 DEF TakeFeed
    <3>. HIDE DEF held
    <3>. QED BY <3>1, <3>2 DEF TypeOK
  <2>. QED
    BY <1>1, <2>1, <2>2, <2>3, TakeFeedLeaves, LoopTopType DEF TakeFeed, TypeOK, uploads
<1>2. CASE IdleClick
  BY <1>2, LoopTopType DEF IdleClick, TypeOK, mechanism, bus, machine, ghosts, uploads
<1>3. CASE TakeCalibrate
  <2>1. OnDetent \in BOOLEAN
    BY DEF OnDetent
  <2>2. whole' \in {OnDetent, whole} /\ calibrate' \in {calibrate, FALSE}
        /\ shaking' \in {Chatter, shaking} /\ stall' \in {0, stall}
        /\ phase' \in {"Idle", "Calibrating"}
    BY <1>3 DEF TakeCalibrate
  <2>3. whole' \in BOOLEAN /\ calibrate' \in BOOLEAN
    BY <2>1, <2>2, Zenon DEF TypeOK
  <2>5. stall' \in Nat /\ shaking' \in 0 .. Chatter
    BY <2>2 DEF TypeOK
  <2>4. run' \in 0 .. DETENTS
    BY <1>3 DEF TakeCalibrate
  <2>. QED
    BY <1>3, <2>2, <2>3, <2>4, <2>5, LoopTopType DEF TakeCalibrate, TypeOK, uploads
<1>4. CASE HoldEnds
  BY <1>4 DEF HoldEnds, TypeOK, mechanism, bus, machine, ghosts, uploads
<1>5. CASE OnClick
  <2>1. pending > 0
    BY <1>5 DEF OnClick, FeederInv, Owing
  <2>2. pending' \in {pending, pending - 1} /\ elapsed' \in {elapsed, 0}
        /\ jammed' \in {jammed, FALSE} /\ phase' \in {phase, "Idle", "Counting"}
    BY <1>5 DEF OnClick, Reject
  <2>3. jammed' \in BOOLEAN
    BY <2>2, Zenon DEF TypeOK
  <2>4. clicks' \in Nat
    BY <1>5 DEF OnClick, TypeOK
  <2>5. pending' \in 0 .. MAX_CLICKS /\ elapsed' \in Nat
    BY <2>1, <2>2 DEF TypeOK, U8
  <2>6. phase' \in {"Idle", "Aligning", "Counting"}
    BY <1>5, <2>2 DEF OnClick, Turning
  <2>. QED
    BY <1>5, <2>3, <2>4, <2>5, <2>6, LoopTopType
        DEF OnClick, TypeOK, mechanism, bus, ghosts, uploads
<1>6. CASE MoreFeed
  <2>1. /\ feed' \in Seq(Requests) /\ pending' \in 0 .. MAX_CLICKS /\ owed' \in Int
    <3>1. /\ applied' = applied /\ applied \in Calibrations /\ feed # <<>>
          /\ feed' = Tail(feed) /\ RequestClicks(Head(feed))
      BY <1>6 DEF MoreFeed, FeedLeft, TypeOK
    <3>2. /\ pending' \in pending .. MAX_CLICKS
          /\ \E more \in Nat : owed' = owed + more
      BY <3>1, QueueType, RequestLeaves
    <3>. QED BY <3>1, <3>2, QueueType DEF TypeOK, U8
  <2>. QED
    BY <1>6, <2>1 DEF MoreFeed, FeedLeft, TypeOK, mechanism, uploads
<1>7. CASE Timeout
  BY <1>7, LoopTopType DEF Timeout, TypeOK, mechanism, bus, U8, uploads
<1>8. CASE CalibrationClick
  <2>1. run' \in 0 .. DETENTS
    BY <1>8 DEF CalibrationClick, TypeOK, FeederInv, AtRest
  <2>. QED
    BY <1>8, <2>1, LoopTopType
        DEF CalibrationClick, TypeOK, mechanism, bus, machine, ghosts, uploads
<1>9. CASE CalibrationJam
  BY <1>9, LoopTopType
      DEF CalibrationJam, TypeOK, mechanism, bus, machine, ghosts, uploads
<1>10. CASE Stay
  BY <1>10 DEF Stay, Passes, TypeOK, bus, machine, uploads
<1>11. CASE Move
  <2>1. angle' \in 0 .. DetentSteps - 1
    BY <1>11, RotorTurns DEF Move, TypeOK
  <2>. QED
    BY <1>11, <2>1 DEF Move, Passes, TypeOK, bus, machine, uploads
<1>12. CASE Bounce
  BY <1>12 DEF Bounce, TypeOK, bus, machine, ghosts, uploads
<1>13. ASSUME NEW p \in Requests, Request(p) PROVE TypeOK'
  <2>1. feed' \in Seq(Requests)
    BY <1>13 DEF Request, TypeOK
  <2>2. spent' \in [Bounded -> Nat]
    BY <1>13, SpendType DEF Request, Bounded
  <2>. QED
    BY <1>13, <2>1, <2>2 DEF Request, TypeOK, mechanism, machine, ghosts, uploads
<1>14. CASE AskCalibrate
  <2>1. spent' \in [Bounded -> Nat]
    BY <1>14, SpendType DEF AskCalibrate, Bounded
  <2>. QED BY <1>14, <2>1 DEF AskCalibrate, TypeOK, mechanism, machine, ghosts, uploads
<1>15. ASSUME NEW c \in Calibrations, SaveCalibration(c) PROVE TypeOK'
  BY <1>15 DEF SaveCalibration, TypeOK, mechanism, machine, ghosts, uploads
<1>16. CASE Claim
  <2>1. spent' \in [Bounded -> Nat]
    BY <1>16, SpendType DEF Claim, Bounded
  <2>. QED BY <1>16, <2>1 DEF Claim, TypeOK, mechanism, bus, machine, ghosts
<1>17. CASE EndWrite
  <2>1. upload' \in {"None", "Writing", "Draining"} /\ flash_busy' \in BOOLEAN
    BY <1>17 DEF EndWrite
  <2>. QED BY <1>17, <2>1, Zenon DEF EndWrite, TypeOK, mechanism, bus, machine, ghosts
<1>18. CASE Drained
  BY <1>18 DEF Drained, TypeOK, mechanism, bus, machine, ghosts
<1>19. ASSUME Reset, spent' \in [Bounded -> Nat]
       PROVE  TypeOK'
  <2>1. pending' \in 0 .. MAX_CLICKS /\ run' \in 0 .. DETENTS
    BY <1>19 DEF Reset, U8
  <2>2. feed' \in Seq(Requests) /\ clicks' \in Nat /\ elapsed' \in Nat
        /\ stall' \in Nat /\ owed' \in Int
    BY <1>19 DEF Reset
  <2>. QED BY <1>19, <2>1, <2>2 DEF Reset, TypeOK, mechanism
<1>20. CASE Restart
  BY <1>19, <1>20 DEF Restart, TypeOK
<1>21. CASE PowerCut
  BY <1>19, <1>21, SpendType DEF PowerCut, Bounded
<1>22. CASE UNCHANGED vars
  BY <1>22 DEF vars, TypeOK, mechanism, bus, machine, ghosts, uploads
<1>. QED
  BY <1>1, <1>2, <1>3, <1>4, <1>5, <1>6, <1>7, <1>8, <1>9, <1>10, <1>11, <1>12,
     <1>13, <1>14, <1>15, <1>16, <1>17, <1>18, <1>20, <1>21, <1>22
     DEF Next, FeederTask
-----------------------------------------------------------------------------
(***************************************************************************)
(* Every step keeps FeederInv.                                             *)
(***************************************************************************)
LEMMA InvInit == Init => FeederInv
<1>. SUFFICES ASSUME Init PROVE FeederInv
  OBVIOUS
<1>1. AtRest
  <2>1. motor = FALSE /\ feeding = FALSE /\ phase = "Idle" /\ elapsed = 0
        /\ flash_busy = FALSE
    BY DEF Init
  <2>. QED BY <2>1 DEF AtRest
<1>2. Owing
  BY DEF Init, Owing, Turning
<1>3. Rotor
  BY DEF Init, Rotor
<1>4. Ledger /\ Budget
  BY DEF Init, Ledger, Budget, Uncounted, Turning
<1>. QED BY <1>1, <1>2, <1>3, <1>4 DEF FeederInv

\* The figures in force keep the mechanism's promises.
LEMMA Figures ==
  ASSUME TypeOK
  PROVE  /\ Spacing \in Nat \ {0} /\ Jam \in Nat \ {0}
         /\ Chatter <= Spacing /\ Spacing <= DetentSteps
BY TimingsType, MechanismAssumption DEF Spacing, Jam, TypeOK

LEMMA FiguresKept ==
  ASSUME applied' = applied
  PROVE  Spacing' = Spacing /\ Jam' = Jam
BY DEF Spacing, Jam

\* A step that touches nothing FeederInv speaks of.
LEMMA InvQuiet ==
  ASSUME TypeOK, FeederInv,
         UNCHANGED <<motor, phase, feeding, flash_busy, elapsed, run, pending,
                     feed_held, clicks, angle, shaking, whole, owed, stall, applied>>
  PROVE  FeederInv'
<1>1. Spacing' = Spacing /\ Jam' = Jam
  BY FiguresKept
<1>. QED
  BY <1>1 DEF FeederInv, AtRest, Owing, Rotor, Ledger, Budget, Uncounted, Turning

\* The top of the loop leaves the motor, the status and the phase agreeing.
LEMMA InvAtRest ==
  ASSUME LoopTop,
         flash_busy' => phase' = "Idle",
         phase' = "Idle" => elapsed' = 0,
         phase' = "Calibrating" => run' < DETENTS
  PROVE  AtRest'
BY DEF LoopTop, AtRest

LEMMA InvTakeFeed ==
  ASSUME TypeOK, FeederInv, TypeOK', TakeFeed
  PROVE  FeederInv'
<1>0. /\ phase = "Idle" /\ elapsed = 0 /\ elapsed' = 0 /\ clicks' = clicks /\ angle' = angle
      /\ owed = pending /\ run' = run /\ flash_busy' = flash_busy
  BY DEF TakeFeed, FeedReady, FeederInv, AtRest, Ledger, Uncounted
<1>1. pending' \in pending .. MAX_CLICKS /\ owed' = pending' /\ pending' \in Nat
  <2>1. pending' \in pending .. MAX_CLICKS /\ owed' = pending'
    BY <1>0, TakeFeedLeaves
  <2>2. MAX_CLICKS \in Nat /\ pending \in Nat
    BY FeederAssumption DEF TypeOK, U8
  <2>. QED BY <2>1, <2>2
<1>2. Spacing' \in Nat \ {0} /\ Jam' \in Nat \ {0}
  BY Figures, TimingsType DEF Spacing, Jam, TypeOK
<1>3. CASE pending' > 0 /\ ~flash_busy
  <2>1. /\ phase' = (IF OnDetent THEN "Counting" ELSE "Aligning")
        /\ shaking' = (IF OnDetent THEN Chatter ELSE shaking)
        /\ feed_held' = FALSE /\ whole' = OnDetent /\ stall' = 0
    BY <1>3 DEF TakeFeed
  <2>2. AtRest'
    BY <1>0, <1>3, <2>1, InvAtRest DEF TakeFeed
  <2>3. Owing'
    BY <1>1, <1>3, <2>1 DEF Owing, Turning
  <2>4. Rotor'
    <3>1. CASE OnDetent
      <4>1. phase' = "Counting" /\ shaking' = Chatter /\ whole' /\ angle' = 0
        BY <1>0, <2>1, <3>1 DEF OnDetent
      <4>. QED
        BY <1>0, <1>2, <4>1, FeederAssumption DEF Rotor, TypeOK
    <3>2. CASE ~OnDetent
      <4>1. phase' = "Aligning" /\ ~whole' /\ angle' # 0 /\ clicks' = 0
        BY <1>0, <2>1, <3>2 DEF OnDetent, FeederInv, Rotor, TypeOK
      <4>. QED BY <4>1 DEF Rotor
    <3>. QED BY <3>1, <3>2
  <2>5. ~Uncounted' /\ Ledger'
    <3>1. ~(elapsed' >= Spacing')
      BY <1>0, <1>2
    <3>. QED BY <1>1, <3>1 DEF Ledger, Uncounted
  <2>6. Budget'
    BY <1>0, <1>2, <2>1, <2>5 DEF Budget, TypeOK
  <2>. QED BY <2>2, <2>3, <2>4, <2>5, <2>6 DEF FeederInv
<1>4. CASE ~(pending' > 0 /\ ~flash_busy)
  <2>1. phase' = "Idle" /\ feed_held' = (feed_held \/ pending' > 0)
    BY <1>0, <1>4 DEF TakeFeed
  <2>2. AtRest'
    BY <1>0, <2>1, InvAtRest DEF TakeFeed
  <2>3. feed_held <=> pending > 0
    BY <1>0 DEF FeederInv, Owing
  <2>4. feed_held' <=> pending' > 0
    <3>1. pending > 0 => pending' > 0
      BY <1>1, FeederAssumption DEF TypeOK, U8
    <3>. QED BY <2>1, <2>3, <3>1
  <2>5. Owing'
    BY <2>1, <2>4 DEF Owing, Turning
  <2>6. Rotor'
    BY <1>0, <2>1 DEF FeederInv, Rotor
  <2>7. Ledger' /\ Budget'
    BY <1>1, <2>1 DEF Ledger, Budget, Uncounted, Turning
  <2>. QED BY <2>2, <2>5, <2>6, <2>7 DEF FeederInv
<1>. QED BY <1>3, <1>4

LEMMA InvOnClick ==
  ASSUME TypeOK, FeederInv, TypeOK', OnClick
  PROVE  FeederInv'
<1>0. /\ Turning /\ clicks > 0 /\ clicks' = clicks - 1 /\ pending > 0 /\ angle = 0
      /\ UNCHANGED <<angle, shaking, applied, run, flash_busy, feed_held, owed, whole, stall>>
  BY DEF OnClick, FeederInv, Owing, Rotor, mechanism, ghosts
<1>1. Spacing' = Spacing /\ Jam' = Jam
  BY <1>0, FiguresKept
<1>2. ~flash_busy' /\ ~feed_held' /\ phase # "Idle" /\ phase # "Calibrating"
  BY <1>0 DEF FeederInv, AtRest, Owing, Turning
<1>3. CASE phase = "Counting" /\ elapsed < Spacing
  <2>1. UNCHANGED <<phase, pending, elapsed>>
    BY <1>3 DEF OnClick, TooSoon, Reject
  <2>2. AtRest'
    BY <1>2, <2>1, InvAtRest DEF OnClick
  <2>3. ~Uncounted /\ ~Uncounted'
    <3>1. ~(elapsed >= Spacing) /\ ~(elapsed' >= Spacing')
      <4>1. elapsed \in Nat /\ Spacing \in Nat /\ elapsed' = elapsed
        BY <2>1, Figures DEF TypeOK
      <4>. QED BY <1>1, <1>3, <4>1
    <3>. QED BY <3>1 DEF Uncounted
  <2>4. Owing' /\ Ledger'
    BY <1>0, <2>1, <2>3 DEF FeederInv, Owing, Ledger, Turning
  <2>5. Rotor'
    BY <1>0, <1>3, <2>1, <2>3 DEF FeederInv, Rotor, TypeOK
  <2>6. Budget'
    BY <1>0, <1>1, <1>3, <2>1, <2>3 DEF FeederInv, Budget, Turning
  <2>. QED BY <2>2, <2>4, <2>5, <2>6 DEF FeederInv
<1>4. CASE ~(phase = "Counting" /\ elapsed < Spacing)
  <2>1. /\ elapsed' = 0
        /\ pending' = (IF phase = "Aligning" THEN pending ELSE pending - 1)
        /\ phase' = (IF pending' = 0 THEN "Idle" ELSE "Counting")
    BY <1>4 DEF OnClick, TooSoon
  <2>2. AtRest'
    BY <1>2, <2>1, InvAtRest DEF OnClick
  <2>3. phase = "Aligning" \/ Uncounted
    BY <1>0, <1>4, Figures DEF Turning, Uncounted, TypeOK
  <2>4. stall = 0 /\ whole /\ owed = pending'
    BY <1>0, <2>1, <2>3 DEF FeederInv, Budget, Rotor, Ledger, Uncounted
  <2>5. ~Uncounted'
    BY <1>1, <2>1, Figures DEF Uncounted
  <2>6. pending' \in Nat
    BY FeederAssumption DEF TypeOK, U8
  <2>7. Owing'
    BY <1>2, <2>1, <2>6 DEF Owing, Turning
  <2>8. Ledger'
    BY <1>0, <2>4, <2>5 DEF Ledger
  <2>9. Rotor'
    BY <1>0, <2>1, <2>4 DEF Rotor, TypeOK
  <2>10. Budget'
    BY <1>0, <1>1, <2>1, <2>4, <2>5, Figures DEF Budget
  <2>. QED BY <2>2, <2>7, <2>8, <2>9, <2>10 DEF FeederInv
<1>. QED BY <1>3, <1>4

LEMMA InvMoreFeed ==
  ASSUME TypeOK, FeederInv, MoreFeed
  PROVE  FeederInv'
<1>0. /\ Turning /\ clicks = 0 /\ feed # <<>> /\ applied' = applied
      /\ applied \in Calibrations /\ RequestClicks(Head(feed))
      /\ UNCHANGED <<motor, phase, feeding, flash_busy, elapsed, run, feed_held,
                     clicks, angle, shaking, whole, stall>>
  BY DEF MoreFeed, FeedLeft, mechanism, TypeOK
<1>1. /\ pending' \in pending .. MAX_CLICKS
      /\ \E more \in Nat : pending' = pending + more /\ owed' = owed + more
  BY <1>0, QueueType, RequestLeaves
<1>2. pending \in Nat /\ pending' \in Nat /\ owed \in Int /\ pending' >= pending
  BY <1>1, FeederAssumption DEF TypeOK, U8
<1>3. Spacing' = Spacing /\ Jam' = Jam
  BY <1>0, FiguresKept
<1>4. AtRest' /\ Rotor' /\ Budget'
  BY <1>0, <1>3 DEF FeederInv, AtRest, Rotor, Budget, Uncounted, Turning
<1>5. owed = pending /\ (pending > 0 => pending' > 0)
  BY <1>0, <1>2 DEF FeederInv, Ledger, Uncounted
<1>5a. owed' = pending'
  BY <1>1, <1>5
<1>6. Owing' /\ Ledger'
  BY <1>0, <1>5, <1>5a DEF FeederInv, Owing, Ledger, Uncounted, Turning
<1>. QED BY <1>4, <1>6 DEF FeederInv

\* The steps that stop the motor or start a calibration run.
LEMMA InvStops ==
  ASSUME TypeOK, FeederInv, Timeout \/ CalibrationClick \/ CalibrationJam \/ TakeCalibrate
  PROVE  FeederInv'
<1>0. /\ clicks' \in {clicks, clicks - 1} /\ clicks' <= clicks /\ angle' = angle
      /\ applied' = applied
      /\ phase' \in {"Idle", "Calibrating"} /\ LoopTop
      /\ flash_busy' = flash_busy /\ feed_held' = feed_held
  BY DEF Timeout, CalibrationClick, CalibrationJam, TakeCalibrate, mechanism, machine,
         TypeOK
<1>1. CASE Timeout
  <2>1. phase' = "Idle" /\ pending' = 0 /\ owed' = 0 /\ elapsed' = 0 /\ ~feed_held
    BY <1>1 DEF Timeout, FeederInv, Owing, Turning
  <2>. QED
    BY <1>0, <1>1, <2>1, InvAtRest DEF Timeout, FeederInv, Owing, Rotor, Ledger, Budget,
       Uncounted, Turning, TypeOK
<1>2. CASE CalibrationClick \/ CalibrationJam
  <2>1. /\ phase = "Calibrating" /\ pending = 0 /\ owed = 0 /\ ~feed_held /\ ~flash_busy
        /\ pending' = pending /\ owed' = owed /\ elapsed' = 0
        /\ phase' = "Calibrating" => run' < DETENTS
    BY <1>2, FeederAssumption DEF CalibrationClick, CalibrationJam, FeederInv, AtRest,
       Owing, Ledger, Uncounted, machine, ghosts, TypeOK
  <2>2. AtRest'
    BY <1>0, <2>1, InvAtRest
  <2>3. Rotor'
    BY <1>0 DEF FeederInv, Rotor, TypeOK
  <2>. QED
    BY <1>0, <2>1, <2>2, <2>3 DEF FeederInv, Owing, Ledger, Budget, Uncounted, Turning
<1>3. CASE TakeCalibrate
  <2>1. /\ phase = "Idle" /\ elapsed = 0 /\ elapsed' = 0 /\ pending' = pending
        /\ owed' = owed /\ owed = pending /\ run' = 0
        /\ phase' = "Calibrating" => ~flash_busy
        /\ phase' = "Idle" \/ ~FeedReady
    BY <1>3 DEF TakeCalibrate, FeederInv, AtRest, Ledger, Uncounted
  <2>2. AtRest'
    BY <1>0, <2>1, InvAtRest, FeederAssumption
  <2>3. Rotor'
    BY <1>0 DEF FeederInv, Rotor, TypeOK
  <2>4. phase' = "Calibrating" => pending = 0
    BY <2>1, FeederAssumption DEF FeedReady, PastHold, TypeOK, U8
  <2>5. Owing'
    BY <1>0, <2>1, <2>4 DEF FeederInv, Owing, Turning
  <2>. QED
    BY <1>0, <2>1, <2>2, <2>3, <2>5 DEF FeederInv, Ledger, Budget, Uncounted, Turning
<1>. QED BY <1>1, <1>2, <1>3

LEMMA InvStay ==
  ASSUME TypeOK, FeederInv, Stay
  PROVE  FeederInv'
<1>0. /\ clicks = 0 /\ clicks' = 0 /\ applied' = applied
      /\ elapsed' = (IF motor THEN elapsed + 1 ELSE 0)
      /\ stall' = (IF motor THEN stall + 1 ELSE 0)
      /\ shaking' = (IF shaking > 0 THEN shaking - 1 ELSE 0)
      /\ UNCHANGED <<angle, motor, phase, feeding, flash_busy, run, pending, feed_held,
                     whole, owed>>
      /\ Turning => elapsed < Jam
  BY Figures DEF Stay, Passes, Ready, machine, TypeOK
<1>1. Spacing' = Spacing /\ Jam' = Jam
  BY <1>0, FiguresKept
<1>2. motor <=> phase # "Idle"
  BY DEF FeederInv, AtRest
<1>3. AtRest' /\ Owing' /\ Ledger'
  BY <1>0, <1>2 DEF FeederInv, AtRest, Owing, Ledger, Uncounted, Turning
<1>4. Rotor'
  BY <1>0, <1>2, FeederAssumption DEF FeederInv, Rotor, Uncounted, TypeOK
<1>5. Budget'
  BY <1>0, <1>1, <1>2, Figures DEF FeederInv, Budget, Uncounted, Turning, TypeOK
<1>. QED BY <1>3, <1>4, <1>5 DEF FeederInv

LEMMA InvMove ==
  ASSUME TypeOK, FeederInv, Move
  PROVE  FeederInv'
<1>0. /\ clicks = 0 /\ applied' = applied /\ angle' = (angle + 1) % DetentSteps
      /\ elapsed' = (IF motor THEN elapsed + 1 ELSE 0)
      /\ UNCHANGED <<motor, phase, feeding, flash_busy, run, pending, feed_held>>
      /\ Turning => elapsed < Jam
  BY Figures DEF Move, Passes, Ready, machine, TypeOK
<1>1. Spacing' = Spacing /\ Jam' = Jam
  BY <1>0, FiguresKept
<1>2. /\ motor <=> phase # "Idle"
      /\ angle' = 0 => angle = DetentSteps - 1
      /\ angle' # 0 => angle' = angle + 1
  BY <1>0, RotorTurns DEF FeederInv, AtRest, TypeOK
<1>3. AtRest' /\ Owing'
  BY <1>0, <1>2 DEF FeederInv, AtRest, Owing, Turning
<1>4. CASE angle' = 0
  <2>1. /\ clicks' = 1 /\ shaking' = Chatter /\ stall' = 0 /\ whole' = motor
        /\ owed' = (IF Turning /\ whole THEN owed - 1 ELSE owed)
    BY <1>0, <1>4 DEF Move
  <2>2. phase = "Counting" => whole /\ elapsed' >= Spacing
    BY <1>0, <1>2, <1>4, Figures, FeederAssumption DEF FeederInv, Rotor, TypeOK
  <2>3. Uncounted' <=> phase = "Counting"
    BY <1>0, <1>1, <2>1, <2>2 DEF Uncounted
  <2>4. phase = "Aligning" => ~whole
    BY <1>0 DEF FeederInv, Rotor
  <2>5. Ledger'
    BY <1>0, <2>1, <2>2, <2>3, <2>4 DEF FeederInv, Ledger, Uncounted, Turning
  <2>6. Rotor'
    BY <1>0, <1>2, <1>4, <2>1, <2>3 DEF Rotor
  <2>7. Budget'
    BY <1>0, <1>1, <1>2, <2>1, Figures DEF FeederInv, Budget, Turning, TypeOK
  <2>. QED BY <1>3, <2>5, <2>6, <2>7 DEF FeederInv
<1>5. CASE angle' # 0
  <2>1. /\ clicks' = 0 /\ stall' = (IF motor THEN stall + 1 ELSE 0)
        /\ shaking' = (IF shaking > 0 THEN shaking - 1 ELSE 0)
        /\ owed' = owed /\ whole' = whole
    BY <1>0, <1>5 DEF Move
  <2>2. Ledger'
    BY <1>0, <2>1 DEF FeederInv, Ledger, Uncounted
  <2>3. Rotor'
    BY <1>0, <1>2, <1>5, <2>1, FeederAssumption DEF FeederInv, Rotor, Uncounted, TypeOK
  <2>4. Budget'
    BY <1>0, <1>1, <1>2, <2>1, Figures DEF FeederInv, Budget, Uncounted, Turning, TypeOK
  <2>. QED BY <1>3, <2>2, <2>3, <2>4 DEF FeederInv
<1>. QED BY <1>4, <1>5

LEMMA InvBounce ==
  ASSUME TypeOK, FeederInv, Bounce
  PROVE  FeederInv'
<1>0. /\ shaking > 0 /\ shaking' = 0 /\ angle = 0 /\ applied' = applied
      /\ clicks' \in {clicks, clicks + 1} /\ (clicks' = clicks => clicks > 0)
      /\ UNCHANGED <<angle, motor, phase, elapsed, feeding, flash_busy, run, pending,
                     feed_held, whole, owed, stall>>
  BY FeederAssumption DEF Bounce, OnDetent, machine, ghosts, TypeOK
<1>1. Spacing' = Spacing /\ Jam' = Jam
  BY <1>0, FiguresKept
<1>2. Uncounted' <=> Uncounted
  BY <1>0, <1>1, Figures, FeederAssumption DEF FeederInv, Rotor, Uncounted, TypeOK
<1>3. phase = "Aligning" => clicks > 0 /\ clicks' > 0
  BY <1>0 DEF FeederInv, Rotor, TypeOK
<1>4. AtRest' /\ Owing' /\ Ledger'
  BY <1>0, <1>2 DEF FeederInv, AtRest, Owing, Ledger, Turning
<1>5. Rotor'
  BY <1>0, <1>3 DEF FeederInv, Rotor, TypeOK
<1>6. Budget'
  BY <1>0, <1>1, <1>2, <1>3 DEF FeederInv, Budget, Turning
<1>. QED BY <1>4, <1>5, <1>6 DEF FeederInv

LEMMA InvNext ==
  ASSUME TypeOK, FeederInv, [Next]_vars
  PROVE  FeederInv'
<1>0. TypeOK'
  BY TypeNext
<1>1. CASE TakeFeed
  BY <1>0, <1>1, InvTakeFeed
<1>2. CASE OnClick
  BY <1>0, <1>2, InvOnClick
<1>3. CASE MoreFeed
  BY <1>3, InvMoreFeed
<1>4. CASE Timeout \/ CalibrationClick \/ CalibrationJam \/ TakeCalibrate
  BY <1>4, InvStops
<1>5. CASE IdleClick
  <2>1. /\ phase = "Idle" /\ phase' = phase /\ LoopTop /\ clicks' = clicks - 1
        /\ UNCHANGED <<angle, shaking, pending, applied, run, elapsed, flash_busy,
                       feed_held, owed, whole, stall>>
    BY <1>5 DEF IdleClick, mechanism, machine, ghosts
  <2>2. AtRest'
    BY <2>1, InvAtRest DEF FeederInv, AtRest
  <2>. QED
    BY <2>1, <2>2 DEF FeederInv, Owing, Rotor, Ledger, Budget, Uncounted, Turning, TypeOK
<1>6. CASE HoldEnds \/ AskCalibrate \/ Drained \/ UNCHANGED vars
  BY <1>6, InvQuiet DEF HoldEnds, AskCalibrate, Drained, vars, mechanism, machine, ghosts
<1>7. CASE Stay
  BY <1>7, InvStay
<1>8. CASE Move
  BY <1>8, InvMove
<1>9. CASE Bounce
  BY <1>9, InvBounce
<1>10. ASSUME NEW p \in Requests, Request(p) PROVE FeederInv'
  BY <1>10, InvQuiet DEF Request, mechanism, machine, ghosts
<1>11. ASSUME NEW c \in Calibrations, SaveCalibration(c) PROVE FeederInv'
  BY <1>11, InvQuiet DEF SaveCalibration, mechanism, machine, ghosts
<1>12. CASE Claim \/ EndWrite
  <2>1. /\ flash_busy' => phase = "Idle"
        /\ UNCHANGED <<motor, phase, feeding, elapsed, run, pending, feed_held, clicks,
                       angle, shaking, whole, owed, stall, applied>>
    BY <1>12 DEF Claim, EndWrite, FeederInv, AtRest, mechanism, machine, ghosts
  <2>2. Spacing' = Spacing /\ Jam' = Jam
    BY <2>1, FiguresKept
  <2>. QED
    BY <2>1, <2>2 DEF FeederInv, AtRest, Owing, Rotor, Ledger, Budget, Uncounted, Turning
<1>13. CASE Restart \/ PowerCut
  <2>1. /\ motor' = FALSE /\ feeding' = FALSE /\ phase' = "Idle" /\ elapsed' = 0
        /\ flash_busy' = FALSE /\ feed_held' = FALSE /\ clicks' = 0 /\ pending' = 0
        /\ owed' = 0
    BY <1>13 DEF Restart, PowerCut, Reset
  <2>2. AtRest'
    BY <2>1 DEF AtRest
  <2>. QED
    BY <2>1, <2>2 DEF FeederInv, Owing, Rotor, Ledger, Budget, Uncounted, Turning
<1>. QED
  BY <1>1, <1>2, <1>3, <1>4, <1>5, <1>6, <1>7, <1>8, <1>9, <1>10, <1>11, <1>12, <1>13
     DEF Next, FeederTask
-----------------------------------------------------------------------------
LEMMA Inductive == Spec => [](TypeOK /\ FeederInv)
<1>1. Init => TypeOK /\ FeederInv
  BY TypeInit, InvInit
<1>2. (TypeOK /\ FeederInv) /\ [Next]_vars => (TypeOK /\ FeederInv)'
  BY TypeNext, InvNext
<1>. QED BY <1>1, <1>2, PTL DEF Spec

\* Every variable keeps its type.
THEOREM TypeCorrect == Spec => []TypeOK
BY Inductive, PTL

\* The bowl gets what was asked for: the clicks pending are those accepted less the
\* detents the motor turned (Feeder::request, on_click and on_timeout).
THEOREM BowlGetsWhatWasAsked == Spec => []FoodMatchesClicks
<1>1. TypeOK /\ FeederInv => FoodMatchesClicks
  BY DEF FeederInv, Ledger, Uncounted, FoodMatchesClicks
<1>. QED BY <1>1, Inductive, PTL

\* A stuck mechanism stops within the jam budget of its last detent, however the contact
\* bounces and however many requests arrive mid-turn (Feeder::on_timeout).
THEOREM JamStops == Spec => []JamBounded
<1>1. TypeOK /\ FeederInv => JamBounded
  BY Figures DEF FeederInv, Budget, JamBounded, TypeOK
<1>. QED BY <1>1, Inductive, PTL

\* Nothing turns while an upload writes the flash (hold_for_flash, web::upload).
THEOREM StillDuringWrite == Spec => []NoTurnDuringWrite
<1>1. TypeOK /\ FeederInv => NoTurnDuringWrite
  BY DEF FeederInv, AtRest, NoTurnDuringWrite
<1>. QED BY <1>1, Inductive, PTL

\* A calibration run never starts over a meal, nor a meal over a run (calibrate()).
THEOREM RunSharesNoMeal == Spec => []RunIsNotAMeal
<1>1. TypeOK /\ FeederInv => RunIsNotAMeal
  BY DEF FeederInv, Owing, RunIsNotAMeal
<1>. QED BY <1>1, Inductive, PTL

\* When web::idle lets an upload restart the unit, nothing is owed to the bowl.
THEOREM IdleIsDone == Spec => []IdleOwesNothing
<1>1. ASSUME TypeOK, FeederInv, idle
      PROVE  pending = 0 /\ owed = 0
  <2>1. phase = "Idle" /\ ~feed_held
    BY <1>1 DEF idle, FeederInv, AtRest
  <2>2. ~(pending > 0) /\ owed = pending
    BY <1>1, <2>1 DEF FeederInv, Owing, Ledger, Uncounted
  <2>. QED BY <1>1, <2>2, FeederAssumption DEF TypeOK, U8
<1>2. TypeOK /\ FeederInv => IdleOwesNothing
  BY <1>1 DEF IdleOwesNothing
<1>. QED BY <1>2, Inductive, PTL
=============================================================================

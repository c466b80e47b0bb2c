------------------------------ MODULE PartsProofs ------------------------------
(***************************************************************************)
(* Theorems about three of the parts that the run `parts` checks together. *)
(*                                                                         *)
(* The clock chip never passes off a time as set that was not: the types   *)
(* of Rtc, and LaundersNothing, for any walls, zones and number of faults. *)
(*                                                                         *)
(* A record whose write the power cut short reads as nothing, as what was  *)
(* there or as what was being written: TornIsNone of Records, for fields   *)
(* of any length and any contents that fit them.                           *)
(*                                                                         *)
(* A page changes what its form asks for and nothing else: AsTheFormAsked  *)
(* of Pages, for any number of meals, connections, requests and browsers.  *)
(***************************************************************************)
EXTENDS Rtc, Records, Pages, SequenceTheorems, WellFoundedInduction, TLAPS

\* Between the time and the flags nothing else writes the chip: what the flags vouch for
\* was written to its end.
MidSet == doing \in {"offset", "flags"} => whole

IInv == RtcTypeOK /\ LaundersNothing /\ MidSet
-----------------------------------------------------------------------------
\* A step that fails half way leaves registers, whichever step it was.
LEMMA CutShortTyped ==
  ASSUME RtcTypeOK, NEW step \in {"wait", "boot", "gone", "read", "time", "offset", "flags"},
         CutShort(step)
  PROVE  chip' \in Chips /\ whole' \in BOOLEAN /\ torn' \in BOOLEAN
<1>1. chip \in Chips /\ target \in Times /\ whole \in BOOLEAN /\ torn \in BOOLEAN
  BY DEF RtcTypeOK
<1>2. chip' \in Chips
  <2>1. CASE step = "time"
    <3>1. PICK w \in Walls, d \in BOOLEAN : chip' = [chip EXCEPT !.w = w, !.date = d]
      BY <2>1 DEF CutShort, Half
    <3> QED BY <1>1, <3>1 DEF Chips
  <2>2. CASE step = "offset"
    <3>1. PICK o \in {chip.offset, None, target.offset} : chip' = [chip EXCEPT !.offset = o]
      BY <2>2 DEF CutShort, Half
    <3>2. o \in Offsets BY <1>1, <3>1 DEF Chips, Times, Offsets
    <3> QED BY <1>1, <3>1, <3>2 DEF Chips
  <2>3. CASE step = "flags"
    <3>1. CASE chip' = chip BY <1>1, <3>1
    <3>2. CASE chip' # chip
      <4>1. PICK stopped \in {chip.stopped, FALSE} :
              chip' = [chip EXCEPT !.stops_on_battery = FALSE, !.stopped = stopped]
        BY <2>3, <3>2 DEF CutShort, Half
      <4> QED BY <1>1, <4>1 DEF Chips
    <3> QED BY <3>1, <3>2
  <2>4. CASE step \in {"wait", "boot", "gone", "read"} BY <1>1, <2>4 DEF CutShort, Half
  <2> QED BY <2>1, <2>2, <2>3, <2>4
<1>3. whole' \in BOOLEAN /\ torn' \in BOOLEAN
  BY <1>1 DEF CutShort, Chips
<1> QED BY <1>2, <1>3

\* And it vouches for nothing that was not vouched for, but a torn time.
LEMMA CutShortVouches ==
  ASSUME IInv, NEW step \in {"wait", "boot", "gone", "read", "time", "offset", "flags"},
         doing = step, CutShort(step)
  PROVE  trustworthy(chip') => whole' \/ torn'
<1>1. chip \in Chips /\ target \in Times /\ whole \in BOOLEAN /\ torn \in BOOLEAN
  BY DEF IInv, RtcTypeOK
<1>2. chip.stopped \in BOOLEAN /\ chip.date \in BOOLEAN BY <1>1 DEF Chips
<1>3. CASE step = "time"
  <2>1. PICK w \in Walls, d \in BOOLEAN : chip' = [chip EXCEPT !.w = w, !.date = d]
    BY <1>3 DEF CutShort, Half
  <2>2. chip'.stopped = chip.stopped /\ chip'.w = w /\ chip'.date = d
    BY <1>1, <2>1 DEF Chips
  <2>3. CASE chip'.w # chip.w \/ chip'.date # chip.date
    BY <1>2, <1>3, <2>2, <2>3 DEF CutShort, trustworthy
  <2>4. CASE ~(chip'.w # chip.w \/ chip'.date # chip.date)
    <3>1. whole' = whole /\ torn' = torn BY <1>3, <2>4 DEF CutShort
    <3> QED BY <2>2, <2>4, <3>1 DEF IInv, LaundersNothing, trustworthy
  <2> QED BY <2>3, <2>4
<1>4. CASE step = "offset"
  <2>1. chip'.stopped = chip.stopped /\ chip'.date = chip.date
    BY <1>1, <1>4 DEF CutShort, Half, Chips
  <2>2. whole' = whole /\ torn' = torn BY <1>4 DEF CutShort
  <2> QED BY <2>1, <2>2 DEF IInv, LaundersNothing, trustworthy
<1>5. CASE step = "flags" BY <1>5 DEF CutShort, IInv, MidSet
<1>6. CASE step \in {"wait", "boot", "gone", "read"}
  <2>1. chip' = chip /\ whole' = whole /\ torn' = torn BY <1>6 DEF CutShort, Half
  <2> QED BY <2>1 DEF IInv, LaundersNothing
<1> QED BY <1>3, <1>4, <1>5, <1>6
-----------------------------------------------------------------------------
\* The invariant holds of a unit as it is powered on,
LEMMA InvInit == RtcInit => IInv
<1> SUFFICES ASSUME RtcInit PROVE IInv
  OBVIOUS
<1>1. zone \in Walls /\ None \in Offsets /\ target \in Times
  BY RtcAssumption DEF RtcInit, Times, Offsets
<1>2. chip \in Chips /\ chip.stopped \in BOOLEAN BY DEF RtcInit, Chips
<1>3. RtcTypeOK BY <1>1, <1>2 DEF RtcInit, RtcTypeOK
<1> QED BY <1>2, <1>3 DEF RtcInit, IInv, LaundersNothing, MidSet, trustworthy

\* its types are kept by every step,
LEMMA TypeStep == RtcTypeOK /\ [RtcNext]_rtc_vars => RtcTypeOK'
<1> SUFFICES ASSUME RtcTypeOK, [RtcNext]_rtc_vars PROVE RtcTypeOK'
  OBVIOUS
<1> USE RtcAssumption
<1>1. CASE UNCHANGED rtc_vars BY <1>1 DEF RtcTypeOK, rtc_vars
<1>2. CASE BootRead BY <1>2 DEF RtcTypeOK, BootRead
<1>3. CASE Wakes BY <1>3 DEF RtcTypeOK, Wakes
<1>4. CASE Reads BY <1>4 DEF RtcTypeOK, Reads
<1>5. CASE SetTime
  <2>1. chip' \in Chips BY <1>5 DEF RtcTypeOK, SetTime, Chips, Times
  <2> QED BY <1>5, <2>1 DEF RtcTypeOK, SetTime
<1>6. CASE SetOffset
  <2>1. chip' \in Chips BY <1>6 DEF RtcTypeOK, SetOffset, Chips, Times
  <2> QED BY <1>6, <2>1 DEF RtcTypeOK, SetOffset
<1>7. CASE SetFlags
  <2>1. chip' \in Chips BY <1>7 DEF RtcTypeOK, SetFlags, Chips
  <2> QED BY <1>7, <2>1 DEF RtcTypeOK, SetFlags
<1>8. CASE BootReadFails BY <1>8 DEF RtcTypeOK, BootReadFails
<1>9. CASE TransferFails
  <2>1. chip' \in Chips /\ whole' \in BOOLEAN /\ torn' \in BOOLEAN
    BY <1>9, CutShortTyped DEF TransferFails
  <2> QED BY <1>9, <2>1 DEF RtcTypeOK, TransferFails
<1>10. CASE HearLive
  <2>1. rtc_time' \in Times BY <1>10 DEF RtcTypeOK, HearLive, Times, Offsets
  <2> QED BY <1>10, <2>1 DEF RtcTypeOK, HearLive
<1>11. CASE SetByHand
  <2>1. rtc_time' \in Times BY <1>11 DEF RtcTypeOK, SetByHand, Times, Offsets
  <2> QED BY <1>11, <2>1 DEF RtcTypeOK, SetByHand, Upset
<1>12. CASE SeasonTurns BY <1>12 DEF RtcTypeOK, SeasonTurns, Upset
<1>13. CASE Drifts
  <2>1. chip' \in Chips BY <1>13 DEF RtcTypeOK, Drifts, Chips
  <2> QED BY <1>13, <2>1 DEF RtcTypeOK, Drifts, Upset
<1>14. CASE PowerGoes
  <2>1. doing \in {"wait", "boot", "gone", "read", "time", "offset", "flags"}
    BY <1>14 DEF RtcTypeOK, PowerGoes, On
  <2>2. chip' \in Chips /\ whole' \in BOOLEAN /\ torn' \in BOOLEAN
    BY <1>14, <2>1, CutShortTyped DEF PowerGoes
  <2> QED BY <1>14, <2>2 DEF RtcTypeOK, PowerGoes, Upset
<1>15. CASE StopsOnBattery
  <2>1. chip' \in Chips BY <1>15 DEF RtcTypeOK, StopsOnBattery, Chips
  <2> QED BY <1>15, <2>1 DEF RtcTypeOK, StopsOnBattery
<1>16. CASE CellDies
  <2>1. PICK w \in Walls :
          chip' = [w |-> w, date |-> TRUE, offset |-> None, stopped |-> TRUE,
                   stops_on_battery |-> FALSE]
    BY <1>16 DEF CellDies
  <2>2. chip' \in Chips BY <2>1 DEF Chips, Offsets
  <2>3. zone' = zone /\ rtc_time' = rtc_time /\ doing' = doing /\ target' = target
    BY <1>16 DEF CellDies
  <2>4. torn' = torn /\ faults' = faults /\ whole' = FALSE /\ upsets' = upsets + 1
    BY <1>16 DEF CellDies, Upset
  <2>5. upsets' \in Nat BY <2>4 DEF RtcTypeOK
  <2> QED BY <2>2, <2>3, <2>4, <2>5 DEF RtcTypeOK
<1>17. CASE PowerComes BY <1>17 DEF RtcTypeOK, PowerComes
<1> QED
  BY <1>1, <1>2, <1>3, <1>4, <1>5, <1>6, <1>7, <1>8, <1>9, <1>10, <1>11, <1>12, <1>13, <1>14,
     <1>15, <1>16, <1>17 DEF RtcNext, RtcTask

\* and so is what it says of the registers,
LEMMA InvStep == IInv /\ [RtcNext]_rtc_vars => IInv'
<1> SUFFICES ASSUME IInv, [RtcNext]_rtc_vars PROVE (LaundersNothing /\ MidSet)'
  BY TypeStep DEF IInv
<1>0. chip \in Chips /\ chip.stopped \in BOOLEAN /\ chip.date \in BOOLEAN
  BY DEF IInv, RtcTypeOK, Chips
<1>1. CASE UNCHANGED rtc_vars
  BY <1>1 DEF IInv, LaundersNothing, MidSet, trustworthy, rtc_vars
<1>2. CASE BootRead \/ Wakes \/ Reads \/ BootReadFails \/ PowerComes
  BY <1>2 DEF IInv, LaundersNothing, MidSet, trustworthy, BootRead, Wakes, Reads, BootReadFails,
     PowerComes
<1>3. CASE SetTime BY <1>3 DEF SetTime, LaundersNothing, MidSet
\* The offset's registers say nothing of whether the time is good.
<1>4. CASE SetOffset
  <2>1. chip'.stopped = chip.stopped /\ chip'.date = chip.date BY <1>0, <1>4 DEF SetOffset, Chips
  <2>2. whole' = whole /\ torn' = torn BY <1>4 DEF SetOffset
  <2>3. MidSet' BY <1>4 DEF IInv, SetOffset, MidSet
  <2> QED BY <2>1, <2>2, <2>3 DEF IInv, LaundersNothing, trustworthy
\* The flags land on a time that is whole.
<1>5. CASE SetFlags BY <1>5 DEF IInv, SetFlags, LaundersNothing, MidSet
<1>6. CASE TransferFails
  <2>1. trustworthy(chip') => whole' \/ torn' BY <1>6, CutShortVouches DEF TransferFails
  <2> QED BY <1>6, <2>1 DEF TransferFails, LaundersNothing, MidSet, trustworthy
<1>7. CASE HearLive \/ SetByHand \/ SeasonTurns
  BY <1>7 DEF IInv, LaundersNothing, MidSet, trustworthy, HearLive, SetByHand, SeasonTurns
\* A crystal that drifts moves the time and not the flag.
<1>8. CASE Drifts
  <2>1. chip'.stopped = chip.stopped /\ chip'.date = chip.date BY <1>0, <1>8 DEF Drifts, Chips
  <2> QED BY <1>8, <2>1 DEF IInv, LaundersNothing, MidSet, trustworthy, Drifts
<1>9. CASE PowerGoes
  <2>1. doing \in {"wait", "boot", "gone", "read", "time", "offset", "flags"}
    BY <1>9 DEF IInv, RtcTypeOK, PowerGoes, On
  <2>2. trustworthy(chip') => whole' \/ torn' BY <1>9, <2>1, CutShortVouches DEF PowerGoes
  <2> QED BY <1>9, <2>2 DEF PowerGoes, LaundersNothing, MidSet, trustworthy
<1>10. CASE StopsOnBattery
  <2>1. chip'.stopped = TRUE BY <1>0, <1>10 DEF StopsOnBattery, Chips
  <2> QED BY <1>10, <2>1 DEF StopsOnBattery, On, LaundersNothing, MidSet, trustworthy
<1>11. CASE CellDies
  <2>1. chip'.stopped = TRUE BY <1>11 DEF CellDies
  <2> QED BY <1>11, <2>1 DEF CellDies, On, LaundersNothing, MidSet, trustworthy
<1> QED
  BY <1>1, <1>2, <1>3, <1>4, <1>5, <1>6, <1>7, <1>8, <1>9, <1>10, <1>11 DEF RtcNext, RtcTask

\* so it holds for ever.
LEMMA InvHolds == RtcSpec => []IInv
  BY InvInit, InvStep, PTL DEF RtcSpec
-----------------------------------------------------------------------------
\* Whatever transfer fails and whenever the power goes, the registers are ones a chip can
\* hold, the task is where it can be, and a target is a time.
THEOREM RtcTypeCorrect == RtcSpec => []RtcTypeOK
<1>1. IInv => RtcTypeOK BY DEF IInv
<1> QED BY <1>1, InvHolds, PTL

\* rtc.rs:43: OSF is not cleared before the time has landed.  For any walls, zones, faults
\* and upsets, what the chip vouches for was written to its end and ran ever since, but
\* for a time already vouched for that a write tore.
THEOREM NeverLaunders == RtcSpec => []LaundersNothing
<1>1. IInv => LaundersNothing BY DEF IInv
<1> QED BY <1>1, InvHolds, PTL
-----------------------------------------------------------------------------
(***************************************************************************)
(* Bytes.                                                                  *)
(***************************************************************************)
Plains == {Byte(n) : n \in Nat}

\* As many bytes as numbers.
LEMMA BytesAre ==
  ASSUME NEW ns \in Seq(Nat)
  PROVE  /\ Bytes(ns) \in Seq(Plains) /\ Len(Bytes(ns)) = Len(ns)
         /\ \A i \in 1..Len(ns) : Bytes(ns)[i] = Byte(ns[i])
<1>1. DOMAIN ns = 1..Len(ns) /\ Len(ns) \in Nat /\ \A i \in 1..Len(ns) : ns[i] \in Nat
  BY LenProperties, ElementOfSeq
<1>2. Bytes(ns) = [i \in 1..Len(ns) |-> Byte(ns[i])]
  BY <1>1 DEF Bytes
<1>3. Bytes(ns) \in [1..Len(ns) -> Plains]
  BY <1>1, <1>2 DEF Plains
<1>4. Bytes(ns) \in Seq(Plains)
  BY <1>1, <1>3, SeqDef
<1>5. Len(Bytes(ns)) = Len(ns)
  BY <1>1, <1>3, <1>4, LenProperties
<1>. QED BY <1>2, <1>4, <1>5

\* The numbers come back from them.
LEMMA PlainBack ==
  ASSUME NEW ns \in Seq(Nat)
  PROVE  /\ Plain(Bytes(ns)) = ns
         /\ ns \in Seq(0..127) => utf8(Bytes(ns))
<1>1. DOMAIN ns = 1..Len(ns) /\ DOMAIN Bytes(ns) = 1..Len(ns)
  BY BytesAre, LenProperties
<1>2. \A i \in 1..Len(ns) : Bytes(ns)[i].n = ns[i]
  <2>1. \A i \in 1..Len(ns) : Bytes(ns)[i] = Byte(ns[i])
    BY BytesAre
  <2>2. \A n : Byte(n).n = n
    BY DEF Byte
  <2>. QED BY <2>1, <2>2
<1>3. Plain(Bytes(ns)) = [i \in 1..Len(ns) |-> ns[i]]
  BY <1>1, <1>2 DEF Plain
<1>4. ns = [i \in 1..Len(ns) |-> ns[i]]
  BY <1>1, LenProperties
<1>5. ASSUME ns \in Seq(0..127) PROVE utf8(Bytes(ns))
  <2>1. \A i \in 1..Len(ns) : ns[i] \in 0..127
    BY <1>5, ElementOfSeq
  <2>2. ASSUME NEW i \in 1..Len(ns) PROVE Bytes(ns)[i].n < 128
    <3>1. PICK n \in 0..127 : n = ns[i] BY <2>1, Zenon
    <3>2. Bytes(ns)[i].n = ns[i] BY <1>2
    <3>3. n < 128 OBVIOUS
    <3>. QED BY <3>1, <3>2, <3>3
  <2>. QED BY <1>1, <2>2 DEF utf8
<1>. QED BY <1>3, <1>4, <1>5

\* The numbers ns are at place at of the cells b.
Holds(b, at, ns) == \A i \in 1..Len(ns) : b[at - 1 + i] = Byte(ns[i])

\* What the cells hold at a place can be read out of them.
LEMMA ReadOut ==
  ASSUME NEW b, NEW at \in Nat, NEW ns \in Seq(Nat), Holds(b, at + 1, ns)
  PROVE  SubSeq(b, at + 1, at + Len(ns)) = Bytes(ns)
<1>. DEFINE c == SubSeq(b, at + 1, at + Len(ns))
<1>1. Len(ns) \in Nat /\ \A i \in 1..Len(ns) : ns[i] \in Nat
  BY LenProperties, ElementOfSeq
<1>2. \A i \in 1..Len(ns) : b[at + i] = Byte(ns[i])
  BY <1>1 DEF Holds
<1>3. \A j \in (at + 1)..(at + Len(ns)) : b[j] \in Plains
  <2>1. ASSUME NEW j \in (at + 1)..(at + Len(ns)) PROVE b[j] \in Plains
    <3>1. j - at \in 1..Len(ns) /\ at + (j - at) = j
      BY <1>1
    <3>2. b[j] = Byte(ns[j - at]) /\ ns[j - at] \in Nat
      BY <1>1, <1>2, <3>1
    <3>. QED BY <3>2 DEF Plains
  <2>. QED BY <2>1
<1>4. /\ c \in Seq(Plains)
      /\ Len(c) = IF at + 1 <= at + Len(ns) THEN at + Len(ns) - (at + 1) + 1 ELSE 0
      /\ \A i \in 1..(at + Len(ns) - (at + 1) + 1) : c[i] = b[at + 1 + i - 1]
  <2>1. at + 1 \in Int /\ at + Len(ns) \in Int
    BY <1>1
  <2>. HIDE DEF c
  <2>. QED BY <1>3, <2>1, SubSeqProperties DEF c
<1>5. Len(c) = Len(ns) /\ at + Len(ns) - (at + 1) + 1 = Len(ns)
  BY <1>1, <1>4
<1>6. \A i \in 1..Len(ns) : c[i] = Bytes(ns)[i]
  BY <1>1, <1>2, <1>4, <1>5, BytesAre
<1>. HIDE DEF c
<1>7. c = Bytes(ns)
  BY <1>4, <1>5, <1>6, BytesAre, SeqEqual
<1>. QED BY <1>7 DEF c

\* One thing after another.
LEMMA BothAre ==
  ASSUME NEW s \in Seq(Nat), NEW t \in Seq(Nat)
  PROVE  s \o t \in Seq(Nat) /\ Len(s \o t) = Len(s) + Len(t)
BY ConcatProperties

\* What holds one thing and then another holds each at its place.
LEMMA HoldsBoth ==
  ASSUME NEW b, NEW at \in Nat, NEW s \in Seq(Nat), NEW t \in Seq(Nat), Holds(b, at, s \o t)
  PROVE  Holds(b, at, s) /\ Holds(b, at + Len(s), t)
<1>1. /\ Len(s) \in Nat /\ Len(t) \in Nat /\ Len(s \o t) = Len(s) + Len(t)
      /\ \A i \in 1..(Len(s) + Len(t)) : (s \o t)[i] = IF i <= Len(s) THEN s[i] ELSE t[i - Len(s)]
  BY LenProperties, ConcatProperties
<1>2. ASSUME NEW i \in 1..Len(s) PROVE b[at - 1 + i] = Byte(s[i])
  BY <1>1 DEF Holds
<1>3. ASSUME NEW i \in 1..Len(t) PROVE b[at + Len(s) - 1 + i] = Byte(t[i])
  <2>1. i + Len(s) \in 1..(Len(s) + Len(t)) /\ ~(i + Len(s) <= Len(s)) /\ i + Len(s) - Len(s) = i
    BY <1>1
  <2>2. b[at - 1 + (i + Len(s))] = Byte((s \o t)[i + Len(s)])
    BY <1>1, <2>1 DEF Holds
  <2>3. at - 1 + (i + Len(s)) = at + Len(s) - 1 + i
    BY <1>1
  <2>. QED BY <1>1, <2>1, <2>2, <2>3
<1>. QED BY <1>2, <1>3 DEF Holds
-----------------------------------------------------------------------------
(***************************************************************************)
(* The records of a fixed length.                                          *)
(***************************************************************************)
Sums(all) == {Summed(all, 1), Summed(all, 2)}

\* The two bytes of a checksum.
LEMMA CrcIs ==
  ASSUME NEW all
  PROVE  /\ crc32(all) \in Seq(Sums(all)) /\ Len(crc32(all)) = 2
         /\ crc32(all)[1] = Summed(all, 1) /\ crc32(all)[2] = Summed(all, 2)
<1>1. crc32(all) \in [1..2 -> Sums(all)]
  <2>1. \A k \in 1..2 : Summed(all, k) \in Sums(all)
    BY DEF Sums
  <2>. QED BY <2>1 DEF crc32
<1>2. crc32(all) \in Seq(Sums(all))
  BY <1>1, SeqDef, 2 \in Nat
<1>3. Len(crc32(all)) = 2
  BY <1>1, <1>2, LenProperties
<1>. QED BY <1>2, <1>3 DEF crc32

\* A seal, whatever it is a seal of.
LEMMA SealedIs ==
  ASSUME NEW magic \in Nat, NEW body \in Seq(Nat)
  PROVE  /\ \E S : Sealed(magic, body) \in Seq(S)
         /\ Len(Sealed(magic, body)) = Len(body) + 3
         /\ Sealed(magic, body)[1] = Byte(magic)
         /\ \A i \in 1..Len(body) : Sealed(magic, body)[i + 1] = Byte(body[i])
         /\ SealHolds(Sealed(magic, body))
<1>1. PICK ns : ns = <<magic>> \o body
  OBVIOUS
<1>2. <<magic>> \in Seq(Nat) /\ Len(<<magic>>) = 1 /\ <<magic>>[1] = magic
  OBVIOUS
<1>3. /\ ns \in Seq(Nat) /\ Len(ns) = 1 + Len(body)
      /\ \A i \in 1..(1 + Len(body)) : ns[i] = IF i <= 1 THEN magic ELSE body[i - 1]
  BY <1>1, <1>2, ConcatProperties
<1>4. Len(body) \in Nat
  BY LenProperties
<1>5. PICK all : all = Bytes(ns)
  OBVIOUS
<1>6. /\ all \in Seq(Plains) /\ Len(all) = 1 + Len(body)
      /\ \A i \in 1..(1 + Len(body)) : all[i] = Byte(ns[i])
  BY <1>3, <1>5, BytesAre
<1>7. PICK S : S = Plains \cup Sums(all)
  OBVIOUS
<1>8. all \in Seq(S) /\ crc32(all) \in Seq(S) /\ Len(crc32(all)) = 2
  BY <1>6, <1>7, CrcIs, SeqMonotonic, Plains \subseteq S, Sums(all) \subseteq S
<1>9. PICK s : s = Sealed(magic, body)
  OBVIOUS
<1>10. s = all \o crc32(all)
  BY <1>1, <1>5, <1>9 DEF Sealed
<1>11. /\ s \in Seq(S) /\ Len(s) = Len(body) + 3
       /\ \A i \in 1..(1 + Len(body)) : s[i] = all[i]
  <2>1. /\ s \in Seq(S) /\ Len(s) = Len(all) + Len(crc32(all))
        /\ \A i \in 1..(Len(all) + Len(crc32(all))) :
             s[i] = IF i <= Len(all) THEN all[i] ELSE crc32(all)[i - Len(all)]
    BY <1>8, <1>10, ConcatProperties
  <2>. QED BY <1>4, <1>6, <1>8, <2>1
<1>12. s[1] = Byte(magic)
  <2>1. 1 \in 1..(1 + Len(body))
    BY <1>4
  <2>2. all[1] = Byte(ns[1]) /\ ns[1] = magic /\ s[1] = all[1]
    BY <1>3, <1>6, <1>11, <2>1
  <2>. QED BY <2>2
<1>13. \A i \in 1..Len(body) : s[i + 1] = Byte(body[i])
  <2>1. ASSUME NEW i \in 1..Len(body) PROVE s[i + 1] = Byte(body[i])
    <3>1. i + 1 \in 1..(1 + Len(body)) /\ ~(i + 1 <= 1) /\ i + 1 - 1 = i
      BY <1>4
    <3>2. s[i + 1] = all[i + 1] /\ all[i + 1] = Byte(ns[i + 1])
      BY <1>6, <1>11, <3>1
    <3>3. ns[i + 1] = body[i]
      BY <1>3, <3>1
    <3>. QED BY <3>2, <3>3
  <2>. QED BY <2>1
<1>14. SealHolds(s)
  <2>1. SubSeq(s, 1, Len(all)) = all /\ SubSeq(s, Len(all) + 1, Len(all) + Len(crc32(all))) = crc32(all)
    <3>1. PICK n \in Nat : n = Len(all) /\ n >= 1
      BY <1>4, <1>6
    <3>2. SubSeq(s, 1, n) = SubSeq(all, 1, n)
      BY <1>8, <1>10, <3>1, SubSeqOfConcat1, 1 \in 1..n, n \in 1..n
    <3>3. SubSeq(s, n + 1, n + 2) = SubSeq(crc32(all), n + 1 - n, n + 2 - n)
      <4>1. PICK t : t = crc32(all)
        OBVIOUS
      <4>2. PICK p \in Int, q \in Int : p = n + 1 /\ q = n + 2
        OBVIOUS
      <4>3. p \in Len(all) + 1 .. Len(all) + Len(t) /\ q \in Len(all) + 1 .. Len(all) + Len(t)
        <5>1. Len(t) = 2 /\ Len(all) = n
          BY <1>8, <3>1, <4>1
        <5>2. p \in n + 1 .. n + 2 /\ q \in n + 1 .. n + 2
          BY <4>2
        <5>. QED BY <5>1, <5>2
      <4>4. all \in Seq(S) /\ t \in Seq(S)
        BY <1>8, <4>1
      <4>5. SubSeq(all \o t, p, q) = SubSeq(t, p - Len(all), q - Len(all))
        BY <4>3, <4>4, SubSeqOfConcat2, Zenon
      <4>6. SubSeq(s, p, q) = SubSeq(t, p - n, q - n)
        BY <1>10, <3>1, <4>1, <4>5
      <4>. QED BY <4>1, <4>2, <4>6
    <3>4. n + 1 - n = 1 /\ n + 2 - n = 2
      OBVIOUS
    <3>5. SubSeq(all, 1, n) = all /\ SubSeq(crc32(all), 1, 2) = crc32(all)
      BY <1>8, <3>1, SubSeqFull
    <3>. QED BY <1>8, <3>1, <3>2, <3>3, <3>4, <3>5
  <2>2. Len(s) - 2 = Len(all) /\ Len(s) - 1 = Len(all) + 1 /\ Len(s) = Len(all) + Len(crc32(all))
    BY <1>4, <1>6, <1>8, <1>11
  <2>. QED BY <2>1, <2>2 DEF SealHolds
<1>. QED BY <1>9, <1>11, <1>12, <1>13, <1>14

\* A seal whose last byte is erased does not hold.
LEMMA SealBroken ==
  ASSUME NEW s, NEW n \in Nat, n >= 3, Len(s) = n, s[n] = FF
  PROVE  ~SealHolds(s)
<1>1. PICK c : c = SubSeq(s, n - 1, n)
  OBVIOUS
<1>2. c[2] = s[n]
  <2>1. \A i \in (n - 1)..n : s[i] \in {s[j] : j \in (n - 1)..n}
    OBVIOUS
  <2>2. \A i \in 1..(n - (n - 1) + 1) : c[i] = s[n - 1 + i - 1]
    BY <1>1, <2>1, SubSeqProperties, n - 1 \in Int, n \in Int
  <2>3. 2 \in 1..(n - (n - 1) + 1) /\ n - 1 + 2 - 1 = n
    OBVIOUS
  <2>. QED BY <2>2, <2>3
<1>3. \A all : crc32(all)[2].n = 257
  <2>1. \A all : crc32(all)[2] = Summed(all, 2)
    BY CrcIs
  <2>2. \A all : Summed(all, 2).n = 257
    BY DEF Summed
  <2>. QED BY <2>1, <2>2
<1>4. FF.n = 255
  BY DEF FF, Byte
<1>5. \A all : crc32(all) # c
  BY <1>2, <1>3, <1>4
<1>. QED BY <1>1, <1>5 DEF SealHolds
-----------------------------------------------------------------------------
(***************************************************************************)
(* The buffer a record is read into.                                       *)
(***************************************************************************)
\* The lengths.
LEMMA Lengths ==
  /\ RecordLength.schedule = 4 + SCHEDULE_SLOTS * 3
  /\ RecordLength.pause = 4
  /\ RecordLength.zone = 5 + NAME_LEN + RULE_LEN
  /\ RecordLength.credentials = 14 + SSID_LEN + 2 * PASSWORD_LEN + HOST_LEN + USER_LEN
BY RecordsAssumption DEF RecordLength

\* Every record fits the sector, and has a first and a last byte.
LEMMA Longest ==
  ASSUME NEW f \in DOMAIN RecordLength
  PROVE  /\ RecordLength[f] \in Nat /\ RecordLength[f] >= 4 /\ RecordLength[f] \in SECTOR
         /\ SectorLength \in Nat /\ RecordLength[f] <= SectorLength
<1>1. f \in {"credentials", "schedule", "pause", "zone"}
  BY DEF RecordLength
<1>2. RecordLength[f] \in Nat /\ RecordLength[f] >= 4
  BY <1>1, Lengths, RecordsAssumption
<1>3. SectorLength \in Nat
  BY Lengths, RecordsAssumption DEF SectorLength
<1>. QED BY <1>2, <1>3, RecordsAssumption DEF SECTOR

\* n cells, in order.
IsCells(b, n) == Len(b) = n /\ \E S : b \in Seq(S)

\* A buffer holds the first cells of what it is read from.
LEMMA BufferIs ==
  ASSUME NEW s, NEW n \in Nat
  PROVE  /\ IsCells(SubSeq(s, 1, n), n)
         /\ \A i \in 1..n : SubSeq(s, 1, n)[i] = s[i]
<1>. DEFINE S == {s[i] : i \in 1..n}
<1>1. /\ SubSeq(s, 1, n) \in Seq(S)
      /\ Len(SubSeq(s, 1, n)) = IF 1 <= n THEN n - 1 + 1 ELSE 0
      /\ \A i \in 1..(n - 1 + 1) : SubSeq(s, 1, n)[i] = s[1 + i - 1]
  BY SubSeqProperties, 1 \in Int, n \in Int, \A i \in 1..n : s[i] \in S
<1>2. Len(SubSeq(s, 1, n)) = n
  BY <1>1
<1>3. \A i \in 1..n : SubSeq(s, 1, n)[i] = s[i]
  BY <1>1
<1>. QED BY <1>1, <1>2, <1>3 DEF IsCells

\* Two buffers of the same cells are one.
LEMMA CellsEqual ==
  ASSUME NEW n \in Nat, NEW a, NEW b, IsCells(a, n), IsCells(b, n), \A i \in 1..n : a[i] = b[i]
  PROVE  a = b
<1>1. PICK S, T : a \in Seq(S) /\ b \in Seq(T)
  BY DEF IsCells
<1>2. a \in Seq(S \cup T) /\ b \in Seq(S \cup T)
  BY <1>1, SeqMonotonic, S \subseteq S \cup T, T \subseteq S \cup T
<1>. QED BY <1>2, SeqEqual DEF IsCells
-----------------------------------------------------------------------------
(***************************************************************************)
(* What cannot be read.                                                    *)
(***************************************************************************)
Fixed == {"schedule", "pause", "zone"}

\* No magic starts with an erased byte.
LEMMA MagicShows == \A m \in {70, 83, 80, 90} : FF # Byte(m)
  BY DEF FF, Byte

\* A buffer that lost its first byte, or its last, holds no record.
LEMMA NoneWithout ==
  ASSUME NEW f \in Fixed, NEW b, IsCells(b, RecordLength[f]),
         b[1] = FF \/ b[RecordLength[f]] = FF
  PROVE  ~decode(f, b).ok
<1>1. b[1] = FF \/ ~SealHolds(b)
  <2>1. CASE b[RecordLength[f]] = FF
    <3>1. PICK n \in Nat : n = RecordLength[f] /\ n >= 3
      BY Longest DEF Fixed, RecordLength
    <3>. QED BY <2>1, <3>1, SealBroken DEF IsCells
  <2>. QED BY <2>1
<1>2. b[1] = FF => /\ b[1] # Byte(MAGIC.schedule) /\ b[1] # Byte(MAGIC.pause)
                   /\ b[1] # Byte(MAGIC.zone)
  BY MagicShows DEF MAGIC
<1>3. \A e : ~Unread(e).ok
  BY DEF Unread
<1>4. CASE f = "schedule"
  <2>1. decode(f, b) = decode_schedule(b)
    BY <1>4 DEF decode
  <2>2. decode_schedule(b) \in {Unread("NotStored"), Unread("Corrupt")}
    BY <1>1, <1>2, Zenon DEF decode_schedule
  <2>. QED BY <1>3, <2>1, <2>2
<1>5. CASE f = "pause"
  <2>1. decode(f, b) = decode_paused(b)
    BY <1>5 DEF decode
  <2>2. decode_paused(b) = Unread("NotStored")
    BY <1>1, <1>2 DEF decode_paused
  <2>. QED BY <1>3, <2>1, <2>2
<1>6. CASE f = "zone"
  <2>1. decode(f, b) = decode_zone(b)
    BY <1>6 DEF decode
  <2>2. decode_zone(b) \in {Unread("NotStored"), Unread("Corrupt")}
    BY <1>1, <1>2, Zenon DEF decode_zone
  <2>. QED BY <1>3, <2>1, <2>2
<1>. QED BY <1>4, <1>5, <1>6 DEF Fixed

\* The credentials begin with their magic too.
LEMMA NoCredentialsWithout ==
  ASSUME NEW b, b[1] = FF
  PROVE  decode_record(b) = Unread("NotConfigured")
<1>1. b[1] # Byte(MAGIC.credentials)
  BY MagicShows DEF MAGIC
<1>. QED BY <1>1, Zenon DEF decode_record

\* An erased buffer is no record, rather than a bad one.
LEMMA ErasedIsNone ==
  ASSUME NEW f \in DOMAIN RecordLength, NEW b, IsCells(b, RecordLength[f]),
         \A i \in 1..RecordLength[f] : b[i] = FF
  PROVE  decode(f, b) = Unread(Nothing[f])
<1>1. RecordLength[f] \in Nat /\ 1 \in 1..RecordLength[f]
  BY Longest
<1>2. b[1] = FF
  BY <1>1
<1>3. DOMAIN b = 1..RecordLength[f]
  BY LenProperties DEF IsCells
<1>4. CASE f = "credentials"
  BY <1>2, <1>4, NoCredentialsWithout DEF decode, Nothing
<1>5. CASE f = "schedule"
  <2>1. \A i \in DOMAIN b : b[i] = FF
    BY <1>3
  <2>2. decode_schedule(b) = Unread("NotStored")
    BY <2>1, Zenon DEF decode_schedule
  <2>. QED BY <1>5, <2>2 DEF decode, Nothing
<1>6. CASE f = "pause"
  <2>1. b[1] # Byte(MAGIC.pause)
    BY <1>2, MagicShows DEF MAGIC
  <2>. QED BY <1>6, <2>1 DEF decode, decode_paused, Nothing
<1>7. CASE f = "zone"
  <2>1. b[1] # Byte(MAGIC.zone)
    BY <1>2, MagicShows DEF MAGIC
  <2>2. decode_zone(b) = Unread("NotStored")
    BY <2>1, Zenon DEF decode_zone
  <2>. QED BY <1>7, <2>2 DEF decode, Nothing
<1>. QED BY <1>4, <1>5, <1>6, <1>7 DEF RecordLength
-----------------------------------------------------------------------------
(***************************************************************************)
(* What is written reads back.                                             *)
(***************************************************************************)
\* What is padded is there, at its beginning.
LEMMA PaddedIs ==
  ASSUME NEW ns \in Seq(Nat), NEW len \in Nat, Len(ns) <= len
  PROVE  /\ \E zeros \in Seq(Nat) : Padded(ns, len) = ns \o zeros
         /\ Padded(ns, len) \in Seq(Nat) /\ Len(Padded(ns, len)) = len
<1>1. Len(ns) \in Nat /\ len - Len(ns) \in Nat
  BY LenProperties
<1>2. PICK m \in Nat : m = len - Len(ns)
  BY <1>1
<1>3. PICK zeros : zeros = [i \in 1..m |-> 0]
  OBVIOUS
<1>4. zeros \in [1..m -> Nat]
  BY <1>3
<1>5. zeros \in Seq(Nat) /\ Len(zeros) = m
  BY <1>4, SeqDef, LenProperties
<1>6. Padded(ns, len) = ns \o zeros
  BY <1>2, <1>3 DEF Padded
<1>7. ns \o zeros \in Seq(Nat) /\ Len(ns \o zeros) = Len(ns) + Len(zeros)
  BY <1>5, ConcatProperties
<1>8. \E z \in Seq(Nat) : Padded(ns, len) = ns \o z
  BY <1>5, <1>6
<1>9. Len(ns) + Len(zeros) = len
  BY <1>1, <1>2, <1>5
<1>. QED BY <1>6, <1>7, <1>8, <1>9

\* The bytes of a slot.
LEMMA SlotBytes ==
  ASSUME NEW slots, NEW i \in Nat, i <= Len(slots), ~(i > Len(slots))
  PROVE  /\ SlotByte(slots, i, 0) = slots[i].minute % 256
         /\ SlotByte(slots, i, 1) = slots[i].minute \div 256
         /\ SlotByte(slots, i, 2) = slots[i].portions
BY DEF SlotByte

\* The pause.
LEMMA RoundPause ==
  ASSUME NEW paused \in BOOLEAN
  PROVE  /\ IsCells(encode_paused(paused), RecordLength["pause"])
         /\ decode_paused(encode_paused(paused)) = Stored(paused)
<1>1. PICK body : body = <<IF paused THEN 1 ELSE 0>>
  OBVIOUS
<1>2. body \in Seq(Nat) /\ Len(body) = 1 /\ body[1] = IF paused THEN 1 ELSE 0
  BY <1>1
<1>3. PICK b : b = Sealed(MAGIC.pause, body)
  OBVIOUS
<1>4. MAGIC.pause \in Nat
  BY DEF MAGIC
<1>5. /\ \E S : b \in Seq(S)
      /\ Len(b) = 4 /\ b[1] = Byte(MAGIC.pause) /\ b[2] = Byte(body[1]) /\ SealHolds(b)
  <2>1. /\ \E S : b \in Seq(S)
        /\ Len(b) = Len(body) + 3 /\ b[1] = Byte(MAGIC.pause) /\ SealHolds(b)
        /\ \A i \in 1..Len(body) : b[i + 1] = Byte(body[i])
    BY <1>2, <1>3, <1>4, SealedIs, Zenon
  <2>. QED BY <1>2, <2>1
<1>6. b[2].n = IF paused THEN 1 ELSE 0
  <2>1. \A n : Byte(n).n = n
    BY DEF Byte
  <2>. QED BY <1>2, <1>5, <2>1
<1>7. decode_paused(b) = Stored(paused)
  BY <1>5, <1>6 DEF decode_paused
<1>8. IsCells(b, RecordLength["pause"])
  BY <1>5, Lengths DEF IsCells
<1>. QED BY <1>1, <1>3, <1>7, <1>8 DEF encode_paused

\* The schedule.
LEMMA RoundSchedule ==
  ASSUME NEW slots, IsSchedule(slots)
  PROVE  /\ IsCells(encode_schedule(slots), RecordLength["schedule"])
         /\ decode_schedule(encode_schedule(slots)) = Stored(slots)
<1>. DEFINE at(j) == SlotByte(slots, (j - 1) \div 3 + 1, (j - 1) % 3)
<1>1. /\ Len(slots) \in Nat /\ Len(slots) <= SCHEDULE_SLOTS /\ SCHEDULE_SLOTS \in Nat
      /\ slots = [i \in 1..Len(slots) |-> slots[i]]
      /\ \A i \in 1..Len(slots) :
           /\ slots[i] = [minute |-> slots[i].minute, portions |-> slots[i].portions]
           /\ slots[i].minute \in 0..(24 * 60 - 1) /\ slots[i].portions \in 0..255
           /\ slots[i].minute \in Nat /\ slots[i].portions \in Nat
  <2>1. Len(slots) \in Nat /\ slots = [i \in 1..Len(slots) |-> slots[i]]
    BY LenProperties DEF IsSchedule
  <2>2. \A i \in 1..Len(slots) : slots[i] \in [minute : 0..(24 * 60 - 1), portions : 0..255]
    BY ElementOfSeq, Zenon DEF IsSchedule
  <2>3. \A i \in 1..Len(slots) :
           /\ slots[i] = [minute |-> slots[i].minute, portions |-> slots[i].portions]
           /\ slots[i].minute \in 0..(24 * 60 - 1) /\ slots[i].portions \in 0..255
    BY <2>2
  <2>4. 0..(24 * 60 - 1) \subseteq Nat /\ 0..255 \subseteq Nat
    OBVIOUS
  <2>5. \A i \in 1..Len(slots) : slots[i].minute \in Nat /\ slots[i].portions \in Nat
    BY <2>3, <2>4, Zenon
  <2>6. SCHEDULE_SLOTS \in Nat /\ Len(slots) <= SCHEDULE_SLOTS
    BY RecordsAssumption DEF IsSchedule
  <2>. QED BY <2>1, <2>3, <2>5, <2>6
<1>2. PICK n \in Nat : n = SCHEDULE_SLOTS * 3
  BY <1>1
<1>3. \A j \in 1..n : at(j) \in Nat
  <2>1. ASSUME NEW j \in 1..n PROVE at(j) \in Nat
    <3>1. PICK i \in Nat, k \in 0..2 : i = (j - 1) \div 3 + 1 /\ k = (j - 1) % 3 /\ i >= 1
      OBVIOUS
    <3>2. CASE i > Len(slots)
      <4>1. ~(i <= Len(slots))
        BY <1>1, <3>2
      <4>2. SlotByte(slots, i, k) = 0
        BY <3>2, <4>1, Zenon DEF SlotByte
      <4>. QED BY <3>1, <4>2
    <3>3. CASE i <= Len(slots)
      <4>1. ~(i > Len(slots)) /\ i \in 1..Len(slots)
        <5>1. PICK l \in Nat : l = Len(slots)
          BY <1>1
        <5>2. i >= 1 /\ i <= l
          BY <3>1, <3>3, <5>1
        <5>3. ~(i > l) /\ i \in 1..l
          BY <5>2
        <5>. QED BY <5>1, <5>3
      <4>2. slots[i].minute \in Nat /\ slots[i].portions \in Nat
        BY <1>1, <4>1, Zenon
      <4>3. slots[i].minute % 256 \in Nat /\ slots[i].minute \div 256 \in Nat
        BY <4>2
      <4>4. k = 0 \/ k = 1 \/ k = 2
        OBVIOUS
      <4>5. SlotByte(slots, i, k) \in {slots[i].minute % 256, slots[i].minute \div 256, slots[i].portions}
        BY <3>3, <4>1, <4>4, SlotBytes
      <4>. QED BY <3>1, <4>2, <4>3, <4>5
    <3>. QED BY <1>1, <3>2, <3>3
  <2>. QED BY <2>1
<1>. HIDE DEF at
<1>4. PICK rest : rest = [j \in 1..n |-> at(j)]
  OBVIOUS
<1>5. rest \in Seq(Nat) /\ Len(rest) = n /\ \A j \in 1..n : rest[j] = at(j)
  <2>1. rest \in [1..n -> Nat]
    BY <1>3, <1>4
  <2>. QED BY <1>4, <2>1, SeqDef, LenProperties
<1>6. PICK body : body = <<Len(slots)>> \o rest
  OBVIOUS
<1>7. /\ body \in Seq(Nat) /\ Len(body) = n + 1 /\ body[1] = Len(slots)
      /\ \A j \in 1..n : body[j + 1] = at(j)
  <2>1. <<Len(slots)>> \in Seq(Nat) /\ Len(<<Len(slots)>>) = 1 /\ <<Len(slots)>>[1] = Len(slots)
    BY <1>1
  <2>2. /\ body \in Seq(Nat) /\ Len(body) = 1 + n
        /\ \A i \in 1..(1 + n) : body[i] = IF i <= 1 THEN Len(slots) ELSE rest[i - 1]
    BY <1>5, <1>6, <2>1, ConcatProperties
  <2>3. ASSUME NEW j \in 1..n PROVE body[j + 1] = at(j)
    <3>1. j + 1 \in 1..(1 + n) /\ ~(j + 1 <= 1) /\ j + 1 - 1 = j
      OBVIOUS
    <3>. QED BY <1>5, <2>2, <3>1
  <2>. QED BY <2>2, <2>3
<1>8. PICK b : b = Sealed(MAGIC.schedule, body)
  OBVIOUS
<1>9. /\ \E S : b \in Seq(S)
      /\ Len(b) = n + 4 /\ b[1] = Byte(MAGIC.schedule) /\ b[2] = Byte(Len(slots)) /\ SealHolds(b)
      /\ \A j \in 1..n : b[j + 2] = Byte(at(j))
  <2>1. MAGIC.schedule \in Nat
    BY DEF MAGIC
  <2>2. /\ \E S : b \in Seq(S)
        /\ Len(b) = Len(body) + 3 /\ b[1] = Byte(MAGIC.schedule) /\ SealHolds(b)
        /\ \A i \in 1..Len(body) : b[i + 1] = Byte(body[i])
    BY <1>7, <1>8, <2>1, SealedIs, Zenon
  <2>3. b[2] = Byte(Len(slots))
    <3>1. 1 \in 1..Len(body) /\ 1 + 1 = 2
      BY <1>7
    <3>2. b[1 + 1] = Byte(body[1])
      BY <2>2, <3>1
    <3>. QED BY <1>7, <3>1, <3>2
  <2>4. ASSUME NEW j \in 1..n PROVE b[j + 2] = Byte(at(j))
    <3>1. j + 1 \in 1..Len(body) /\ j + 1 + 1 = j + 2
      BY <1>7
    <3>2. b[j + 1 + 1] = Byte(body[j + 1])
      BY <2>2, <3>1
    <3>. QED BY <1>7, <3>1, <3>2
  <2>. QED BY <1>7, <2>2, <2>3, <2>4
<1>10. \A m : Byte(m).n = m
  BY DEF Byte
<1>. DEFINE slot(i) == [minute |-> le(<<b[3 * i].n, b[3 * i + 1].n>>), portions |-> b[3 * i + 2].n]
<1>11. ASSUME NEW i \in 1..Len(slots) PROVE slot(i) = slots[i]
  <2>1. i <= SCHEDULE_SLOTS /\ i \in Nat /\ i >= 1 /\ i <= Len(slots) /\ ~(i > Len(slots))
    BY <1>1
  <2>2. /\ 3 * i - 2 \in 1..n /\ 3 * i - 2 + 2 = 3 * i
        /\ 3 * i - 1 \in 1..n /\ 3 * i - 1 + 2 = 3 * i + 1
        /\ 3 * i \in 1..n
    BY <1>1, <1>2, <2>1
  <2>3. /\ (3 * i - 2 - 1) \div 3 + 1 = i /\ (3 * i - 2 - 1) % 3 = 0
        /\ (3 * i - 1 - 1) \div 3 + 1 = i /\ (3 * i - 1 - 1) % 3 = 1
        /\ (3 * i - 1) \div 3 + 1 = i /\ (3 * i - 1) % 3 = 2
    BY <2>1
  <2>4. /\ at(3 * i - 2) = slots[i].minute % 256
        /\ at(3 * i - 1) = slots[i].minute \div 256
        /\ at(3 * i) = slots[i].portions
    <3>1. /\ at(3 * i - 2) = SlotByte(slots, i, 0)
          /\ at(3 * i - 1) = SlotByte(slots, i, 1)
          /\ at(3 * i) = SlotByte(slots, i, 2)
      BY <2>3, Zenon DEF at
    <3>. QED BY <2>1, <3>1, SlotBytes
  <2>5. /\ b[3 * i].n = slots[i].minute % 256
        /\ b[3 * i + 1].n = slots[i].minute \div 256
        /\ b[3 * i + 2].n = slots[i].portions
    BY <1>9, <1>10, <2>2, <2>4
  <2>6. slots[i].minute \in Nat
    BY <1>1, Zenon
  <2>7. le(<<b[3 * i].n, b[3 * i + 1].n>>) = slots[i].minute
    <3>1. (slots[i].minute % 256) + 256 * (slots[i].minute \div 256) = slots[i].minute
      BY <2>6
    <3>2. le(<<b[3 * i].n, b[3 * i + 1].n>>) = b[3 * i].n + 256 * b[3 * i + 1].n
      BY DEF le
    <3>. QED BY <2>5, <3>1, <3>2
  <2>8. slots[i] = [minute |-> slots[i].minute, portions |-> slots[i].portions]
    BY <1>1
  <2>. QED BY <2>5, <2>7, <2>8
<1>12. b[2].n = Len(slots)
  BY <1>9, <1>10
<1>13. ~(\A i \in DOMAIN b : b[i] = FF)
  <2>1. 1 \in DOMAIN b
    BY <1>9, LenProperties
  <2>2. b[1] # FF
    BY <1>9, MagicShows DEF MAGIC
  <2>. QED BY <2>1, <2>2
<1>14. ~\/ b[1] # Byte(MAGIC.schedule) \/ ~SealHolds(b) \/ b[2].n > SCHEDULE_SLOTS
        \/ \E i \in 1..SCHEDULE_SLOTS : i <= b[2].n /\ slot(i).minute >= 24 * 60
  <2>1. ~(b[2].n > SCHEDULE_SLOTS)
    BY <1>1, <1>12
  <2>2. ASSUME NEW i \in 1..SCHEDULE_SLOTS, i <= b[2].n PROVE ~(slot(i).minute >= 24 * 60)
    <3>1. i \in 1..Len(slots)
      BY <1>1, <1>12, <2>2
    <3>2. slot(i) = slots[i]
      BY <1>11, <3>1
    <3>. HIDE DEF slot
    <3>3. PICK m \in 0..(24 * 60 - 1) : m = slots[i].minute
      BY <1>1, <3>1, Zenon
    <3>4. ~(m >= 24 * 60)
      OBVIOUS
    <3>. QED BY <3>2, <3>3, <3>4
  <2>. QED BY <1>9, <2>1, <2>2, Zenon
<1>15. decode_schedule(b) = Stored([i \in 1..b[2].n |-> slot(i)])
  BY <1>13, <1>14, Zenon DEF decode_schedule
<1>16. [i \in 1..b[2].n |-> slot(i)] = slots
  <2>. HIDE DEF slot
  <2>. QED BY <1>1, <1>11, <1>12
<1>17. IsCells(b, RecordLength["schedule"])
  BY <1>1, <1>2, <1>9, Lengths DEF IsCells
<1>18. b = encode_schedule(slots)
  BY <1>2, <1>4, <1>6, <1>8 DEF encode_schedule, at
<1>. QED BY <1>15, <1>16, <1>17, <1>18
\* A text is a sequence of plain bytes, and one of numbers.
LEMMA TextIs ==
  ASSUME NEW text, NEW max, IsText(text, max)
  PROVE  /\ text \in Seq(Nat) /\ text \in Seq(0..127) /\ Len(text) <= max /\ Len(text) \in Nat
<1>1. text \in Seq(0..127) /\ Len(text) <= max
  BY DEF IsText
<1>2. text \in Seq(Nat)
  BY <1>1, SeqMonotonic, 0..127 \subseteq Nat
<1>. QED BY <1>1, <1>2, LenProperties

\* The zone.
LEMMA RoundZone ==
  ASSUME NEW z, IsZone(z)
  PROVE  /\ IsCells(encode_zone(z), RecordLength["zone"])
         /\ decode_zone(encode_zone(z)) = Stored(z)
<1>1. PICK name, rule : name = z.name /\ rule = z.rule
  OBVIOUS
<1>2. /\ z = [name |-> name, rule |-> rule]
      /\ IsText(name, NAME_LEN) /\ name # <<>> /\ IsText(rule, RULE_LEN) /\ rule \in RuleTexts
  BY <1>1 DEF IsZone
<1>3. /\ name \in Seq(Nat) /\ Len(name) \in Nat /\ Len(name) <= NAME_LEN
      /\ rule \in Seq(Nat) /\ Len(rule) \in Nat /\ Len(rule) <= RULE_LEN
      /\ name \in Seq(0..127)
  BY <1>2, TextIs
<1>4. NAME_LEN \in Nat /\ RULE_LEN \in Nat
  BY RecordsAssumption
<1>5. PICK n, r : n = Padded(name, NAME_LEN) /\ r = Padded(rule, RULE_LEN)
  OBVIOUS
<1>6. /\ n \in Seq(Nat) /\ Len(n) = NAME_LEN
      /\ r \in Seq(Nat) /\ Len(r) = RULE_LEN
  BY <1>3, <1>4, <1>5, PaddedIs
<1>7. PICK zn \in Seq(Nat), zr \in Seq(Nat) : n = name \o zn /\ r = rule \o zr
  <2>1. \E zn \in Seq(Nat) : n = name \o zn
    BY <1>3, <1>4, <1>5, PaddedIs
  <2>2. \E zr \in Seq(Nat) : r = rule \o zr
    BY <1>3, <1>4, <1>5, PaddedIs
  <2>. QED BY <2>1, <2>2
<1>8. PICK ln, lr : ln = <<Len(name)>> /\ lr = <<Len(rule)>>
  OBVIOUS
<1>9. /\ ln \in Seq(Nat) /\ Len(ln) = 1 /\ ln[1] = Len(name)
      /\ lr \in Seq(Nat) /\ Len(lr) = 1 /\ lr[1] = Len(rule)
  BY <1>3, <1>8
<1>10. PICK head, most, body : head = ln \o n /\ most = head \o lr /\ body = most \o r
  OBVIOUS
<1>11. /\ head \in Seq(Nat) /\ Len(head) = 1 + NAME_LEN
       /\ most \in Seq(Nat) /\ Len(most) = 2 + NAME_LEN
       /\ body \in Seq(Nat) /\ Len(body) = 2 + NAME_LEN + RULE_LEN
  <2>1. head \in Seq(Nat) /\ Len(head) = 1 + NAME_LEN
    <3>1. head \in Seq(Nat) /\ Len(head) = Len(ln) + Len(n)
      BY <1>6, <1>9, <1>10, BothAre, Zenon
    <3>. QED BY <1>6, <1>9, <3>1
  <2>2. most \in Seq(Nat) /\ Len(most) = 1 + NAME_LEN + 1
    BY <1>9, <1>10, <2>1, BothAre
  <2>3. body \in Seq(Nat) /\ Len(body) = 1 + NAME_LEN + 1 + RULE_LEN
    BY <1>6, <1>10, <2>2, BothAre
  <2>. QED BY <1>4, <2>1, <2>2, <2>3
<1>12. PICK b : b = Sealed(MAGIC.zone, body)
  OBVIOUS
<1>13. /\ \E S : b \in Seq(S)
       /\ Len(b) = Len(body) + 3 /\ b[1] = Byte(MAGIC.zone) /\ SealHolds(b)
       /\ \A i \in 1..Len(body) : b[i + 1] = Byte(body[i])
  <2>1. MAGIC.zone \in Nat
    BY DEF MAGIC
  <2>. QED BY <1>11, <1>12, <2>1, SealedIs, Zenon
<1>14. Holds(b, 2, body)
  <2>1. ASSUME NEW i \in 1..Len(body) PROVE b[2 - 1 + i] = Byte(body[i])
    <3>1. 2 - 1 + i = i + 1
      BY <1>4, <1>11
    <3>. QED BY <1>13, <3>1
  <2>. QED BY <2>1 DEF Holds
<1>15. PICK at \in Nat : at = 3 + NAME_LEN
  BY <1>4
<1>16. /\ Holds(b, 2, ln) /\ Holds(b, 3, name)
       /\ Holds(b, at, lr) /\ Holds(b, at + 1, rule)
  <2>1. Holds(b, 2, most) /\ Holds(b, 2 + Len(most), r)
    BY <1>6, <1>10, <1>11, <1>14, HoldsBoth, 2 \in Nat
  <2>2. Holds(b, 2, head) /\ Holds(b, 2 + Len(head), lr)
    BY <1>9, <1>10, <1>11, <2>1, HoldsBoth, 2 \in Nat
  <2>3. Holds(b, 2, ln) /\ Holds(b, 2 + Len(ln), n)
    BY <1>6, <1>9, <1>10, <2>2, HoldsBoth, 2 \in Nat
  <2>4. 2 + Len(ln) = 3 /\ 2 + Len(head) = at /\ 2 + Len(most) = at + 1
    BY <1>4, <1>9, <1>11, <1>15
  <2>5. Holds(b, 3, name)
    BY <1>3, <1>7, <2>3, <2>4, HoldsBoth, 3 \in Nat
  <2>6. Holds(b, at + 1, rule)
    BY <1>3, <1>7, <2>1, <2>4, HoldsBoth, at + 1 \in Nat
  <2>. QED BY <2>2, <2>3, <2>4, <2>5, <2>6
<1>17. \A m : Byte(m).n = m
  BY DEF Byte
<1>18. b[2].n = Len(name) /\ b[at].n = Len(rule)
  <2>1. \A x : Holds(b, x, ln) => b[x - 1 + 1] = Byte(Len(name))
    BY <1>9 DEF Holds
  <2>2. \A x : Holds(b, x, lr) => b[x - 1 + 1] = Byte(Len(rule))
    BY <1>9 DEF Holds
  <2>3. 2 - 1 + 1 = 2 /\ at - 1 + 1 = at
    OBVIOUS
  <2>. QED BY <1>16, <1>17, <2>1, <2>2, <2>3
<1>19. /\ SubSeq(b, 2 + 1, 2 + b[2].n) = Bytes(name)
       /\ SubSeq(b, at + 1, at + b[at].n) = Bytes(rule)
  <2>1. Holds(b, 2 + 1, name)
    BY <1>16
  <2>2. SubSeq(b, 2 + 1, 2 + Len(name)) = Bytes(name)
    BY <1>3, <2>1, ReadOut, 2 \in Nat
  <2>3. SubSeq(b, at + 1, at + Len(rule)) = Bytes(rule)
    BY <1>3, <1>16, ReadOut
  <2>. QED BY <1>18, <2>2, <2>3
<1>. DEFINE text(from) == SubSeq(b, from + 1, from + b[from].n)
<1>20. Plain(text(2)) = name /\ utf8(text(2)) /\ Plain(text(at)) = rule
  BY <1>3, <1>19, PlainBack
<1>21. ~\/ ~SealHolds(b) \/ b[2].n > NAME_LEN \/ b[at].n > RULE_LEN
        \/ b[2].n = 0 \/ ~utf8(text(2)) \/ Plain(text(at)) \notin RuleTexts
  <2>1. Len(name) # 0
    BY <1>2, <1>3, EmptySeq
  <2>2. ~(b[2].n > NAME_LEN) /\ ~(b[at].n > RULE_LEN) /\ b[2].n # 0
    BY <1>3, <1>4, <1>18, <2>1
  <2>. QED BY <1>2, <1>13, <1>20, <2>2, Zenon
<1>22. decode_zone(b) = Stored([name |-> Plain(text(2)), rule |-> Plain(text(at))])
  <2>1. at = 3 + NAME_LEN /\ b[1] = Byte(MAGIC.zone)
    BY <1>13, <1>15
  <2>. QED BY <1>21, <2>1, Zenon DEF decode_zone
<1>23. IsCells(b, RecordLength["zone"])
  <2>1. Len(b) = RecordLength["zone"]
    BY <1>4, <1>11, <1>13, Lengths
  <2>. QED BY <1>13, <2>1 DEF IsCells
<1>24. b = encode_zone(z)
  BY <1>1, <1>5, <1>8, <1>10, <1>12 DEF encode_zone
<1>. QED BY <1>2, <1>20, <1>22, <1>23, <1>24
-----------------------------------------------------------------------------
(***************************************************************************)
(* The credentials, field by field.                                        *)
(***************************************************************************)
Taken(at, fields) == [ok |-> TRUE, at |-> at, fields |-> fields]

\* The numbers ns are at place at of the cells b, which do not end before them.
Fits(b, at, ns) == Holds(b, at, ns) /\ at + Len(ns) <= Len(b) + 1

\* What fits, with what follows it: both fit, one after the other.
LEMMA FitsBoth ==
  ASSUME NEW b, Len(b) \in Nat, NEW at \in Nat, NEW s \in Seq(Nat), NEW t \in Seq(Nat),
         Fits(b, at, s \o t)
  PROVE  /\ Fits(b, at, s) /\ Fits(b, at + Len(s), t)
         /\ at + Len(s) \in Nat /\ at + Len(s) + Len(t) = at + Len(s \o t)
<1>1. Len(s) \in Nat /\ Len(t) \in Nat /\ Len(s \o t) = Len(s) + Len(t)
  BY BothAre, LenProperties
<1>2. Holds(b, at, s) /\ Holds(b, at + Len(s), t)
  BY HoldsBoth DEF Fits
<1>. QED BY <1>1, <1>2 DEF Fits

\* A text with its length.
LEMMA PutStr ==
  ASSUME NEW text \in Seq(Nat)
  PROVE  put_str(text) \in Seq(Nat) /\ Len(put_str(text)) = 1 + Len(text)
<1>1. Len(text) \in Nat
  BY LenProperties
<1>2. <<Len(text)>> \in Seq(Nat) /\ Len(<<Len(text)>>) = 1
  BY <1>1
<1>. QED BY <1>2, BothAre DEF put_str

\* take_str takes what put_str put.
LEMMA TakeStr ==
  ASSUME NEW b, Len(b) \in Nat, NEW at \in Nat, at >= 1, NEW fields,
         NEW text, NEW max \in Nat, IsText(text, max), Fits(b, at, put_str(text))
  PROVE  take_str(b, Taken(at, fields), max)
           = Taken(at + Len(put_str(text)), Append(fields, text))
<1>1. text \in Seq(Nat) /\ text \in Seq(0..127) /\ Len(text) \in Nat /\ Len(text) <= max
  BY TextIs
<1>2. PICK l : l = <<Len(text)>>
  OBVIOUS
<1>3. l \in Seq(Nat) /\ Len(l) = 1 /\ l[1] = Len(text)
  BY <1>1, <1>2
<1>4. Holds(b, at, l) /\ Holds(b, at + 1, text)
  <2>1. Holds(b, at, l \o text)
    BY <1>2 DEF Fits, put_str
  <2>. QED BY <1>1, <1>3, <2>1, HoldsBoth
<1>5. b[at].n = Len(text)
  <2>1. b[at - 1 + 1] = Byte(l[1])
    BY <1>3, <1>4 DEF Holds
  <2>2. at - 1 + 1 = at
    OBVIOUS
  <2>3. \A n : Byte(n).n = n
    BY DEF Byte
  <2>. QED BY <1>3, <2>1, <2>2, <2>3
<1>6. SubSeq(b, at + 1, at + b[at].n) = Bytes(text)
  BY <1>1, <1>4, <1>5, ReadOut
<1>7. Plain(Bytes(text)) = text /\ utf8(Bytes(text)) /\ Len(Bytes(text)) = Len(text)
  BY <1>1, PlainBack, BytesAre
<1>8. /\ Len(put_str(text)) = 1 + Len(text)
      /\ ~(at > Len(b)) /\ at <= Len(b) /\ ~(b[at].n > max) /\ ~(at + b[at].n > Len(b))
  <2>1. Len(put_str(text)) = 1 + Len(text)
    BY <1>1, PutStr
  <2>2. at + (1 + Len(text)) <= Len(b) + 1
    BY <2>1 DEF Fits
  <2>. QED BY <1>1, <1>5, <2>1, <2>2
<1>9. PICK t : t = Taken(at, fields)
  OBVIOUS
<1>10. t.ok = TRUE /\ t.at = at /\ t.fields = fields
  BY <1>9 DEF Taken
<1>11. take_str(b, t, max)
         = [ok |-> TRUE, at |-> at + 1 + Len(Bytes(text)), fields |-> Append(fields, text)]
  <2>1. at <= Len(b) /\ (b[at].n <= max => at + b[at].n <= Len(b))
    BY <1>1, <1>5, <1>8
  <2>2. str_at(b, at, max) = Stored(Bytes(text))
    BY <1>6, <1>7, <1>8, <2>1, Zenon DEF str_at
  <2>3. PICK raw : raw = str_at(b, at, max)
    OBVIOUS
  <2>4. raw.ok = TRUE /\ raw.v = Bytes(text)
    BY <2>2, <2>3 DEF Stored
  <2>5. take_str(b, t, max)
          = [ok |-> TRUE, at |-> t.at + 1 + Len(raw.v), fields |-> Append(t.fields, Plain(raw.v))]
    BY <1>10, <2>3, <2>4, Zenon DEF take_str
  <2>. QED BY <1>7, <1>10, <2>4, <2>5
<1>12. at + 1 + Len(Bytes(text)) = at + Len(put_str(text))
  <2>1. PICK k \in Nat : k = Len(text)
    BY <1>1
  <2>2. Len(Bytes(text)) = k /\ Len(put_str(text)) = 1 + k
    BY <1>7, <1>8, <2>1
  <2>3. at + 1 + k = at + (1 + k)
    OBVIOUS
  <2>. QED BY <2>2, <2>3
<1>. QED BY <1>9, <1>11, <1>12 DEF Taken

\* take_u16 takes the two bytes.
LEMMA TakeU16 ==
  ASSUME NEW b, Len(b) \in Nat, NEW at \in Nat, at >= 1, NEW fields,
         NEW ns, IsU16(ns), Fits(b, at, ns)
  PROVE  take_u16(b, Taken(at, fields)) = Taken(at + Len(ns), Append(fields, ns))
<1>1. ns \in Seq(Nat) /\ Len(ns) = 2
  BY SeqMonotonic, 0..255 \subseteq Nat DEF IsU16
<1>2. PICK p \in Nat : p = at - 1
  OBVIOUS
<1>3. p + 1 = at /\ p + 2 = at + 1
  BY <1>2
<1>4. SubSeq(b, at, at + 1) = Bytes(ns)
  <2>1. SubSeq(b, p + 1, p + Len(ns)) = Bytes(ns)
    BY <1>1, <1>3, ReadOut DEF Fits
  <2>. QED BY <1>1, <1>3, <2>1
<1>5. Plain(Bytes(ns)) = ns
  BY <1>1, PlainBack
<1>6. ~(at + 1 > Len(b))
  BY <1>1 DEF Fits
<1>7. PICK t : t = Taken(at, fields)
  OBVIOUS
<1>8. t.ok = TRUE /\ t.at = at /\ t.fields = fields
  BY <1>7 DEF Taken
<1>9. take_u16(b, t) = [ok |-> TRUE, at |-> at + 2, fields |-> Append(fields, ns)]
  BY <1>4, <1>5, <1>6, <1>8, Zenon DEF take_u16
<1>. QED BY <1>1, <1>7, <1>9 DEF Taken

\* The first k fields of r have been taken, up to where the cells b hold the rest.
Begins(fields, r, k) ==
  fields \in Seq(Seq(Nat)) /\ Len(fields) = k /\ \A i \in 1..k : fields[i] = r[i]
Reached(t, b, r, k, rest, end) ==
  \E at, fields :
    /\ at \in Nat /\ t = Taken(at, fields) /\ Begins(fields, r, k)
    /\ at >= 1 /\ Fits(b, at, rest) /\ at + Len(rest) = end

\* One more field has been taken.
LEMMA OneMore ==
  ASSUME NEW fields, NEW r, NEW k \in Nat, NEW n, n = k + 1, Begins(fields, r, k), r[n] \in Seq(Nat)
  PROVE  Begins(Append(fields, r[n]), r, n)
<1>1. fields \in Seq(Seq(Nat)) /\ Len(fields) = k /\ \A i \in 1..k : fields[i] = r[i]
  BY DEF Begins
<1>2. PICK more : more = Append(fields, r[n])
  OBVIOUS
<1>3. /\ more \in Seq(Seq(Nat)) /\ Len(more) = Len(fields) + 1
      /\ \A i \in 1..Len(fields) : more[i] = fields[i]
      /\ more[Len(fields) + 1] = r[n]
  BY <1>1, <1>2, AppendProperties
<1>4. ASSUME NEW i \in 1..n PROVE more[i] = r[i]
  <2>1. CASE i = n
    BY <1>1, <1>3, <2>1
  <2>2. CASE i # n
    <3>1. i \in 1..k
      BY <2>2
    <3>. QED BY <1>1, <1>3, <3>1
  <2>. QED BY <2>1, <2>2
<1>. QED BY <1>1, <1>2, <1>3, <1>4 DEF Begins

\* A text among what follows it.
LEMMA StrAmong ==
  ASSUME NEW b, Len(b) \in Nat, NEW r, NEW k \in Nat, NEW n, n = k + 1, NEW end, NEW t,
         NEW max \in Nat, IsText(r[n], max), NEW rest \in Seq(Nat),
         Reached(t, b, r, k, put_str(r[n]) \o rest, end)
  PROVE  Reached(take_str(b, t, max), b, r, n, rest, end)
<1>1. PICK put, all : put = put_str(r[n]) /\ all = put \o rest
  OBVIOUS
<1>2. PICK at, fields :
        /\ at \in Nat /\ t = Taken(at, fields) /\ Begins(fields, r, k)
        /\ at >= 1 /\ Fits(b, at, all) /\ at + Len(all) = end
  BY <1>1 DEF Reached
<1>3. r[n] \in Seq(Nat)
  BY TextIs
<1>4. put \in Seq(Nat) /\ Len(put) \in Nat
  BY <1>1, <1>3, PutStr, LenProperties
<1>5. PICK next : next = at + Len(put)
  OBVIOUS
<1>6. /\ Fits(b, at, put) /\ Fits(b, next, rest)
      /\ next \in Nat /\ next + Len(rest) = at + Len(all)
  BY <1>1, <1>2, <1>4, <1>5, FitsBoth
<1>7. take_str(b, t, max) = Taken(next, Append(fields, r[n]))
  BY <1>1, <1>2, <1>5, <1>6, TakeStr
<1>8. Begins(Append(fields, r[n]), r, n)
  BY <1>2, <1>3, OneMore
<1>9. next >= 1 /\ next + Len(rest) = end
  BY <1>2, <1>4, <1>5, <1>6
<1>. QED BY <1>6, <1>7, <1>8, <1>9 DEF Reached

\* A number of two bytes.
LEMMA U16Is ==
  ASSUME NEW ns, IsU16(ns)
  PROVE  ns \in Seq(Nat) /\ Len(ns) = 2
<1>1. ns \in Seq(0..255) /\ Len(ns) = 2
  BY DEF IsU16
<1>2. ns \in Seq(Nat)
  BY <1>1, SeqMonotonic, 0..255 \subseteq Nat
<1>. QED BY <1>1, <1>2

\* The same of a number of two bytes.
LEMMA U16Among ==
  ASSUME NEW b, Len(b) \in Nat, NEW r, NEW k \in Nat, NEW n, n = k + 1, NEW end, NEW t,
         IsU16(r[n]), NEW rest \in Seq(Nat), Reached(t, b, r, k, r[n] \o rest, end)
  PROVE  Reached(take_u16(b, t), b, r, n, rest, end)
<1>1. PICK put, all : put = r[n] /\ all = put \o rest
  OBVIOUS
<1>2. PICK at, fields :
        /\ at \in Nat /\ t = Taken(at, fields) /\ Begins(fields, r, k)
        /\ at >= 1 /\ Fits(b, at, all) /\ at + Len(all) = end
  BY <1>1 DEF Reached
<1>3. r[n] \in Seq(Nat) /\ Len(r[n]) = 2
  BY U16Is
<1>4. put \in Seq(Nat) /\ Len(put) \in Nat
  BY <1>1, <1>3
<1>5. PICK next : next = at + Len(put)
  OBVIOUS
<1>6. /\ Fits(b, at, put) /\ Fits(b, next, rest)
      /\ next \in Nat /\ next + Len(rest) = at + Len(all)
  <2>1. Fits(b, at, put \o rest)
    BY <1>1, <1>2
  <2>2. /\ Fits(b, at, put) /\ Fits(b, at + Len(put), rest)
        /\ at + Len(put) \in Nat /\ at + Len(put) + Len(rest) = at + Len(put \o rest)
    BY <1>2, <1>4, <2>1, FitsBoth
  <2>. QED BY <1>1, <1>5, <2>2
<1>7. take_u16(b, t) = Taken(next, Append(fields, r[n]))
  <2>1. IsU16(put) /\ Fits(b, at, put) /\ at >= 1
    BY <1>1, <1>2, <1>6
  <2>2. take_u16(b, Taken(at, fields)) = Taken(at + Len(put), Append(fields, put))
    BY <1>2, <2>1, TakeU16
  <2>. QED BY <1>1, <1>2, <1>5, <2>2
<1>8. Begins(Append(fields, r[n]), r, n)
  BY <1>2, <1>3, OneMore
<1>9. next >= 1 /\ next + Len(rest) = end
  BY <1>2, <1>4, <1>5, <1>6
<1>. QED BY <1>6, <1>7, <1>8, <1>9 DEF Reached

\* What a record is made of.
LEMMA RecordIs ==
  ASSUME NEW r, IsRecord(r)
  PROVE  /\ put_str(r[1]) \in Seq(Nat) /\ put_str(r[2]) \in Seq(Nat) /\ put_str(r[3]) \in Seq(Nat)
         /\ r[4] \in Seq(Nat) /\ put_str(r[5]) \in Seq(Nat) /\ put_str(r[6]) \in Seq(Nat)
         /\ r[7] \in Seq(Nat) /\ r[8] \in Seq(Nat)
         /\ r = <<r[1], r[2], r[3], r[4], r[5], r[6], r[7], r[8]>>
<1>1. r[1] \in Seq(Nat) /\ r[2] \in Seq(Nat) /\ r[3] \in Seq(Nat) /\ r[5] \in Seq(Nat) /\ r[6] \in Seq(Nat)
  BY TextIs DEF IsRecord
<1>2. r[4] \in Seq(Nat) /\ r[7] \in Seq(Nat) /\ r[8] \in Seq(Nat)
  BY SeqMonotonic, 0..255 \subseteq Nat DEF IsRecord, IsU16
<1>3. r = <<r[1], r[2], r[3], r[4], r[5], r[6], r[7], r[8]>>
  BY DEF IsRecord
<1>. QED BY <1>1, <1>2, <1>3, PutStr

\* What follows a field.
After6(r) == r[7] \o r[8]
After5(r) == put_str(r[6]) \o After6(r)
After4(r) == put_str(r[5]) \o After5(r)
After3(r) == r[4] \o After4(r)
After2(r) == put_str(r[3]) \o After3(r)
After1(r) == put_str(r[2]) \o After2(r)

\* The fields follow one another.
LEMMA FieldsFollow ==
  ASSUME NEW r, IsRecord(r)
  PROVE  /\ After6(r) \in Seq(Nat) /\ Len(After6(r)) = Len(r[7]) + Len(r[8])
         /\ After5(r) \in Seq(Nat) /\ Len(After5(r)) = Len(put_str(r[6])) + Len(After6(r))
         /\ After4(r) \in Seq(Nat) /\ Len(After4(r)) = Len(put_str(r[5])) + Len(After5(r))
         /\ After3(r) \in Seq(Nat) /\ Len(After3(r)) = Len(r[4]) + Len(After4(r))
         /\ After2(r) \in Seq(Nat) /\ Len(After2(r)) = Len(put_str(r[3])) + Len(After3(r))
         /\ After1(r) \in Seq(Nat) /\ Len(After1(r)) = Len(put_str(r[2])) + Len(After2(r))
         /\ Fields(r) = put_str(r[1]) \o After1(r)
         /\ Fields(r) \in Seq(Nat) /\ Len(Fields(r)) = Len(put_str(r[1])) + Len(After1(r))
<1>1. /\ put_str(r[1]) \in Seq(Nat) /\ put_str(r[2]) \in Seq(Nat) /\ put_str(r[3]) \in Seq(Nat)
      /\ r[4] \in Seq(Nat) /\ put_str(r[5]) \in Seq(Nat) /\ put_str(r[6]) \in Seq(Nat)
      /\ r[7] \in Seq(Nat) /\ r[8] \in Seq(Nat)
  BY RecordIs
<1>2. After6(r) \in Seq(Nat) /\ Len(After6(r)) = Len(r[7]) + Len(r[8])
  BY <1>1, BothAre, Zenon DEF After6
<1>3. After5(r) \in Seq(Nat) /\ Len(After5(r)) = Len(put_str(r[6])) + Len(After6(r))
  BY <1>1, <1>2, BothAre, Zenon DEF After5
<1>4. After4(r) \in Seq(Nat) /\ Len(After4(r)) = Len(put_str(r[5])) + Len(After5(r))
  BY <1>1, <1>3, BothAre, Zenon DEF After4
<1>5. After3(r) \in Seq(Nat) /\ Len(After3(r)) = Len(r[4]) + Len(After4(r))
  BY <1>1, <1>4, BothAre, Zenon DEF After3
<1>6. After2(r) \in Seq(Nat) /\ Len(After2(r)) = Len(put_str(r[3])) + Len(After3(r))
  BY <1>1, <1>5, BothAre, Zenon DEF After2
<1>7. After1(r) \in Seq(Nat) /\ Len(After1(r)) = Len(put_str(r[2])) + Len(After2(r))
  BY <1>1, <1>6, BothAre, Zenon DEF After1
<1>8. Fields(r) = put_str(r[1]) \o After1(r)
  BY DEF Fields, After1, After2, After3, After4, After5, After6
<1>9. Fields(r) \in Seq(Nat) /\ Len(Fields(r)) = Len(put_str(r[1])) + Len(After1(r))
  BY <1>1, <1>7, <1>8, BothAre, Zenon
<1>. QED BY <1>2, <1>3, <1>4, <1>5, <1>6, <1>7, <1>8, <1>9, Zenon

\* What has been written is all taken, and nothing past it.
LEMMA TakeFields ==
  ASSUME NEW r, IsRecord(r), NEW b, Len(b) \in Nat, Fits(b, 1, Fields(r))
  PROVE  take_fields(b) = Taken(1 + Len(Fields(r)), r)
<1>1. PICK t7, t6, t5, t4, t3, t2 :
        /\ t7 = After6(r) /\ t6 = After5(r) /\ t5 = After4(r)
        /\ t4 = After3(r) /\ t3 = After2(r) /\ t2 = After1(r)
  OBVIOUS
<1>1a. /\ t7 \in Seq(Nat) /\ t6 \in Seq(Nat) /\ t5 \in Seq(Nat)
      /\ t4 \in Seq(Nat) /\ t3 \in Seq(Nat) /\ t2 \in Seq(Nat)
      /\ Fields(r) = put_str(r[1]) \o t2
  BY <1>1, FieldsFollow
<1>1b. /\ t7 = r[7] \o r[8] /\ t6 = put_str(r[6]) \o t7 /\ t5 = put_str(r[5]) \o t6
       /\ t4 = r[4] \o t5 /\ t3 = put_str(r[3]) \o t4 /\ t2 = put_str(r[2]) \o t3
  BY <1>1 DEF After1, After2, After3, After4, After5, After6
<1>2. r[8] \in Seq(Nat)
  BY RecordIs
<1>3. /\ r[8] \o <<>> \in Seq(Nat) /\ r[8] \o <<>> = r[8]
      /\ t7 = r[7] \o (r[8] \o <<>>)
  <2>1. r[8] \o <<>> = r[8]
    BY <1>2, ConcatEmptySeq
  <2>. QED BY <1>1b, <1>2, <2>1
<1>4. /\ r[8] \o <<>> \in Seq(Nat) /\ t7 \in Seq(Nat) /\ t6 \in Seq(Nat) /\ t5 \in Seq(Nat)
      /\ t4 \in Seq(Nat) /\ t3 \in Seq(Nat) /\ t2 \in Seq(Nat)
  BY <1>1a, <1>3
<1>5. /\ SSID_LEN \in Nat /\ PASSWORD_LEN \in Nat /\ HOST_LEN \in Nat /\ USER_LEN \in Nat
      /\ IsText(r[1], SSID_LEN) /\ IsText(r[2], PASSWORD_LEN) /\ IsText(r[3], HOST_LEN)
      /\ IsU16(r[4]) /\ IsText(r[5], USER_LEN) /\ IsText(r[6], PASSWORD_LEN)
      /\ IsU16(r[7]) /\ IsU16(r[8])
  BY RecordsAssumption DEF IsRecord
<1>6. PICK end : end = 1 + Len(Fields(r))
  OBVIOUS
<1>7. PICK k0 : k0 = Taken(1, <<>>)
  OBVIOUS
<1>8. Reached(k0, b, r, 0, Fields(r), end)
  <2>1. Begins(<<>>, r, 0)
    BY EmptySeq DEF Begins
  <2>. QED BY <1>6, <1>7, <2>1, 1 \in Nat DEF Reached
<1>9. PICK k1 : k1 = take_str(b, k0, SSID_LEN)
  OBVIOUS
<1>10. Reached(k1, b, r, 1, t2, end)
  <2>1. Reached(k0, b, r, 0, put_str(r[1]) \o t2, end)
    BY <1>1a, <1>1b, <1>3, <1>8, Zenon
  <2>3. 1 = 0 + 1 /\ 0 \in Nat
    OBVIOUS
  <2>2. t2 \in Seq(Nat) /\ IsText(r[1], SSID_LEN) /\ SSID_LEN \in Nat
    BY <1>5, <1>4
  <2>. QED BY <1>9, <2>3, <2>1, <2>2, StrAmong, Zenon
<1>11. PICK k2 : k2 = take_str(b, k1, PASSWORD_LEN)
  OBVIOUS
<1>12. Reached(k2, b, r, 2, t3, end)
  <2>1. Reached(k1, b, r, 1, put_str(r[2]) \o t3, end)
    BY <1>1a, <1>1b, <1>3, <1>10, Zenon
  <2>3. 2 = 1 + 1 /\ 1 \in Nat
    OBVIOUS
  <2>2. t3 \in Seq(Nat) /\ IsText(r[2], PASSWORD_LEN) /\ PASSWORD_LEN \in Nat
    BY <1>5, <1>4
  <2>. QED BY <1>11, <2>3, <2>1, <2>2, StrAmong, Zenon
<1>13. PICK k3 : k3 = take_str(b, k2, HOST_LEN)
  OBVIOUS
<1>14. Reached(k3, b, r, 3, t4, end)
  <2>1. Reached(k2, b, r, 2, put_str(r[3]) \o t4, end)
    BY <1>1a, <1>1b, <1>3, <1>12, Zenon
  <2>3. 3 = 2 + 1 /\ 2 \in Nat
    OBVIOUS
  <2>2. t4 \in Seq(Nat) /\ IsText(r[3], HOST_LEN) /\ HOST_LEN \in Nat
    BY <1>5, <1>4
  <2>. QED BY <1>13, <2>3, <2>1, <2>2, StrAmong, Zenon
<1>15. PICK k4 : k4 = take_u16(b, k3)
  OBVIOUS
<1>16. Reached(k4, b, r, 4, t5, end)
  <2>1. Reached(k3, b, r, 3, r[4] \o t5, end)
    BY <1>1a, <1>1b, <1>3, <1>14, Zenon
  <2>3. 4 = 3 + 1 /\ 3 \in Nat
    OBVIOUS
  <2>2. t5 \in Seq(Nat) /\ IsU16(r[4])
    BY <1>5, <1>4
  <2>. QED BY <1>15, <2>3, <2>1, <2>2, U16Among, Zenon
<1>17. PICK k5 : k5 = take_str(b, k4, USER_LEN)
  OBVIOUS
<1>18. Reached(k5, b, r, 5, t6, end)
  <2>1. Reached(k4, b, r, 4, put_str(r[5]) \o t6, end)
    BY <1>1a, <1>1b, <1>3, <1>16, Zenon
  <2>3. 5 = 4 + 1 /\ 4 \in Nat
    OBVIOUS
  <2>2. t6 \in Seq(Nat) /\ IsText(r[5], USER_LEN) /\ USER_LEN \in Nat
    BY <1>5, <1>4
  <2>. QED BY <1>17, <2>3, <2>1, <2>2, StrAmong, Zenon
<1>19. PICK k6 : k6 = take_str(b, k5, PASSWORD_LEN)
  OBVIOUS
<1>20. Reached(k6, b, r, 6, t7, end)
  <2>1. Reached(k5, b, r, 5, put_str(r[6]) \o t7, end)
    BY <1>1a, <1>1b, <1>3, <1>18, Zenon
  <2>3. 6 = 5 + 1 /\ 5 \in Nat
    OBVIOUS
  <2>2. t7 \in Seq(Nat) /\ IsText(r[6], PASSWORD_LEN) /\ PASSWORD_LEN \in Nat
    BY <1>5, <1>4
  <2>. QED BY <1>19, <2>3, <2>1, <2>2, StrAmong, Zenon
<1>21. PICK k7 : k7 = take_u16(b, k6)
  OBVIOUS
<1>22. Reached(k7, b, r, 7, (r[8] \o <<>>), end)
  <2>1. Reached(k6, b, r, 6, r[7] \o (r[8] \o <<>>), end)
    BY <1>1a, <1>1b, <1>3, <1>20, Zenon
  <2>3. 7 = 6 + 1 /\ 6 \in Nat
    OBVIOUS
  <2>2. (r[8] \o <<>>) \in Seq(Nat) /\ IsU16(r[7])
    BY <1>5, <1>4
  <2>. QED BY <1>21, <2>3, <2>1, <2>2, U16Among, Zenon
<1>23. PICK k8 : k8 = take_u16(b, k7)
  OBVIOUS
<1>24. Reached(k8, b, r, 8, <<>>, end)
  <2>1. Reached(k7, b, r, 7, r[8] \o <<>>, end)
    BY <1>1a, <1>1b, <1>3, <1>22, Zenon
  <2>3. 8 = 7 + 1 /\ 7 \in Nat
    OBVIOUS
  <2>2. <<>> \in Seq(Nat) /\ IsU16(r[8])
    BY <1>5, EmptySeq
  <2>. QED BY <1>23, <2>3, <2>1, <2>2, U16Among, Zenon
<1>25. k8 = Taken(end, r)
  <2>1. PICK at, fields :
            /\ at \in Nat /\ k8 = Taken(at, fields)
            /\ Begins(fields, r, 8) /\ at + Len(<<>>) = end
    BY <1>24 DEF Reached
  <2>2. at = end
    BY <2>1
  <2>3. fields \in Seq(Seq(Nat)) /\ Len(fields) = 8 /\ \A i \in 1..8 : fields[i] = r[i]
    BY <2>1 DEF Begins
  <2>4. r \in Seq(Seq(Nat)) /\ Len(r) = 8
    <3>1. Seq(0..255) \subseteq Seq(Nat)
      BY SeqMonotonic, 0..255 \subseteq Nat
    <3>. QED BY <3>1, SeqMonotonic DEF IsRecord
  <2>5. fields = r
    BY <2>3, <2>4, SeqEqual
  <2>. QED BY <2>1, <2>2, <2>5
<1>26. take_fields(b) = k8
  <2>1. k0 = [ok |-> TRUE, at |-> 1, fields |-> <<>>]
    BY <1>7 DEF Taken
  <2>. QED BY <2>1, <1>9, <1>11, <1>13, <1>15, <1>17, <1>19, <1>21, <1>23 DEF take_fields
<1>. QED BY <1>6, <1>25, <1>26

\* Of what can be taken, the place it ends at is one.
LEMMA TakenIsSound ==
  ASSUME NEW b, Len(b) \in Nat, \A i \in 1..Len(b) : b[i].n \in Nat
  PROVE  take_fields(b).ok => take_fields(b).at \in Nat /\ take_fields(b).at >= 1
<1>. DEFINE Sound(t) == t.ok => t.at \in Nat /\ t.at >= 1
<1>1. \A e : ~Unread(e).ok
  BY DEF Unread
<1>2. ASSUME NEW t, Sound(t), NEW max PROVE Sound(take_str(b, t, max))
  <2>1. PICK raw : raw = str_at(b, t.at, max)
    OBVIOUS
  <2>2. PICK at : at = t.at
    OBVIOUS
  <2>3. ASSUME t.ok, raw.ok PROVE Len(raw.v) \in Nat
    <3>1. at \in Nat /\ at >= 1
      BY <1>2, <2>2, <2>3
    <3>2. at <= Len(b) /\ raw = Stored(SubSeq(b, at + 1, at + b[at].n))
      <4>. DEFINE inside == at <= Len(b) /\ (b[at].n <= max => at + b[at].n <= Len(b))
      <4>1. CASE ~inside
        BY <1>1, <2>1, <2>2, <2>3, <4>1, Zenon DEF str_at
      <4>2. CASE inside /\ b[at].n > max
        BY <1>1, <2>1, <2>2, <2>3, <4>2, Zenon DEF str_at
      <4>3. CASE inside /\ ~(b[at].n > max)
        BY <1>1, <2>1, <2>2, <2>3, <4>3, Zenon DEF str_at
      <4>. QED BY <4>1, <4>2, <4>3
    <3>3. at \in 1..Len(b)
      BY <3>1, <3>2
    <3>4. b[at].n \in Nat
      BY <3>3
    <3>5. PICK p \in Int, q \in Int : p = at + 1 /\ q = at + b[at].n
      BY <3>1, <3>4
    <3>6. Len(SubSeq(b, p, q)) = IF p <= q THEN q - p + 1 ELSE 0
      <4>. DEFINE S == {b[i] : i \in p..q}
      <4>1. \A i \in p..q : b[i] \in S
        OBVIOUS
      <4>. HIDE DEF S
      <4>. QED BY <4>1, SubSeqProperties
    <3>7. Len(SubSeq(b, p, q)) \in Nat
      BY <3>6
    <3>. QED BY <3>2, <3>5, <3>7 DEF Stored
  <2>4. CASE ~t.ok
    BY <1>2, <2>4, Zenon DEF take_str
  <2>5. CASE t.ok /\ ~raw.ok
    BY <2>1, <2>5, Zenon DEF take_str
  <2>6. CASE t.ok /\ raw.ok
    <3>1. take_str(b, t, max)
            = [ok |-> TRUE, at |-> at + 1 + Len(raw.v), fields |-> Append(t.fields, Plain(raw.v))]
      BY <2>1, <2>2, <2>6, Zenon DEF take_str
    <3>2. take_str(b, t, max).at = at + 1 + Len(raw.v)
      BY <3>1
    <3>3. at \in Nat /\ at >= 1 /\ Len(raw.v) \in Nat
      BY <1>2, <2>2, <2>3, <2>6
    <3>4. PICK l \in Nat : l = Len(raw.v)
      BY <3>3
    <3>5. at + 1 + l \in Nat /\ at + 1 + l >= 1
      BY <3>3
    <3>. QED BY <3>2, <3>4, <3>5
  <2>. QED BY <2>4, <2>5, <2>6
<1>3. ASSUME NEW t, Sound(t) PROVE Sound(take_u16(b, t))
  <2>1. CASE ~t.ok
    BY <1>3, <2>1, Zenon DEF take_u16
  <2>2. CASE t.ok /\ t.at + 1 > Len(b)
    BY <1>1, <2>2, Zenon DEF take_u16
  <2>3. CASE t.ok /\ ~(t.at + 1 > Len(b))
    <3>1. take_u16(b, t) = [ok |-> TRUE, at |-> t.at + 2,
                            fields |-> Append(t.fields, Plain(SubSeq(b, t.at, t.at + 1)))]
      BY <2>3, Zenon DEF take_u16
    <3>2. take_u16(b, t).at = t.at + 2
      BY <3>1
    <3>. QED BY <1>3, <2>3, <3>2
  <2>. QED BY <2>1, <2>2, <2>3
<1>4. Sound([ok |-> TRUE, at |-> 1, fields |-> <<>>])
  OBVIOUS
<1>. HIDE DEF Sound
<1>5. Sound(take_fields(b))
  BY <1>2, <1>3, <1>4 DEF take_fields
<1>. QED BY <1>5 DEF Sound

\* A record as it is written: a magic, the checksum of its fields, its fields.
LEMMA EncodeIs ==
  ASSUME NEW r, IsRecord(r)
  PROVE  LET fs == Fields(r)  image == encode_record(r) IN
         /\ fs \in Seq(Nat) /\ Len(fs) \in Nat /\ Len(fs) >= 1
         /\ Len(image) = Len(fs) + 3 /\ Len(image) <= RecordLength["credentials"]
         /\ image[1] = Byte(MAGIC.credentials)
         /\ image[2] = Summed(Bytes(fs), 1) /\ image[3] = Summed(Bytes(fs), 2)
         /\ \A i \in 1..Len(fs) : image[i + 3] = Byte(fs[i])
<1>. DEFINE fs == Fields(r)  image == encode_record(r)
<1>1. /\ fs \in Seq(Nat) /\ Len(fs) \in Nat
      /\ Len(fs) = 5 + Len(r[1]) + Len(r[2]) + Len(r[3]) + Len(r[5]) + Len(r[6]) + 6
  <2>1. PICK t7, t6, t5, t4, t3, t2 :
          /\ t7 = After6(r) /\ t6 = After5(r) /\ t5 = After4(r)
          /\ t4 = After3(r) /\ t3 = After2(r) /\ t2 = After1(r)
    OBVIOUS
  <2>1a. /\ Len(t7) = Len(r[7]) + Len(r[8])
        /\ Len(t6) = Len(put_str(r[6])) + Len(t7) /\ Len(t5) = Len(put_str(r[5])) + Len(t6)
        /\ Len(t4) = Len(r[4]) + Len(t5) /\ Len(t3) = Len(put_str(r[3])) + Len(t4)
        /\ Len(t2) = Len(put_str(r[2])) + Len(t3)
        /\ fs \in Seq(Nat) /\ Len(fs) = Len(put_str(r[1])) + Len(t2)
    BY <2>1, FieldsFollow
  <2>2. /\ Len(r[4]) = 2 /\ Len(r[7]) = 2 /\ Len(r[8]) = 2
        /\ r[1] \in Seq(Nat) /\ r[2] \in Seq(Nat) /\ r[3] \in Seq(Nat)
        /\ r[5] \in Seq(Nat) /\ r[6] \in Seq(Nat)
    BY U16Is, TextIs DEF IsRecord
  <2>3. /\ Len(put_str(r[1])) = 1 + Len(r[1]) /\ Len(put_str(r[2])) = 1 + Len(r[2])
        /\ Len(put_str(r[3])) = 1 + Len(r[3]) /\ Len(put_str(r[5])) = 1 + Len(r[5])
        /\ Len(put_str(r[6])) = 1 + Len(r[6])
    BY <2>2, PutStr
  <2>4. PICK a \in Nat, b \in Nat, c \in Nat, d \in Nat, e \in Nat :
          a = Len(r[1]) /\ b = Len(r[2]) /\ c = Len(r[3]) /\ d = Len(r[5]) /\ e = Len(r[6])
    BY <2>2, LenProperties
  <2>. HIDE DEF fs
  <2>5. Len(t5) = 1 + d + (1 + e + 4)
    BY <2>1a, <2>2, <2>3, <2>4
  <2>6. Len(t3) = 1 + c + (2 + Len(t5))
    BY <2>1a, <2>2, <2>3, <2>4
  <2>7. Len(fs) = 1 + a + (1 + b + Len(t3))
    BY <2>1a, <2>3, <2>4
  <2>8. Len(fs) = 5 + a + b + c + d + e + 6 /\ Len(fs) \in Nat
    BY <2>5, <2>6, <2>7
  <2>. QED BY <2>1a, <2>4, <2>8
<1>2. /\ Len(r[1]) \in Nat /\ Len(r[2]) \in Nat /\ Len(r[3]) \in Nat
      /\ Len(r[5]) \in Nat /\ Len(r[6]) \in Nat
      /\ Len(r[1]) <= SSID_LEN /\ Len(r[2]) <= PASSWORD_LEN /\ Len(r[3]) <= HOST_LEN
      /\ Len(r[5]) <= USER_LEN /\ Len(r[6]) <= PASSWORD_LEN
  BY TextIs DEF IsRecord
<1>3. Len(fs) >= 1 /\ Len(fs) + 3 <= RecordLength["credentials"]
  <2>1. /\ SSID_LEN \in Nat /\ PASSWORD_LEN \in Nat /\ HOST_LEN \in Nat /\ USER_LEN \in Nat
        /\ RecordLength["credentials"]
             = 14 + SSID_LEN + 2 * PASSWORD_LEN + HOST_LEN + USER_LEN
    BY Lengths, RecordsAssumption
  <2>2. PICK a \in Nat, b \in Nat, c \in Nat, d \in Nat, e \in Nat :
           a = Len(r[1]) /\ b = Len(r[2]) /\ c = Len(r[3]) /\ d = Len(r[5]) /\ e = Len(r[6])
    BY <1>2
  <2>3. PICK n \in Nat : n = Len(fs) /\ n = 5 + a + b + c + d + e + 6
    <3>. HIDE DEF fs
    <3>. QED BY <1>1, <2>2
  <2>4. a <= SSID_LEN /\ b <= PASSWORD_LEN /\ c <= HOST_LEN /\ d <= USER_LEN /\ e <= PASSWORD_LEN
    BY <1>2, <2>2
  <2>5. n >= 1 /\ n + 3 <= RecordLength["credentials"]
    BY <2>1, <2>3, <2>4
  <2>. QED BY <2>3, <2>5
<1>4. PICK body : body = Bytes(fs)
  OBVIOUS
<1>5. /\ body \in Seq(Plains) /\ Len(body) = Len(fs)
      /\ \A i \in 1..Len(fs) : body[i] = Byte(fs[i])
  BY <1>1, <1>4, BytesAre
<1>6. PICK m, c : m = <<Byte(MAGIC.credentials)>> /\ c = crc32(body)
  OBVIOUS
<1>7. PICK S : S = Plains \cup Sums(body) \cup {Byte(MAGIC.credentials)}
  OBVIOUS
<1>8. body \in Seq(S) /\ c \in Seq(S) /\ m \in Seq(S)
  <2>1. body \in Seq(S)
    BY <1>5, <1>7, SeqMonotonic, Plains \subseteq S
  <2>2. c \in Seq(S)
    BY <1>6, <1>7, CrcIs, SeqMonotonic, Sums(body) \subseteq S
  <2>3. m \in Seq(S)
    <3>1. Byte(MAGIC.credentials) \in S
      BY <1>7
    <3>. QED BY <1>6, <3>1
  <2>. QED BY <2>1, <2>2, <2>3
<1>9. /\ Len(c) = 2 /\ c[1] = Summed(body, 1) /\ c[2] = Summed(body, 2)
      /\ Len(m) = 1 /\ m[1] = Byte(MAGIC.credentials)
  BY <1>6, CrcIs
<1>10. PICK head : head = m \o c
  OBVIOUS
<1>11. /\ head \in Seq(S) /\ Len(head) = 3 /\ head[1] = m[1]
       /\ head[2] = c[1] /\ head[3] = c[2]
  <2>1. /\ head \in Seq(S) /\ Len(head) = 1 + 2
        /\ \A i \in 1..(1 + 2) : head[i] = IF i <= 1 THEN m[i] ELSE c[i - 1]
    BY <1>8, <1>9, <1>10, ConcatProperties
  <2>. QED BY <2>1
<1>12. image = head \o body
  BY <1>4, <1>6, <1>10 DEF encode_record
<1>. HIDE DEF image, fs
<1>13. PICK n \in Nat : n = Len(fs)
  BY <1>1
<1>14. /\ Len(image) = 3 + n
       /\ \A i \in 1..(3 + n) : image[i] = IF i <= 3 THEN head[i] ELSE body[i - 3]
  <2>1. /\ Len(image) = Len(head) + Len(body)
        /\ \A i \in 1..(Len(head) + Len(body)) :
             image[i] = IF i <= Len(head) THEN head[i] ELSE body[i - Len(head)]
    BY <1>8, <1>11, <1>12, ConcatProperties
  <2>2. Len(head) = 3 /\ Len(body) = n
    BY <1>5, <1>11, <1>13
  <2>. QED BY <2>1, <2>2
<1>15. image[1] = head[1] /\ image[2] = head[2] /\ image[3] = head[3]
  BY <1>14
<1>16. ASSUME NEW i \in 1..Len(fs) PROVE image[i + 3] = Byte(fs[i])
  <2>1. i + 3 \in 1..(3 + n) /\ ~(i + 3 <= 3) /\ i + 3 - 3 = i
    BY <1>13
  <2>. QED BY <1>5, <1>14, <2>1
<1>17. /\ image[1] = Byte(MAGIC.credentials)
       /\ image[2] = Summed(Bytes(fs), 1) /\ image[3] = Summed(Bytes(fs), 2)
  BY <1>4, <1>9, <1>11, <1>15
<1>18. Len(image) = Len(fs) + 3 /\ Len(image) <= RecordLength["credentials"]
  BY <1>3, <1>13, <1>14
<1>19. fs \in Seq(Nat) /\ Len(fs) \in Nat /\ Len(fs) >= 1
  BY <1>1, <1>3
<1>. QED BY <1>16, <1>17, <1>18, <1>19 DEF fs, image

\* What follows the magic and the checksum, and the checksum.
LEMMA BodyIs ==
  ASSUME NEW b, NEW n \in Nat, n >= 4, IsCells(b, n)
  PROVE  /\ Len(SubSeq(b, 4, Len(b))) = n - 3
         /\ \A i \in 1..(n - 3) : SubSeq(b, 4, Len(b))[i] = b[i + 3]
<1>1. PICK body : body = SubSeq(b, 4, n)
  OBVIOUS
<1>2. /\ Len(body) = IF 4 <= n THEN n - 4 + 1 ELSE 0
      /\ \A i \in 1..(n - 4 + 1) : body[i] = b[4 + i - 1]
  <2>. DEFINE S == {b[i] : i \in 4..n}
  <2>1. \A i \in 4..n : b[i] \in S
    OBVIOUS
  <2>. HIDE DEF S
  <2>. QED BY <1>1, <2>1, SubSeqProperties, 4 \in Int, n \in Int
<1>3. Len(body) = n - 3
  BY <1>2
<1>4. ASSUME NEW i \in 1..(n - 3) PROVE body[i] = b[i + 3]
  <2>1. i \in 1..(n - 4 + 1) /\ 4 + i - 1 = i + 3
    OBVIOUS
  <2>. QED BY <1>2, <2>1
<1>. QED BY <1>1, <1>3, <1>4 DEF IsCells

\* The checksum is the second byte and the third.
LEMMA SealAt ==
  ASSUME NEW b
  PROVE  /\ SubSeq(b, 2, 3) \in Seq({b[2], b[3]}) /\ Len(SubSeq(b, 2, 3)) = 2
         /\ SubSeq(b, 2, 3)[1] = b[2] /\ SubSeq(b, 2, 3)[2] = b[3]
<1>1. PICK c : c = SubSeq(b, 2, 3)
  OBVIOUS
<1>2. /\ c \in Seq({b[2], b[3]}) /\ Len(c) = IF 2 <= 3 THEN 3 - 2 + 1 ELSE 0
      /\ \A i \in 1..(3 - 2 + 1) : c[i] = b[2 + i - 1]
  <2>1. \A i \in 2..3 : b[i] \in {b[2], b[3]}
    OBVIOUS
  <2>. QED BY <1>1, <2>1, SubSeqProperties, 2 \in Int, 3 \in Int
<1>3. Len(c) = 2 /\ c[1] = b[2] /\ c[2] = b[3]
  BY <1>2
<1>. QED BY <1>1, <1>2, <1>3

\* The cells of b begin with the record of r.
Whole(b, r) == \A i \in 1..Len(encode_record(r)) : b[i] = encode_record(r)[i]

\* Whatever follows a record, it reads back.
LEMMA RoundRecord ==
  ASSUME NEW r, IsRecord(r), NEW b, IsCells(b, RecordLength["credentials"]), Whole(b, r)
  PROVE  decode_record(b) = Stored(r)
<1>1. PICK n \in Nat : n = RecordLength["credentials"] /\ n >= 4
  BY Longest DEF RecordLength
<1>2. PICK fs, image : fs = Fields(r) /\ image = encode_record(r)
  OBVIOUS
<1>3. /\ fs \in Seq(Nat) /\ Len(fs) \in Nat /\ Len(fs) >= 1
      /\ Len(image) = Len(fs) + 3 /\ Len(image) <= n
      /\ image[1] = Byte(MAGIC.credentials)
      /\ image[2] = Summed(Bytes(fs), 1) /\ image[3] = Summed(Bytes(fs), 2)
      /\ \A i \in 1..Len(fs) : image[i + 3] = Byte(fs[i])
  BY <1>1, <1>2, EncodeIs
<1>4. \A i \in 1..(Len(fs) + 3) : b[i] = image[i]
  BY <1>2, <1>3 DEF Whole
<1>5. /\ b[1] = Byte(MAGIC.credentials)
      /\ b[2] = Summed(Bytes(fs), 1) /\ b[3] = Summed(Bytes(fs), 2)
  BY <1>3, <1>4
<1>6. PICK body : body = SubSeq(b, 4, Len(b))
  OBVIOUS
<1>7. Len(body) = n - 3 /\ \A i \in 1..(n - 3) : body[i] = b[i + 3]
  BY <1>1, <1>6, BodyIs
<1>8. Fits(body, 1, fs)
  <2>1. ASSUME NEW i \in 1..Len(fs) PROVE body[1 - 1 + i] = Byte(fs[i])
    <3>1. i \in 1..(n - 3) /\ i + 3 \in 1..(Len(fs) + 3) /\ 1 - 1 + i = i
      BY <1>3
    <3>. QED BY <1>3, <1>4, <1>7, <3>1
  <2>2. 1 + Len(fs) <= Len(body) + 1
    BY <1>3, <1>7
  <2>. QED BY <2>1, <2>2 DEF Fits, Holds
<1>9. PICK taken : taken = take_fields(body)
  OBVIOUS
<1>10. taken.ok = TRUE /\ taken.at = 1 + Len(fs) /\ taken.fields = r
  <2>1. Len(body) \in Nat
    BY <1>1, <1>7
  <2>2. taken = Taken(1 + Len(fs), r)
    BY <1>2, <1>8, <1>9, <2>1, TakeFields
  <2>. QED BY <2>2 DEF Taken
<1>11. SubSeq(body, 1, taken.at - 1) = Bytes(fs)
  <2>1. Holds(body, 0 + 1, fs)
    BY <1>8 DEF Fits
  <2>2. SubSeq(body, 0 + 1, 0 + Len(fs)) = Bytes(fs)
    BY <1>3, <2>1, ReadOut, 0 \in Nat
  <2>3. taken.at - 1 = 0 + Len(fs)
    BY <1>3, <1>10
  <2>. QED BY <2>2, <2>3
<1>12. crc32(Bytes(fs)) = SubSeq(b, 2, 3)
  <2>1. PICK c, d : c = crc32(Bytes(fs)) /\ d = SubSeq(b, 2, 3)
    OBVIOUS
  <2>2. IsCells(c, 2) /\ c[1] = b[2] /\ c[2] = b[3]
    BY <1>5, <2>1, CrcIs DEF IsCells
  <2>3. IsCells(d, 2) /\ d[1] = b[2] /\ d[2] = b[3]
    BY <2>1, SealAt DEF IsCells
  <2>4. \A i \in 1..2 : c[i] = d[i]
    <3>1. \A i \in 1..2 : i = 1 \/ i = 2
      OBVIOUS
    <3>. QED BY <2>2, <2>3, <3>1
  <2>. QED BY <2>1, <2>2, <2>3, <2>4, CellsEqual, 2 \in Nat
<1>13. decode_record(b) = Stored(taken.fields)
  BY <1>5, <1>6, <1>9, <1>10, <1>11, <1>12, Zenon DEF decode_record
<1>. QED BY <1>10, <1>13

\* The cells of b hold the record of r, less what is erased of it.
Mostly(b, r) == \A i \in 1..Len(encode_record(r)) : b[i] \in {FF, encode_record(r)[i]}
Numbered(b, n) == \A i \in 1..n : b[i].n \in Nat

\* Of a record that lost a byte, nothing is read.
LEMMA OnlyWhole ==
  ASSUME NEW r, IsRecord(r), NEW b, IsCells(b, RecordLength["credentials"]),
         Numbered(b, RecordLength["credentials"]), Mostly(b, r), decode_record(b).ok
  PROVE  Whole(b, r)
<1>1. PICK n \in Nat : n = RecordLength["credentials"] /\ n >= 4
  BY Longest DEF RecordLength
<1>2. PICK fs, image : fs = Fields(r) /\ image = encode_record(r)
  OBVIOUS
<1>3. /\ fs \in Seq(Nat) /\ Len(fs) \in Nat /\ Len(fs) >= 1
      /\ Len(image) = Len(fs) + 3 /\ Len(image) <= n
      /\ image[1] = Byte(MAGIC.credentials)
      /\ image[2] = Summed(Bytes(fs), 1) /\ image[3] = Summed(Bytes(fs), 2)
      /\ \A i \in 1..Len(fs) : image[i + 3] = Byte(fs[i])
  BY <1>1, <1>2, EncodeIs
<1>4. \A i \in 1..(Len(fs) + 3) : b[i] \in {FF, image[i]}
  BY <1>2, <1>3 DEF Mostly
<1>5. PICK body : body = SubSeq(b, 4, Len(b))
  OBVIOUS
<1>6. Len(body) = n - 3 /\ \A i \in 1..(n - 3) : body[i] = b[i + 3]
  BY <1>1, <1>5, BodyIs
<1>7. PICK taken : taken = take_fields(body)
  OBVIOUS
<1>8. \A e : ~Unread(e).ok
  BY DEF Unread
<1>9. b[1] = Byte(MAGIC.credentials)
  <2>1. CASE b[1] # Byte(MAGIC.credentials)
    <3>1. decode_record(b) = Unread("NotConfigured")
      BY <2>1, Zenon DEF decode_record
    <3>. QED BY <1>8, <3>1
  <2>. QED BY <2>1
<1>10. taken.ok
  <2>1. CASE ~taken.ok
    <3>1. decode_record(b) = taken
      BY <1>5, <1>7, <1>9, <2>1, Zenon DEF decode_record
    <3>. QED BY <2>1, <3>1
  <2>. QED BY <2>1
<1>11. PICK summed : summed = SubSeq(body, 1, taken.at - 1)
  OBVIOUS
<1>12. crc32(summed) = SubSeq(b, 2, 3)
  <2>1. CASE crc32(summed) # SubSeq(b, 2, 3)
    <3>1. decode_record(b) = Unread("Corrupt")
      BY <1>5, <1>7, <1>9, <1>10, <1>11, <2>1, Zenon DEF decode_record
    <3>. QED BY <1>8, <3>1
  <2>. QED BY <2>1
<1>13. b[2] = Summed(summed, 1) /\ b[3] = Summed(summed, 2)
  <2>1. PICK c : c = crc32(summed)
    OBVIOUS
  <2>2. c[1] = Summed(summed, 1) /\ c[2] = Summed(summed, 2)
    BY <2>1, CrcIs
  <2>3. c[1] = b[2] /\ c[2] = b[3]
    BY <1>12, <2>1, SealAt
  <2>. QED BY <2>2, <2>3
<1>14. Summed(summed, 1) # FF /\ Summed(summed, 2) # FF
  BY DEF Summed, FF, Byte
<1>15. b[2] = image[2] /\ b[3] = image[3]
  <2>1. 2 \in 1..(Len(fs) + 3) /\ 3 \in 1..(Len(fs) + 3)
    BY <1>3
  <2>. QED BY <1>4, <1>13, <1>14, <2>1
<1>16. summed = Bytes(fs)
  <2>1. Summed(summed, 1) = Summed(Bytes(fs), 1)
    BY <1>3, <1>13, <1>15
  <2>2. \A x, y : Summed(x, 1) = Summed(y, 1) => x = y
    BY DEF Summed
  <2>. QED BY <2>1, <2>2
<1>17. taken.at \in Nat /\ taken.at >= 1
  <2>1. Len(body) \in Nat
    BY <1>1, <1>6
  <2>2. \A i \in 1..Len(body) : body[i].n \in Nat
    <3>1. ASSUME NEW i \in 1..Len(body) PROVE body[i].n \in Nat
      <4>1. i \in 1..(n - 3) /\ i + 3 \in 1..n
        BY <1>6
      <4>. QED BY <1>1, <1>6, <4>1 DEF Numbered
    <3>. QED BY <3>1
  <2>. QED BY <1>7, <1>10, <2>1, <2>2, TakenIsSound
<1>18. PICK end \in Nat : end = taken.at - 1
  BY <1>17
<1>19. /\ Len(summed) = IF 1 <= end THEN end - 1 + 1 ELSE 0
       /\ \A i \in 1..(end - 1 + 1) : summed[i] = body[1 + i - 1]
  <2>. DEFINE S == {body[i] : i \in 1..end}
  <2>1. \A i \in 1..end : body[i] \in S
    OBVIOUS
  <2>. HIDE DEF S
  <2>. QED BY <1>11, <1>18, <2>1, SubSeqProperties, 1 \in Int, end \in Int
<1>20. end = Len(fs)
  <2>1. Len(summed) = Len(fs)
    BY <1>3, <1>16, BytesAre
  <2>. QED BY <1>3, <1>19, <2>1
<1>21. ASSUME NEW i \in 1..Len(fs) PROVE b[i + 3] = image[i + 3]
  <2>1. /\ i \in 1..(end - 1 + 1) /\ i \in 1..(n - 3) /\ 1 + i - 1 = i
    BY <1>3, <1>20
  <2>2. summed[i] = Byte(fs[i])
    BY <1>3, <1>16, BytesAre
  <2>3. summed[i] = b[i + 3]
    BY <1>6, <1>19, <2>1
  <2>. QED BY <1>3, <2>2, <2>3
<1>22. ASSUME NEW i \in 1..(Len(fs) + 3) PROVE b[i] = image[i]
  <2>1. CASE i = 1
    BY <1>3, <1>9, <2>1
  <2>2. CASE i = 2 \/ i = 3
    BY <1>15, <2>2
  <2>3. CASE i > 3
    <3>1. i - 3 \in 1..Len(fs) /\ i - 3 + 3 = i
      BY <1>3, <2>3
    <3>2. b[i - 3 + 3] = image[i - 3 + 3]
      BY <1>21, <3>1
    <3>. QED BY <3>1, <3>2
  <2>. QED BY <1>3, <2>1, <2>2, <2>3
<1>. QED BY <1>2, <1>3, <1>22 DEF Whole
-----------------------------------------------------------------------------
(***************************************************************************)
(* What a sector reads as.                                                 *)
(***************************************************************************)
Read(f, s) == decode(f, SubSeq(s, 1, RecordLength[f]))

\* What is loaded is what the sector reads as.
LEMMA LoadIsRead == load = Read(format, sector)
  BY DEF load, Buffer, Read

\* A sector whose first byte is erased.
LEMMA NoneOfFirst ==
  ASSUME NEW f \in DOMAIN RecordLength, NEW s, s[1] = FF
  PROVE  ~Read(f, s).ok
<1>1. PICK n \in Nat : n = RecordLength[f] /\ n >= 4
  BY Longest
<1>2. PICK b : b = SubSeq(s, 1, n)
  OBVIOUS
<1>3. IsCells(b, n) /\ b[1] = FF
  <2>1. 1 \in 1..n
    BY <1>1
  <2>. QED BY <1>2, <2>1, BufferIs
<1>4. CASE f \in Fixed
  <2>1. ~decode(f, b).ok
    BY <1>1, <1>3, <1>4, NoneWithout
  <2>. QED BY <1>1, <1>2, <2>1 DEF Read
<1>5. CASE f = "credentials"
  <2>1. decode(f, b) = Unread("NotConfigured")
    BY <1>3, <1>5, NoCredentialsWithout DEF decode
  <2>2. ~Unread("NotConfigured").ok
    BY DEF Unread
  <2>. QED BY <1>1, <1>2, <2>1, <2>2 DEF Read
<1>. QED BY <1>4, <1>5 DEF RecordLength, Fixed

\* One of a fixed length whose last byte is erased.
LEMMA NoneOfLast ==
  ASSUME NEW f \in Fixed, NEW s, s[RecordLength[f]] = FF
  PROVE  ~Read(f, s).ok
<1>1. PICK n \in Nat : n = RecordLength[f] /\ n >= 4
  BY Longest DEF RecordLength, Fixed
<1>2. PICK b : b = SubSeq(s, 1, n)
  OBVIOUS
<1>3. IsCells(b, n) /\ b[n] = FF
  <2>1. n \in 1..n
    BY <1>1
  <2>. QED BY <1>1, <1>2, <2>1, BufferIs
<1>4. ~decode(f, b).ok
  BY <1>1, <1>3, NoneWithout
<1>. QED BY <1>1, <1>2, <1>4 DEF Read

\* Nothing but the cells of the record counts.
LEMMA SameRead ==
  ASSUME NEW f \in DOMAIN RecordLength, NEW s, NEW t, \A i \in 1..RecordLength[f] : s[i] = t[i]
  PROVE  Read(f, s) = Read(f, t)
<1>1. PICK n \in Nat : n = RecordLength[f]
  BY Longest
<1>2. PICK a, b : a = SubSeq(s, 1, n) /\ b = SubSeq(t, 1, n)
  OBVIOUS
<1>3. IsCells(a, n) /\ IsCells(b, n) /\ \A i \in 1..n : a[i] = s[i] /\ b[i] = t[i]
  BY <1>2, BufferIs
<1>4. a = b
  BY <1>1, <1>3, CellsEqual
<1>. QED BY <1>1, <1>2, <1>4 DEF Read

\* A sector that begins with a whole image reads as the image.
LEMMA ReadImage ==
  ASSUME NEW f \in DOMAIN RecordLength, NEW s, NEW image, IsCells(image, RecordLength[f]),
         \A i \in 1..RecordLength[f] : s[i] = image[i]
  PROVE  Read(f, s) = decode(f, image)
<1>1. PICK n \in Nat : n = RecordLength[f]
  BY Longest
<1>2. PICK a : a = SubSeq(s, 1, n)
  OBVIOUS
<1>3. IsCells(a, n) /\ \A i \in 1..n : a[i] = s[i]
  BY <1>2, BufferIs
<1>4. a = image
  BY <1>1, <1>3, CellsEqual
<1>. QED BY <1>1, <1>2, <1>4 DEF Read

\* The credentials.
LEMMA ReadWhole ==
  ASSUME NEW r, IsRecord(r), NEW s, Whole(s, r)
  PROVE  Read("credentials", s) = Stored(r)
<1>1. PICK n \in Nat : n = RecordLength["credentials"]
  BY Longest DEF RecordLength
<1>2. PICK b : b = SubSeq(s, 1, n)
  OBVIOUS
<1>3. IsCells(b, n) /\ \A i \in 1..n : b[i] = s[i]
  BY <1>2, BufferIs
<1>4. PICK l \in Nat : l = Len(encode_record(r)) /\ l <= n
  BY <1>1, EncodeIs
<1>5. Whole(b, r)
  BY <1>3, <1>4 DEF Whole
<1>6. decode_record(b) = Stored(r)
  BY <1>1, <1>3, <1>5, RoundRecord
<1>. QED BY <1>1, <1>2, <1>6 DEF Read, decode

\* What reads as credentials, of what is left of a record, is the whole of it.
LEMMA ReadMostly ==
  ASSUME NEW r, IsRecord(r), NEW s, Mostly(s, r),
         Numbered(s, RecordLength["credentials"]), Read("credentials", s).ok
  PROVE  Whole(s, r) /\ Read("credentials", s) = Stored(r)
<1>1. PICK n \in Nat : n = RecordLength["credentials"]
  BY Longest DEF RecordLength
<1>2. PICK b : b = SubSeq(s, 1, n)
  OBVIOUS
<1>3. IsCells(b, n) /\ \A i \in 1..n : b[i] = s[i]
  BY <1>2, BufferIs
<1>4. PICK l \in Nat : l = Len(encode_record(r)) /\ l <= n
  BY <1>1, EncodeIs
<1>5. Mostly(b, r) /\ Numbered(b, n)
  BY <1>1, <1>3, <1>4 DEF Mostly, Numbered
<1>6. decode_record(b).ok
  BY <1>1, <1>2 DEF Read, decode
<1>7. Whole(b, r)
  BY <1>1, <1>3, <1>5, <1>6, OnlyWhole
<1>8. Whole(s, r)
  BY <1>3, <1>4, <1>7 DEF Whole
<1>. QED BY <1>8, ReadWhole
-----------------------------------------------------------------------------
(***************************************************************************)
(* What is written.                                                        *)
(***************************************************************************)
\* What a record of each format may hold.
Fit(f, v) ==
  /\ f = "credentials" => IsRecord(v)
  /\ f = "schedule" => IsSchedule(v)
  /\ f = "pause" => v \in BOOLEAN
  /\ f = "zone" => IsZone(v)

\* Credentials without their network are a record,
LEMMA ForgottenIs ==
  ASSUME NEW r, IsRecord(r)
  PROVE  IsRecord(without_network(r))
<1>1. PICK w : w = without_network(r)
  OBVIOUS
<1>2. r[7] \in Seq(0..255) /\ r[8] \in Seq(0..255) /\ IsU16(r[7]) /\ IsU16(r[8])
  BY DEF IsRecord, IsU16
<1>3. <<>> \in Seq(0..255) /\ <<0, 0>> \in Seq(0..255) /\ IsU16(<<0, 0>>)
  BY DEF IsU16
<1>4. /\ IsText(<<>>, SSID_LEN) /\ IsText(<<>>, PASSWORD_LEN) /\ IsText(<<>>, HOST_LEN)
      /\ IsText(<<>>, USER_LEN)
  BY RecordsAssumption DEF IsText
<1>5. w = <<<<>>, <<>>, <<>>, <<0, 0>>, <<>>, <<>>, r[7], r[8]>>
  BY <1>1 DEF without_network
<1>6. /\ w[1] = <<>> /\ w[2] = <<>> /\ w[3] = <<>> /\ w[4] = <<0, 0>>
      /\ w[5] = <<>> /\ w[6] = <<>> /\ w[7] = r[7] /\ w[8] = r[8]
  BY <1>5
<1>7. w \in Seq(Seq(0..255)) /\ Len(w) = 8
  BY <1>2, <1>3, <1>5
<1>. QED BY <1>1, <1>2, <1>3, <1>4, <1>6, <1>7 DEF IsRecord

\* and so are those with another click length.
LEMMA UpdatedIs ==
  ASSUME NEW r, IsRecord(r), NEW v, IsRecord(v)
  PROVE  IsRecord([r EXCEPT ![7] = v[7]])
<1>1. PICK w : w = [r EXCEPT ![7] = v[7]]
  OBVIOUS
<1>2. r \in Seq(Seq(0..255)) /\ Len(r) = 8 /\ v[7] \in Seq(0..255) /\ 7 \in 1..Len(r)
  BY DEF IsRecord, IsU16
<1>3. w \in Seq(Seq(0..255)) /\ Len(w) = 8 /\ \A i \in 1..8 : w[i] = IF i = 7 THEN v[7] ELSE r[i]
  <2>1. /\ w \in Seq(Seq(0..255)) /\ Len(w) = Len(r)
        /\ \A i \in 1..Len(r) : w[i] = IF i = 7 THEN v[7] ELSE r[i]
    <3>1. PICK X : X = Seq(0..255)
      OBVIOUS
    <3>2. r \in [1..8 -> X] /\ v[7] \in X
      BY <1>2, <3>1, LenProperties
    <3>3. w \in [1..8 -> X] /\ \A i \in 1..8 : w[i] = IF i = 7 THEN v[7] ELSE r[i]
      BY <1>1, <3>2
    <3>4. w \in Seq(X)
      BY <3>3, SeqDef, 8 \in Nat
    <3>5. Len(w) = 8
      BY <3>3, <3>4, LenProperties
    <3>. QED BY <1>2, <3>1, <3>3, <3>4, <3>5
  <2>. QED BY <1>2, <2>1
<1>4. /\ w[1] = r[1] /\ w[2] = r[2] /\ w[3] = r[3] /\ w[4] = r[4]
      /\ w[5] = r[5] /\ w[6] = r[6] /\ w[7] = v[7] /\ w[8] = r[8]
  BY <1>3
<1>. QED BY <1>1, <1>3, <1>4 DEF IsRecord

\* The image of all but the credentials is of the length of the record, and reads back.
LEMMA ImageIs ==
  ASSUME format \in DOMAIN RecordLength, NEW o,
         \/ o = Unread(Nothing[format])
         \/ format \in Fixed /\ \E v : o = Stored(v) /\ Fit(format, v)
  PROVE  /\ IsCells(Image(o), RecordLength[format]) /\ decode(format, Image(o)) = o
         /\ ~o.ok => \A i \in 1..RecordLength[format] : Image(o)[i] = FF
<1>1. PICK n \in Nat : n = RecordLength[format]
  BY Longest
<1>2. CASE o = Unread(Nothing[format])
  <2>1. PICK image : image = [i \in 1..n |-> FF]
    OBVIOUS
  <2>2. ~o.ok
    BY <1>2 DEF Unread
  <2>3. Image(o) = image
    BY <1>1, <2>1, <2>2 DEF Image
  <2>4. IsCells(image, n) /\ \A i \in 1..n : image[i] = FF
    <3>1. image \in [1..n -> {FF}]
      BY <2>1
    <3>2. image \in Seq({FF})
      BY <3>1, SeqDef
    <3>3. Len(image) = n
      BY <3>1, <3>2, LenProperties
    <3>. QED BY <2>1, <3>2, <3>3 DEF IsCells
  <2>5. decode(format, image) = o
    BY <1>1, <1>2, <2>4, ErasedIsNone
  <2>. QED BY <1>1, <2>3, <2>4, <2>5
<1>3. ASSUME format \in Fixed, NEW v, o = Stored(v), Fit(format, v)
      PROVE  IsCells(Image(o), n) /\ decode(format, Image(o)) = o /\ o.ok
  <2>1. o.ok = TRUE /\ o.v = v
    BY <1>3 DEF Stored
  <2>2. CASE format = "schedule"
    <3>1. Image(o) = encode_schedule(v)
      BY <2>1, <2>2 DEF Image
    <3>2. IsCells(encode_schedule(v), n) /\ decode_schedule(encode_schedule(v)) = o
      BY <1>1, <1>3, <2>2, RoundSchedule DEF Fit
    <3>. QED BY <2>1, <2>2, <3>1, <3>2 DEF decode
  <2>3. CASE format = "pause"
    <3>1. Image(o) = encode_paused(v)
      BY <2>1, <2>3 DEF Image
    <3>2. IsCells(encode_paused(v), n) /\ decode_paused(encode_paused(v)) = o
      BY <1>1, <1>3, <2>3, RoundPause DEF Fit
    <3>. QED BY <2>1, <2>3, <3>1, <3>2 DEF decode
  <2>4. CASE format = "zone"
    <3>1. Image(o) = encode_zone(v)
      BY <2>1, <2>4 DEF Image
    <3>2. IsCells(encode_zone(v), n) /\ decode_zone(encode_zone(v)) = o
      BY <1>1, <1>3, <2>4, RoundZone DEF Fit
    <3>. QED BY <2>1, <2>4, <3>1, <3>2 DEF decode
  <2>. QED BY <1>3, <2>2, <2>3, <2>4 DEF Fixed
<1>. QED BY <1>1, <1>2, <1>3

\* The image of credentials is their record.
LEMMA CredentialsImage ==
  ASSUME format = "credentials", NEW v
  PROVE  Image(Stored(v)) = encode_record(v)
<1>1. PICK o : o = Stored(v)
  OBVIOUS
<1>2. o.ok = TRUE /\ o.v = v
  BY <1>1 DEF Stored
<1>. QED BY <1>1, <1>2 DEF Image
-----------------------------------------------------------------------------
(***************************************************************************)
(* Between two writes.                                                     *)
(***************************************************************************)
\* Credentials may be there in part, and only of one record: what an earlier one left past
\* its end is never read with them.
Leftover(f, s) ==
  f = "credentials" =>
    /\ Numbered(s, RecordLength["credentials"])
    /\ s[1] = FF \/ \E r : IsRecord(r) /\ Mostly(s, r)

SectorInv ==
  /\ format \in DOMAIN RecordLength /\ cuts \in Nat
  /\ Leftover(format, sector)
  /\ IF cuts > 0 THEN load.ok => load \in may ELSE may = {load}

\* Credentials that can be read are a record.
LEMMA CredentialsLoaded ==
  ASSUME NEW s, Leftover("credentials", s), Read("credentials", s).ok
  PROVE  \E r : IsRecord(r) /\ Whole(s, r) /\ Read("credentials", s) = Stored(r)
<1>1. Numbered(s, RecordLength["credentials"]) /\ (s[1] = FF \/ \E r : IsRecord(r) /\ Mostly(s, r))
  BY DEF Leftover
<1>2. s[1] # FF
  BY NoneOfFirst DEF RecordLength
<1>3. PICK r : IsRecord(r) /\ Mostly(s, r)
  BY <1>1, <1>2
<1>. QED BY <1>1, <1>3, ReadMostly

\* What is written is one of the records there may be.
LEMMA WritingIs ==
  ASSUME SectorInv, NEW o \in Writings
  PROVE  \/ o = Unread(Nothing[format])
         \/ \E v : o = Stored(v) /\ Fit(format, v)
<1>1. format \in DOMAIN RecordLength /\ Leftover(format, sector)
  BY DEF SectorInv
<1>2. ASSUME NEW v \in Contents[format] PROVE Fit(format, v)
  BY <1>1, <1>2, RecordsAssumption DEF Fit, RecordLength
<1>3. ASSUME format = "credentials", load.ok PROVE IsRecord(load.v)
  <2>1. \E r : IsRecord(r) /\ load = Stored(r)
    BY <1>1, <1>3, LoadIsRead, CredentialsLoaded
  <2>. QED BY <2>1 DEF Stored
<1>4. CASE o \in {Stored(v) : v \in Contents[format]} \cup {Unread(Nothing[format])}
  BY <1>2, <1>4
<1>5. CASE format = "credentials" /\ load.ok /\ o = Stored(without_network(load.v))
  <2>1. IsRecord(without_network(load.v))
    BY <1>3, <1>5, ForgottenIs
  <2>. QED BY <1>5, <2>1 DEF Fit
<1>6. CASE format = "credentials" /\ load.ok
             /\ \E v \in Contents[format] : o = Stored([load.v EXCEPT ![7] = v[7]])
  <2>1. PICK v \in Contents["credentials"] : o = Stored([load.v EXCEPT ![7] = v[7]])
    BY <1>6
  <2>2. IsRecord(v) /\ IsRecord(load.v)
    BY <1>3, <1>6, RecordsAssumption
  <2>3. IsRecord([load.v EXCEPT ![7] = v[7]])
    BY <2>2, UpdatedIs
  <2>. QED BY <1>6, <2>1, <2>3 DEF Fit
<1>. QED BY <1>4, <1>5, <1>6 DEF Writings

\* A part of the sector: n cells of the record or more.
LEMMA CellsOf ==
  ASSUME NEW f \in DOMAIN RecordLength
  PROVE  \A i \in 1..RecordLength[f] : i \in SECTOR
BY Longest DEF SECTOR

\* The record of credentials has numbers for bytes.
LEMMA RecordNumbered ==
  ASSUME NEW r, IsRecord(r)
  PROVE  /\ \A i \in 1..Len(encode_record(r)) : encode_record(r)[i].n \in Nat
         /\ Len(encode_record(r)) \in Nat /\ Len(encode_record(r)) <= RecordLength["credentials"]
         /\ FF.n \in Nat
<1>1. PICK fs, image : fs = Fields(r) /\ image = encode_record(r)
  OBVIOUS
<1>2. /\ fs \in Seq(Nat) /\ Len(fs) \in Nat /\ Len(fs) >= 1
      /\ Len(image) = Len(fs) + 3 /\ Len(image) <= RecordLength["credentials"]
      /\ image[1] = Byte(MAGIC.credentials)
      /\ image[2] = Summed(Bytes(fs), 1) /\ image[3] = Summed(Bytes(fs), 2)
      /\ \A i \in 1..Len(fs) : image[i + 3] = Byte(fs[i])
  BY <1>1, EncodeIs
<1>3. /\ \A m : Byte(m).n = m
      /\ \A b : Summed(b, 1).n = 255 + 1 /\ Summed(b, 2).n = 255 + 2
  BY DEF Byte, Summed
<1>4. MAGIC.credentials \in Nat /\ FF.n \in Nat
  BY <1>3 DEF MAGIC, FF
<1>5. image[1].n \in Nat /\ image[2].n \in Nat /\ image[3].n \in Nat
  <2>1. image[2].n = 255 + 1 /\ image[3].n = 255 + 2
    BY <1>2, <1>3
  <2>. QED BY <1>2, <1>3, <1>4, <2>1
<1>6. ASSUME NEW i \in 1..(Len(fs) + 3) PROVE image[i].n \in Nat
  <2>1. CASE i > 3
    <3>1. PICK j \in 1..Len(fs) : j + 3 = i
      BY <1>2, <2>1, i - 3 \in 1..Len(fs)
    <3>2. image[j + 3] = Byte(fs[j]) /\ fs[j] \in Nat
      BY <1>2, ElementOfSeq
    <3>. QED BY <1>3, <3>1, <3>2
  <2>2. CASE ~(i > 3)
    <3>1. i = 1 \/ i = 2 \/ i = 3
      BY <1>2, <2>2
    <3>. QED BY <1>5, <3>1
  <2>. QED BY <2>1, <2>2
<1>. QED BY <1>1, <1>2, <1>4, <1>6
-----------------------------------------------------------------------------
\* A write that came to its end.
LEMMA WrittenStep ==
  ASSUME SectorInv, Written
  PROVE  SectorInv'
<1>1. format \in DOMAIN RecordLength /\ Leftover(format, sector)
  BY DEF SectorInv
<1>2. PICK o \in Writings : sector' = Patched(Image(o)) /\ may' = {o}
  BY DEF Written
<1>3. cuts' = 0 /\ format' = format
  BY DEF Written
<1>4. PICK n \in Nat : n = RecordLength[format] /\ n >= 4
  BY <1>1, Longest
<1>5. PICK image : image = Image(o)
  OBVIOUS
<1>6. \A i \in 1..n : sector'[i] = IF i <= Len(image) THEN image[i] ELSE sector[i]
  BY <1>1, <1>2, <1>4, <1>5, CellsOf DEF Patched
<1>7. ASSUME \/ o = Unread(Nothing[format])
             \/ format \in Fixed /\ \E v : o = Stored(v) /\ Fit(format, v)
      PROVE  Read(format, sector') = o /\ Leftover(format, sector')
  <2>1. IsCells(image, n) /\ decode(format, image) = o /\ (~o.ok => \A i \in 1..n : image[i] = FF)
    BY <1>1, <1>4, <1>5, <1>7, ImageIs
  <2>2. \A i \in 1..n : sector'[i] = image[i]
    BY <1>6, <2>1 DEF IsCells
  <2>3. Read(format, sector') = o
    BY <1>1, <1>4, <2>1, <2>2, ReadImage
  <2>4. ASSUME format = "credentials" PROVE Leftover(format, sector')
    <3>1. ~o.ok
      BY <1>7, <2>4 DEF Fixed, Unread
    <3>2. \A i \in 1..n : sector'[i] = FF
      BY <2>1, <2>2, <3>1
    <3>3. FF.n \in Nat
      BY DEF FF, Byte
    <3>4. sector'[1] = FF
      BY <1>4, <3>2
    <3>. QED BY <1>4, <2>4, <3>2, <3>3, <3>4 DEF Leftover, Numbered
  <2>. QED BY <2>3, <2>4 DEF Leftover
<1>8. ASSUME format = "credentials", NEW v, o = Stored(v), Fit(format, v)
      PROVE  Read(format, sector') = o /\ Leftover(format, sector')
  <2>1. IsRecord(v) /\ image = encode_record(v)
    BY <1>5, <1>8, CredentialsImage DEF Fit
  <2>2. /\ \A i \in 1..Len(image) : image[i].n \in Nat
        /\ Len(image) \in Nat /\ Len(image) <= n
    BY <1>4, <1>8, <2>1, RecordNumbered
  <2>3. \A i \in 1..Len(image) : sector'[i] = image[i]
    BY <1>6, <2>2
  <2>4. Whole(sector', v) /\ Mostly(sector', v)
    BY <2>1, <2>3 DEF Whole, Mostly
  <2>5. Numbered(sector', n)
    <3>1. Numbered(sector, n)
      BY <1>1, <1>4, <1>8 DEF Leftover
    <3>. QED BY <1>6, <2>2, <3>1 DEF Numbered
  <2>6. Read(format, sector') = o
    BY <1>8, <2>1, <2>4, ReadWhole
  <2>. QED BY <1>4, <1>8, <2>1, <2>4, <2>5, <2>6 DEF Leftover
<1>9. \/ o = Unread(Nothing[format])
      \/ format \in Fixed /\ \E v : o = Stored(v) /\ Fit(format, v)
      \/ format = "credentials" /\ \E v : o = Stored(v) /\ Fit(format, v)
  BY <1>1, WritingIs DEF RecordLength, Fixed
<1>10. Read(format, sector') = o /\ Leftover(format, sector')
  BY <1>7, <1>8, <1>9
<1>11. load' = Read(format', sector')
  BY DEF load, Buffer, Read
<1>. QED BY <1>1, <1>2, <1>3, <1>10, <1>11 DEF SectorInv

\* One the power cut short.
LEMMA PowerCutStep ==
  ASSUME SectorInv, PowerCut
  PROVE  SectorInv'
<1>1. format \in DOMAIN RecordLength /\ Leftover(format, sector) /\ cuts \in Nat
  BY DEF SectorInv
<1>2. PICK o \in Writings, m \in SECTOR :
        /\ may' = {load, o}
        /\ \/ sector' = Erasing(1, m)
           \/ sector' = Erasing(m, SectorLength)
           \/ sector' = Programming(Image(o), m)
  BY DEF PowerCut
<1>3. cuts' = cuts + 1 /\ format' = format
  BY DEF PowerCut
<1>4. PICK n \in Nat : n = RecordLength[format] /\ n >= 4 /\ n <= SectorLength /\ SectorLength \in Nat
  BY <1>1, Longest
<1>5. m \in Nat /\ m >= 1 /\ m <= SectorLength
  BY <1>4 DEF SECTOR
<1>6. 1 \in 1..n /\ n \in 1..n /\ \A i \in 1..n : i \in SECTOR
  BY <1>1, <1>4, CellsOf
<1>7. format = "credentials" => Numbered(sector, n)
  BY <1>1, <1>4 DEF Leftover
<1>8. FF.n \in Nat
  BY DEF FF, Byte
<1>9. format \in Fixed \/ format = "credentials"
  BY <1>1 DEF RecordLength, Fixed
<1>10. ASSUME sector'[1] = FF, format = "credentials" => Numbered(sector', n)
       PROVE  ~Read(format, sector').ok /\ Leftover(format, sector')
  BY <1>1, <1>4, <1>10, NoneOfFirst DEF Leftover
<1>11. ASSUME sector' = Erasing(1, m)
       PROVE  ~Read(format, sector').ok /\ Leftover(format, sector')
  <2>1. \A i \in 1..n : sector'[i] = IF i \in 1..m THEN FF ELSE sector[i]
    BY <1>6, <1>11 DEF Erasing
  <2>2. sector'[1] = FF
    BY <1>5, <1>6, <2>1
  <2>3. format = "credentials" => Numbered(sector', n)
    BY <1>7, <1>8, <2>1 DEF Numbered
  <2>. QED BY <1>10, <2>2, <2>3
<1>12. ASSUME sector' = Erasing(m, SectorLength)
       PROVE  /\ Read(format, sector').ok => Read(format, sector') = load
              /\ Leftover(format, sector')
  <2>1. \A i \in 1..n : sector'[i] = IF i \in m..SectorLength THEN FF ELSE sector[i]
    BY <1>6, <1>12 DEF Erasing
  <2>2. CASE format \in Fixed
    <3>1. CASE m <= n
      <4>1. sector'[n] = FF
        BY <1>4, <1>5, <1>6, <2>1, <3>1
      <4>. QED BY <1>4, <2>2, <4>1, NoneOfLast DEF Leftover, Fixed
    <3>2. CASE ~(m <= n)
      <4>1. \A i \in 1..n : sector'[i] = sector[i]
        BY <1>4, <1>5, <2>1, <3>2
      <4>2. Read(format, sector') = load
        BY <1>1, <1>4, <4>1, SameRead, LoadIsRead
      <4>. QED BY <2>2, <4>2 DEF Leftover, Fixed
    <3>. QED BY <3>1, <3>2
  <2>3. CASE format = "credentials"
    <3>1. Numbered(sector', n)
      BY <1>7, <1>8, <2>1, <2>3 DEF Numbered
    <3>2. CASE sector[1] = FF
      <4>1. sector'[1] = FF
        BY <1>6, <2>1, <3>2
      <4>. QED BY <1>10, <3>1, <4>1
    <3>3. ASSUME NEW r, IsRecord(r), Mostly(sector, r)
          PROVE  /\ Read(format, sector').ok => Read(format, sector') = load
                 /\ Leftover(format, sector')
      <4>1. PICK image : image = encode_record(r)
        OBVIOUS
      <4>2. PICK l \in Nat : l = Len(image) /\ l <= n
        BY <1>4, <2>3, <3>3, <4>1, RecordNumbered
      <4>3. \A i \in 1..l : sector[i] \in {FF, image[i]} /\ sector'[i] \in {FF, sector[i]}
        BY <2>1, <3>3, <4>1, <4>2 DEF Mostly
      <4>4. Mostly(sector', r)
        BY <4>1, <4>2, <4>3 DEF Mostly
      <4>5. ASSUME Read(format, sector').ok PROVE Read(format, sector') = load
        <5>1. Whole(sector', r) /\ Read(format, sector') = Stored(r)
          BY <1>4, <2>3, <3>1, <3>3, <4>4, <4>5, ReadMostly
        <5>2. ASSUME NEW i \in 1..l PROVE sector[i] = image[i]
          <6>1. sector'[i] = image[i]
            BY <4>1, <4>2, <5>1 DEF Whole
          <6>. QED BY <4>3, <6>1
        <5>3. Whole(sector, r)
          BY <4>1, <4>2, <5>2 DEF Whole
        <5>4. load = Stored(r)
          BY <2>3, <3>3, <5>3, ReadWhole, LoadIsRead
        <5>. QED BY <5>1, <5>4
      <4>. QED BY <1>4, <2>3, <3>1, <3>3, <4>4, <4>5 DEF Leftover
    <3>4. sector[1] = FF \/ \E r : IsRecord(r) /\ Mostly(sector, r)
      BY <1>1, <2>3 DEF Leftover
    <3>. QED BY <3>2, <3>3, <3>4
  <2>. QED BY <1>9, <2>2, <2>3
<1>13. ASSUME sector' = Programming(Image(o), m)
       PROVE  /\ Read(format, sector').ok => Read(format, sector') = o
              /\ Leftover(format, sector')
  <2>1. PICK image : image = Image(o)
    OBVIOUS
  <2>2. \A i \in 1..n : sector'[i] = IF i <= m THEN IF i <= Len(image) THEN image[i] ELSE sector[i]
                                     ELSE FF
    BY <1>6, <1>13, <2>1 DEF Programming, Patched
  <2>3. ASSUME \/ o = Unread(Nothing[format])
               \/ format \in Fixed /\ \E v : o = Stored(v) /\ Fit(format, v)
        PROVE  /\ IsCells(image, n) /\ decode(format, image) = o
               /\ ~o.ok => \A i \in 1..n : image[i] = FF
    BY <1>1, <1>4, <2>1, <2>3, ImageIs
  <2>4. CASE o = Unread(Nothing[format])
    <3>1. ~o.ok
      BY <2>4 DEF Unread
    <3>2. \A i \in 1..n : image[i] = FF
      BY <2>3, <2>4, <3>1
    <3>3. Len(image) = n
      BY <2>3, <2>4 DEF IsCells
    <3>4. \A i \in 1..n : sector'[i] = FF
      BY <2>2, <3>2, <3>3
    <3>5. sector'[1] = FF /\ Numbered(sector', n)
      BY <1>6, <1>8, <3>4 DEF Numbered
    <3>. QED BY <1>10, <3>5
  <2>5. CASE format \in Fixed /\ \E v : o = Stored(v) /\ Fit(format, v)
    <3>1. IsCells(image, n) /\ decode(format, image) = o
      BY <2>3, <2>5
    <3>2. CASE m < n
      <4>1. sector'[n] = FF
        BY <1>5, <1>6, <2>2, <3>2
      <4>. QED BY <1>4, <2>5, <4>1, NoneOfLast DEF Leftover, Fixed
    <3>3. CASE ~(m < n)
      <4>1. \A i \in 1..n : sector'[i] = image[i]
        BY <1>5, <2>2, <3>1, <3>3 DEF IsCells
      <4>2. Read(format, sector') = o
        BY <1>1, <1>4, <3>1, <4>1, ReadImage
      <4>. QED BY <2>5, <4>2 DEF Leftover, Fixed
    <3>. QED BY <3>2, <3>3
  <2>6. ASSUME format = "credentials", NEW v, o = Stored(v), Fit(format, v)
        PROVE  /\ Read(format, sector').ok => Read(format, sector') = o
               /\ Leftover(format, sector')
    <3>1. IsRecord(v) /\ image = encode_record(v)
      BY <2>1, <2>6, CredentialsImage DEF Fit
    <3>2. /\ \A i \in 1..Len(image) : image[i].n \in Nat
          /\ Len(image) \in Nat /\ Len(image) <= n
      BY <1>4, <2>6, <3>1, RecordNumbered
    <3>3. Mostly(sector', v)
      BY <2>2, <3>1, <3>2 DEF Mostly
    <3>4. Numbered(sector', n)
      BY <1>7, <1>8, <2>2, <2>6, <3>2 DEF Numbered
    <3>5. Read(format, sector').ok => Read(format, sector') = o
      BY <1>4, <2>6, <3>1, <3>3, <3>4, ReadMostly
    <3>. QED BY <1>4, <2>6, <3>1, <3>3, <3>4, <3>5 DEF Leftover
  <2>7. o = Unread(Nothing[format]) \/ \E v : o = Stored(v) /\ Fit(format, v)
    BY WritingIs
  <2>. QED BY <1>9, <2>4, <2>5, <2>6, <2>7
<1>14. (Read(format, sector').ok => Read(format, sector') \in may') /\ Leftover(format, sector')
  BY <1>2, <1>11, <1>12, <1>13
<1>15. cuts' > 0 /\ cuts' \in Nat
  BY <1>1, <1>3
<1>16. load' = Read(format', sector')
  BY DEF load, Buffer, Read
<1>. QED BY <1>1, <1>3, <1>14, <1>15, <1>16 DEF SectorInv

\* A number of two bytes.
LEMMA LeIs ==
  ASSUME NEW ns, IsU16(ns)
  PROVE  le(ns) \in Nat
<1>1. ns[1] \in Nat /\ ns[2] \in Nat
  BY U16Is, ElementOfSeq
<1>. QED BY <1>1 DEF le

\* record.rs:24: a write interrupted by a power cut reads as what was there, as what was
\* being written or as nothing, and never as garbage; a write that came to its end reads as
\* what was written, whatever the sector held.
THEOREM TornReadsAsNone == RecordsSpec => []TornIsNone
<1>1. RecordsInit => SectorInv
  <2>1. SUFFICES ASSUME RecordsInit PROVE SectorInv
    OBVIOUS
  <2>2. format \in DOMAIN RecordLength /\ cuts = 0 /\ may = {Unread(Nothing[format])}
    <3>1. DOMAIN Contents = DOMAIN RecordLength
      BY RecordsAssumption
    <3>. QED BY <2>1, <3>1 DEF RecordsInit
  <2>3. PICK n \in Nat : n = RecordLength[format] /\ n >= 4
    BY <2>2, Longest
  <2>4. \A i \in 1..n : sector[i] = FF
    <3>1. sector = [i \in SECTOR |-> FF]
      BY <2>1 DEF RecordsInit
    <3>2. \A i \in 1..n : i \in SECTOR
      BY <2>2, <2>3, CellsOf
    <3>. QED BY <3>1, <3>2
  <2>5. PICK b : b = SubSeq(sector, 1, n)
    OBVIOUS
  <2>6. IsCells(b, n) /\ \A i \in 1..n : b[i] = FF
    BY <2>4, <2>5, BufferIs
  <2>7. load = Unread(Nothing[format])
    BY <2>2, <2>3, <2>5, <2>6, ErasedIsNone DEF load, Buffer
  <2>8. FF.n \in Nat
    BY DEF FF, Byte
  <2>9. Leftover(format, sector)
    BY <2>3, <2>4, <2>8 DEF Leftover, Numbered
  <2>. QED BY <2>2, <2>7, <2>9 DEF SectorInv
<1>2. SectorInv /\ [RecordsNext]_records_vars => SectorInv'
  <2>1. SUFFICES ASSUME SectorInv, [RecordsNext]_records_vars PROVE SectorInv'
    OBVIOUS
  <2>2. CASE UNCHANGED records_vars
    BY <2>1, <2>2 DEF SectorInv, records_vars, load, Buffer
  <2>. QED BY <2>1, <2>2, WrittenStep, PowerCutStep DEF RecordsNext
<1>3. SectorInv => TornIsNone
  <2>1. SUFFICES ASSUME SectorInv PROVE TornIsNone
    OBVIOUS
  <2>2. ASSUME format = "credentials", load.ok
        PROVE  /\ detent_ms(load.v) >= MIN_DETENT_MS /\ portion_scale_pct(load.v) > 0
               /\ is_network_forgotten(load.v) => ~is_usable(load.v)
    <3>1. \E r : IsRecord(r) /\ load = Stored(r)
      BY <2>1, <2>2, LoadIsRead, CredentialsLoaded DEF SectorInv
    <3>2. PICK r : IsRecord(r) /\ load.v = r
      BY <3>1 DEF Stored
    <3>3. le(r[7]) \in Nat /\ le(r[8]) \in Nat
      BY <3>2, LeIs DEF IsRecord
    <3>4. detent_ms(r) >= MIN_DETENT_MS
      BY <3>3, RecordsAssumption DEF detent_ms
    <3>5. portion_scale_pct(r) > 0
      BY <3>3 DEF portion_scale_pct
    <3>6. is_network_forgotten(r) => r[1] = <<>>
      <4>1. without_network(r)[1] = <<>>
        BY DEF without_network
      <4>. QED BY <4>1 DEF is_network_forgotten
    <3>. QED BY <3>2, <3>4, <3>5, <3>6 DEF is_usable
  <2>. QED BY <2>1, <2>2 DEF TornIsNone, SectorInv
<1>. QED BY <1>1, <1>2, <1>3, PTL DEF RecordsSpec
-----------------------------------------------------------------------------
(***************************************************************************)
(* The pages.  First, what the outcome of any request may change: what its *)
(* path is for, and what of that is in flash.  Then that a unit stays one, *)
(* whatever is posted.  Then the four forms as they are drawn: each field  *)
(* is found where it was put, and what is read of it is what the unit      *)
(* holds, or what the script put there.                                    *)
(***************************************************************************)
\* Of u, an outcome changes no more than these.
Within(o, u, keys) == \A k \in DOMAIN u : o.unit[k] # u[k] => k \in keys

Agrees == {"Done", "Sent", "Restarting", "Erased"}

\* Of what is in force, an outcome changes no more than these, and in flash no more than
\* those sectors; all but the meals and the clock goes to flash first.
FlashFirst(o, u) ==
  /\ \A k \in {"paused", "zone"} : o.unit[k] # u[k] => o.unit.flash[k] = o.unit[k]
  /\ (\E k \in {"detent", "scale", "network"} : o.unit[k] # u[k]) => o.unit.flash.record

\* Nothing, or the clock alone, when its page says that something went wrong, but for a
\* sector that it blanked.
Kept(o, u) ==
  /\ Within(o, u, {"flash"} \cup (IF o.said = "ZoneProblem" THEN {"clock"} ELSE {}))
  /\ \A k \in Sectors : o.unit.flash[k] # u.flash[k] => o.unit.flash[k] = Blanked[k]

OutcomeWithin(o, u, keys, sectors) ==
  /\ Within(o, u, keys \cup {"flash"})
  /\ \A k \in Sectors : o.unit.flash[k] # u.flash[k] => k \in sectors
  /\ FlashFirst(o, u)
  /\ o.said \notin Agrees => Kept(o, u)

\* What a unit is made of.
LEMMA UnitIs ==
  ASSUME NEW u \in UnitType
  PROVE  /\ DOMAIN u = {"meals", "paused", "zone", "clock", "detent", "scale", "network",
                        "running", "feeds", "calibrate", "erased", "flash"}
         /\ u.flash \in FlashType /\ DOMAIN u.flash = Sectors
<1>1. u.flash \in FlashType
  BY DEF UnitType
<1>2. DOMAIN u.flash = Sectors
  BY <1>1 DEF FlashType, Sectors
<1>. QED BY <1>1, <1>2 DEF UnitType

LEMMA SectorsAre == \A k : k \in Sectors <=> k \in {"record", "meals", "zone", "paused"}
BY DEF Sectors

\* A notice, or a refusal, leaves everything.
LEMMA LeftAlone ==
  ASSUME NEW u, NEW keys, NEW sectors, NEW said, NEW o, o \in {[said |-> said, unit |-> u]}
  PROVE  OutcomeWithin(o, u, keys, sectors) /\ Within(o, u, {})
BY DEF OutcomeWithin, Within, FlashFirst, Kept

LEMMA ProblemLeavesAlone ==
  ASSUME NEW u, NEW keys, NEW sectors, NEW o, o \in Problem(u)
  PROVE  OutcomeWithin(o, u, keys, sectors)
BY LeftAlone DEF Problem

\* A write that was refused has blanked its sector, or nothing.
LEMMA Unwritten ==
  ASSUME NEW u \in UnitType, NEW place \in Sectors, NEW v, v \in NotWritten(u, place)
  PROVE  /\ \A k \in DOMAIN u : k # "flash" => v[k] = u[k]
         /\ \A k \in Sectors : v.flash[k] # u.flash[k] => k = place /\ v.flash[k] = Blanked[k]
<1>1. CASE v = u
  BY <1>1
<1>2. CASE v = [u EXCEPT !.flash[place] = Blanked[place]]
  <2>1. v.flash = [u.flash EXCEPT ![place] = Blanked[place]]
    BY <1>2, UnitIs
  <2>2. \A k \in DOMAIN u : k # "flash" => v[k] = u[k]
    BY <1>2
  <2>. QED BY <2>1, <2>2, UnitIs
<1>. QED BY <1>1, <1>2 DEF NotWritten

LEMMA RefusedWithin ==
  ASSUME NEW u \in UnitType, NEW keys, NEW sectors, NEW place \in Sectors, place \in sectors,
         NEW o, o \in NotSaved(u, place)
  PROVE  OutcomeWithin(o, u, keys, sectors)
<1>1. o.unit \in NotWritten(u, place) /\ o.said = "Problem"
  BY DEF NotSaved
<1>2. /\ \A k \in DOMAIN u : k # "flash" => o.unit[k] = u[k]
      /\ \A k \in Sectors :
           o.unit.flash[k] # u.flash[k] => k = place /\ o.unit.flash[k] = Blanked[k]
  BY <1>1, Unwritten
<1>3. FlashFirst(o, u)
  BY <1>2, UnitIs DEF FlashFirst
<1>4. Kept(o, u) /\ Within(o, u, keys \cup {"flash"})
  BY <1>2 DEF Kept, Within
<1>. QED BY <1>2, <1>3, <1>4 DEF OutcomeWithin

\* What each form may change.
LEMMA AcceptedIs ==
  ASSUME NEW u \in UnitType, NEW meals, NEW v, v \in accept_schedule(meals, u)
  PROVE  /\ v.meals = meals
         /\ \A k \in DOMAIN u : k \notin {"meals", "flash"} => v[k] = u[k]
         /\ \A k \in Sectors : v.flash[k] # u.flash[k] => k = "meals"
<1>1. CASE v = [u EXCEPT !.meals = meals, !.flash.meals = meals]
  <2>1. v.flash = [u.flash EXCEPT !.meals = meals] /\ v.meals = meals
    BY <1>1, UnitIs
  <2>2. \A k \in DOMAIN u : k \notin {"meals", "flash"} => v[k] = u[k]
    BY <1>1
  <2>. QED BY <2>1, <2>2, UnitIs
<1>2. ASSUME NEW w, w \in NotWritten(u, "meals"), v = [w EXCEPT !.meals = meals]
      PROVE  /\ v.meals = meals
             /\ \A k \in DOMAIN u : k \notin {"meals", "flash"} => v[k] = u[k]
             /\ \A k \in Sectors : v.flash[k] # u.flash[k] => k = "meals"
  <2>1. "meals" \in Sectors
    BY DEF Sectors
  <2>2. /\ \A k \in DOMAIN u : k # "flash" => w[k] = u[k]
        /\ \A k \in Sectors : w.flash[k] # u.flash[k] => k = "meals"
    BY <1>2, <2>1, Unwritten
  <2>3. DOMAIN w = DOMAIN u
    BY <1>2 DEF NotWritten
  <2>4. v.meals = meals /\ v.flash = w.flash
    BY <1>2, <2>3, UnitIs
  <2>5. \A k \in DOMAIN u : k \notin {"meals", "flash"} => v[k] = w[k]
    BY <1>2, <2>3
  <2>. QED BY <2>2, <2>4, <2>5
<1>. QED BY <1>1, <1>2 DEF accept_schedule

LEMMA ScheduleWithin ==
  ASSUME NEW form, NEW u \in UnitType, NEW o, o \in save_schedule(form, u)
  PROVE  OutcomeWithin(o, u, {"meals"}, {"meals"})
<1>1. PICK wanted : wanted = <<schedule_from_form(form).meals>>
  OBVIOUS
<1>2. CASE o \in Problem(u)
  BY <1>2, ProblemLeavesAlone
<1>3. CASE o \notin Problem(u)
  <2>1. o.said \in Agrees /\ (o.unit = u \/ o.unit \in accept_schedule(wanted, u))
    BY <1>1, <1>3 DEF save_schedule, Done, Agrees
  <2>2. /\ \A k \in DOMAIN u : k \notin {"meals", "flash"} => o.unit[k] = u[k]
        /\ \A k \in Sectors : o.unit.flash[k] # u.flash[k] => k = "meals"
    BY <2>1, AcceptedIs
  <2>3. FlashFirst(o, u)
    BY <2>2, UnitIs DEF FlashFirst
  <2>. QED BY <2>1, <2>2, <2>3 DEF OutcomeWithin, Within
<1>. QED BY <1>2, <1>3

LEMMA FeedWithin ==
  ASSUME NEW form, NEW u \in UnitType, NEW o, o \in feed(form, u)
  PROVE  OutcomeWithin(o, u, {"feeds"}, {})
<1>1. CASE o \in Problem(u)
  BY <1>1, ProblemLeavesAlone
<1>2. CASE o \notin Problem(u)
  <2>1. o.unit = [u EXCEPT !.feeds = @ + 1] /\ o.said \in Agrees
    BY <1>2 DEF feed, Done, Agrees
  <2>2. \A k \in DOMAIN u : k # "feeds" => o.unit[k] = u[k]
    BY <2>1
  <2>. QED BY <2>1, <2>2, UnitIs DEF OutcomeWithin, Within, FlashFirst
<1>. QED BY <1>1, <1>2

LEMMA PauseWithin ==
  ASSUME NEW form, NEW u \in UnitType, NEW o, o \in save_pause(form, u)
  PROVE  OutcomeWithin(o, u, {"paused"}, {"paused"})
<1>1. CASE o \in Problem(u)
  BY <1>1, ProblemLeavesAlone
<1>2. CASE o = Done(u)
  BY <1>2, LeftAlone DEF Done
<1>3. CASE o \in NotSaved(u, "paused")
  BY <1>3, RefusedWithin DEF Sectors
<1>4. ASSUME NEW on, o = Done([u EXCEPT !.paused = on, !.flash.paused = on])
      PROVE  OutcomeWithin(o, u, {"paused"}, {"paused"})
  <2>1. o.unit = [u EXCEPT !.paused = on, !.flash.paused = on] /\ o.said \in Agrees
    BY <1>4 DEF Done, Agrees
  <2>2. o.unit.paused = on /\ o.unit.flash = [u.flash EXCEPT !.paused = on]
    BY <2>1, UnitIs
  <2>3. \A k \in DOMAIN u : k \notin {"paused", "flash"} => o.unit[k] = u[k]
    BY <2>1
  <2>4. o.unit.flash.paused = on /\ \A k \in Sectors : k # "paused" => o.unit.flash[k] = u.flash[k]
    BY <2>2, UnitIs, SectorsAre
  <2>5. FlashFirst(o, u)
    BY <2>2, <2>3, <2>4, UnitIs DEF FlashFirst
  <2>. QED BY <2>1, <2>3, <2>4, <2>5 DEF OutcomeWithin, Within
<1>5. \/ o \in Problem(u) \/ o = Done(u) \/ o \in NotSaved(u, "paused")
      \/ \E on : o = Done([u EXCEPT !.paused = on, !.flash.paused = on])
  BY Zenon DEF save_pause
<1>. QED BY <1>1, <1>2, <1>3, <1>4, <1>5

\* What is left of a clock form: the time it set, and the zone that was stored, or not.
LEMMA ClockIs ==
  ASSUME NEW form, NEW u, NEW o, o \in clock(form, u), o \notin Problem(u)
  PROVE  \E at, new_zone, wanted :
           /\ wanted = [u EXCEPT !.clock = at]
           /\ \/ o = Done(wanted)
              \/ o = Done([wanted EXCEPT !.zone = new_zone, !.flash.zone = new_zone])
              \/ o.said = "ZoneProblem" /\ o.unit \in NotWritten(wanted, "zone")
<1>1. PICK at : at = IF Blank(field(form, "at")) \/ Undecoded(field(form, "at")) THEN u.clock
                     ELSE field(form, "at").n
  OBVIOUS
<1>2. PICK new_zone : new_zone = [name |-> field(form, "zone").text, rule |-> field(form, "rule").text]
  OBVIOUS
<1>3. PICK wanted : wanted = [u EXCEPT !.clock = at]
  OBVIOUS
<1>4. \/ o = Done(wanted)
      \/ o = Done([wanted EXCEPT !.zone = new_zone, !.flash.zone = new_zone])
      \/ o \in {[said |-> "ZoneProblem", unit |-> v] : v \in NotWritten(wanted, "zone")}
  BY <1>1, <1>2, <1>3 DEF clock
<1>5. \/ o = Done(wanted)
      \/ o = Done([wanted EXCEPT !.zone = new_zone, !.flash.zone = new_zone])
      \/ o.said = "ZoneProblem" /\ o.unit \in NotWritten(wanted, "zone")
  BY <1>4
<1>. QED BY <1>3, <1>5, Zenon

LEMMA ClockWithin ==
  ASSUME NEW form, NEW u \in UnitType, NEW o, o \in clock(form, u)
  PROVE  OutcomeWithin(o, u, {"clock", "zone"}, {"zone"})
<1>1. CASE o \in Problem(u)
  BY <1>1, ProblemLeavesAlone
<1>2. CASE o \notin Problem(u)
  <2>1. PICK at, new_zone, wanted :
          /\ wanted = [u EXCEPT !.clock = at]
          /\ \/ o = Done(wanted)
             \/ o = Done([wanted EXCEPT !.zone = new_zone, !.flash.zone = new_zone])
             \/ o.said = "ZoneProblem" /\ o.unit \in NotWritten(wanted, "zone")
    BY <1>2, ClockIs, ZenonT(40)
  <2>2. wanted = [u EXCEPT !.clock = at]
    BY <2>1
  <2>3. /\ DOMAIN wanted = DOMAIN u /\ wanted.flash = u.flash
        /\ \A k \in DOMAIN u : k # "clock" => wanted[k] = u[k]
    BY <2>2, UnitIs
  <2>4. CASE o = Done(wanted)
    <3>1. o.unit = wanted /\ o.said \in Agrees
      BY <2>4 DEF Done, Agrees
    <3>. QED BY <2>3, <3>1, UnitIs DEF OutcomeWithin, Within, FlashFirst
  <2>5. CASE o = Done([wanted EXCEPT !.zone = new_zone, !.flash.zone = new_zone])
    <3>1. o.unit = [wanted EXCEPT !.zone = new_zone, !.flash.zone = new_zone] /\ o.said \in Agrees
      BY <2>5 DEF Done, Agrees
    <3>2. o.unit.zone = new_zone /\ o.unit.flash = [u.flash EXCEPT !.zone = new_zone]
      BY <2>3, <3>1, UnitIs
    <3>3. \A k \in DOMAIN u : k \notin {"clock", "zone", "flash"} => o.unit[k] = u[k]
      BY <2>3, <3>1
    <3>4. o.unit.flash.zone = new_zone /\ \A k \in Sectors : k # "zone" => o.unit.flash[k] = u.flash[k]
      BY <3>2, UnitIs, SectorsAre
    <3>5. FlashFirst(o, u)
      BY <3>2, <3>3, <3>4, UnitIs DEF FlashFirst
    <3>. QED BY <3>1, <3>3, <3>4, <3>5 DEF OutcomeWithin, Within
  <2>6. CASE o.said = "ZoneProblem" /\ o.unit \in NotWritten(wanted, "zone")
    <3>1. CASE o.unit = wanted
      BY <2>3, <2>6, <3>1, UnitIs DEF OutcomeWithin, Within, FlashFirst, Kept, Agrees
    <3>2. CASE o.unit = [wanted EXCEPT !.flash["zone"] = Blanked["zone"]]
      <4>1. o.unit.flash = [u.flash EXCEPT !["zone"] = Blanked["zone"]]
        BY <2>3, <3>2, UnitIs
      <4>2. \A k \in DOMAIN u : k \notin {"clock", "flash"} => o.unit[k] = u[k]
        BY <2>3, <3>2
      <4>3. \A k \in Sectors : o.unit.flash[k] # u.flash[k] => k = "zone" /\ o.unit.flash[k] = Blanked[k]
        BY <4>1, UnitIs
      <4>4. FlashFirst(o, u)
        BY <4>2, UnitIs DEF FlashFirst
      <4>5. Kept(o, u) /\ Within(o, u, {"clock", "zone"} \cup {"flash"})
        BY <2>6, <4>2, <4>3 DEF Kept, Within
      <4>. QED BY <4>3, <4>4, <4>5 DEF OutcomeWithin
    <3>. QED BY <2>6, <3>1, <3>2 DEF NotWritten
  <2>. QED BY <2>1, <2>2, <2>4, <2>5, <2>6
<1>. QED BY <1>1, <1>2

LEMMA CalibrationWithin ==
  ASSUME NEW form, NEW u \in UnitType, NEW o, o \in save_calibration(form, u)
  PROVE  OutcomeWithin(o, u, {"detent", "scale"}, {"record"})
<1>1. CASE o \in Problem(u)
  BY <1>1, ProblemLeavesAlone
<1>2. CASE o = Done(u)
  BY <1>2, LeftAlone DEF Done
<1>3. CASE o \in NotSaved(u, "record")
  BY <1>3, RefusedWithin DEF Sectors
<1>4. ASSUME NEW detent, NEW scale, u.flash.record,
             o = Done([u EXCEPT !.detent = detent, !.scale = scale])
      PROVE  OutcomeWithin(o, u, {"detent", "scale"}, {"record"})
  <2>1. o.unit = [u EXCEPT !.detent = detent, !.scale = scale] /\ o.said \in Agrees
    BY <1>4 DEF Done, Agrees
  <2>2. \A k \in DOMAIN u : k \notin {"detent", "scale"} => o.unit[k] = u[k]
    BY <2>1
  <2>. QED BY <1>4, <2>1, <2>2, UnitIs DEF OutcomeWithin, Within, FlashFirst
<1>5. \/ o \in Problem(u) \/ o = Done(u) \/ o \in NotSaved(u, "record")
      \/ \E detent, scale :
           u.flash.record /\ o = Done([u EXCEPT !.detent = detent, !.scale = scale])
  BY Zenon DEF save_calibration
<1>. QED BY <1>1, <1>2, <1>3, <1>4, <1>5

LEMMA NetworkWithin ==
  ASSUME NEW form, NEW u \in UnitType, NEW o, o \in save_network(form, u)
  PROVE  OutcomeWithin(o, u, {"network"}, {"record"})
<1>1. CASE o \in Problem(u)
  BY <1>1, ProblemLeavesAlone
<1>2. CASE o = Done(u)
  BY <1>2, LeftAlone DEF Done
<1>3. CASE o \in NotSaved(u, "record")
  BY <1>3, RefusedWithin DEF Sectors
<1>4. ASSUME NEW net, u.flash.record,
             o = [said |-> "Restarting", unit |-> [u EXCEPT !.network = net]]
      PROVE  OutcomeWithin(o, u, {"network"}, {"record"})
  <2>1. o.unit = [u EXCEPT !.network = net] /\ o.said \in Agrees
    BY <1>4 DEF Agrees
  <2>2. \A k \in DOMAIN u : k # "network" => o.unit[k] = u[k]
    BY <2>1
  <2>. QED BY <1>4, <2>1, <2>2, UnitIs DEF OutcomeWithin, Within, FlashFirst
<1>5. \/ o \in Problem(u) \/ o = Done(u) \/ o \in NotSaved(u, "record")
      \/ \E net : u.flash.record
                    /\ o = [said |-> "Restarting", unit |-> [u EXCEPT !.network = net]]
  BY Zenon DEF save_network
<1>. QED BY <1>1, <1>2, <1>3, <1>4, <1>5

\* What is erased is blank, and the rest of the unit as it was.
LEMMA ErasedIs ==
  ASSUME NEW u \in UnitType, NEW sectors
  PROVE  /\ DOMAIN erase_all(u, sectors) = DOMAIN u
         /\ \A k \in DOMAIN u : k # "flash" => erase_all(u, sectors)[k] = u[k]
         /\ \A k \in Sectors :
              erase_all(u, sectors).flash[k] = IF k \in sectors THEN Blanked[k] ELSE u.flash[k]
<1>1. PICK v : v = erase_all(u, sectors)
  OBVIOUS
<1>2. v = [u EXCEPT !.flash = [k \in Sectors |-> IF k \in sectors THEN Blanked[k] ELSE u.flash[k]]]
  BY <1>1 DEF erase_all
<1>3. v.flash = [k \in Sectors |-> IF k \in sectors THEN Blanked[k] ELSE u.flash[k]]
  BY <1>2, UnitIs
<1>4. DOMAIN v = DOMAIN u /\ \A k \in DOMAIN u : k # "flash" => v[k] = u[k]
  BY <1>2
<1>. QED BY <1>1, <1>3, <1>4

LEMMA EraseWithin ==
  ASSUME NEW form, NEW u \in UnitType, NEW o, o \in erase(form, u)
  PROVE  OutcomeWithin(o, u, {"erased"}, Sectors)
<1>1. CASE o \in Problem(u)
  BY <1>1, ProblemLeavesAlone
<1>2. CASE o = [said |-> "Erased", unit |-> [erase_all(u, Sectors) EXCEPT !.erased = TRUE]]
  <2>1. PICK v : v = erase_all(u, Sectors)
    OBVIOUS
  <2>2. o.unit = [v EXCEPT !.erased = TRUE] /\ o.said \in Agrees
    BY <1>2, <2>1 DEF Agrees
  <2>3. DOMAIN v = DOMAIN u /\ \A k \in DOMAIN u : k # "flash" => v[k] = u[k]
    BY <2>1, ErasedIs
  <2>4. \A k \in DOMAIN u : k \notin {"erased", "flash"} => o.unit[k] = u[k]
    BY <2>2, <2>3
  <2>5. FlashFirst(o, u)
    BY <2>4, UnitIs DEF FlashFirst
  <2>. QED BY <2>2, <2>4, <2>5 DEF OutcomeWithin, Within
<1>3. ASSUME NEW sectors, o = [said |-> "Problem", unit |-> erase_all(u, sectors)]
      PROVE  OutcomeWithin(o, u, {"erased"}, Sectors)
  <2>1. o.said = "Problem" /\ o.unit = erase_all(u, sectors)
    BY <1>3
  <2>2. /\ \A k \in DOMAIN u : k # "flash" => o.unit[k] = u[k]
        /\ \A k \in Sectors : o.unit.flash[k] # u.flash[k] => o.unit.flash[k] = Blanked[k]
    BY <2>1, ErasedIs
  <2>3. FlashFirst(o, u)
    BY <2>2, UnitIs DEF FlashFirst
  <2>4. Kept(o, u) /\ Within(o, u, {"erased"} \cup {"flash"})
    BY <2>2 DEF Kept, Within
  <2>. QED BY <2>3, <2>4 DEF OutcomeWithin
<1>4. \/ o \in Problem(u)
      \/ o = [said |-> "Erased", unit |-> [erase_all(u, Sectors) EXCEPT !.erased = TRUE]]
      \/ \E sectors : o = [said |-> "Problem", unit |-> erase_all(u, sectors)]
  BY Zenon DEF erase
<1>. QED BY <1>1, <1>2, <1>3, <1>4

\* Whatever request is handled, its outcome is within what its path is for, and but for a
\* POST that is let in, nothing.
LEMMA HandleWithin ==
  ASSUME NEW r, NEW form, NEW u \in UnitType, NEW o, o \in handle(r, form, u)
  PROVE  /\ OutcomeWithin(o, u, About(r.path), Writes(r.path))
         /\ Within(o, u, {}) \/ (admit(r) = "admitted" /\ r.method = "POST")
<1>1. CASE admit(r) # "admitted"
  <2>1. o \in {[said |-> admit(r), unit |-> u]}
    BY <1>1 DEF handle, Refused
  <2>. QED BY <2>1, LeftAlone
<1>2. CASE admit(r) = "admitted" /\ r.method # "POST"
  <2>1. PICK said : o \in {[said |-> said, unit |-> u]}
    BY <1>2 DEF handle, Refused
  <2>. QED BY <2>1, LeftAlone
<1>3. CASE admit(r) = "admitted" /\ r.method = "POST"
  <2>1. CASE r.path = "/schedule"
    <3>1. o \in save_schedule(form, u) /\ About(r.path) = {"meals"} /\ Writes(r.path) = {"meals"}
      BY <1>3, <2>1 DEF handle, About, Writes
    <3>. QED BY <1>3, <3>1, ScheduleWithin
  <2>2. CASE r.path = "/feed"
    <3>1. o \in feed(form, u) /\ About(r.path) = {"feeds"} /\ Writes(r.path) = {}
      BY <1>3, <2>2 DEF handle, About, Writes
    <3>. QED BY <1>3, <3>1, FeedWithin
  <2>3. CASE r.path = "/pause"
    <3>1. o \in save_pause(form, u) /\ About(r.path) = {"paused"} /\ Writes(r.path) = {"paused"}
      BY <1>3, <2>3 DEF handle, About, Writes
    <3>. QED BY <1>3, <3>1, PauseWithin
  <2>4. CASE r.path = "/clock"
    <3>1. o \in clock(form, u) /\ About(r.path) = {"clock", "zone"} /\ Writes(r.path) = {"zone"}
      BY <1>3, <2>4 DEF handle, About, Writes
    <3>. QED BY <1>3, <3>1, ClockWithin
  <2>5. CASE r.path = "/calibration"
    <3>1. /\ o \in save_calibration(form, u) /\ About(r.path) = {"detent", "scale"}
          /\ Writes(r.path) = {"record"}
      BY <1>3, <2>5 DEF handle, About, Writes
    <3>. QED BY <1>3, <3>1, CalibrationWithin
  <2>6. CASE r.path = "/calibrate"
    <3>1. o.said = "Done" /\ o.unit = [u EXCEPT !.calibrate = TRUE]
      BY <1>3, <2>6 DEF handle, Done
    <3>2. About(r.path) = {"calibrate"}
      BY <2>6 DEF About
    <3>3. \A k \in DOMAIN u : k # "calibrate" => o.unit[k] = u[k]
      BY <3>1
    <3>. QED BY <1>3, <3>1, <3>2, <3>3, UnitIs DEF OutcomeWithin, Within, FlashFirst, Agrees
  <2>7. CASE r.path = "/network"
    <3>1. o \in save_network(form, u) /\ About(r.path) = {"network"} /\ Writes(r.path) = {"record"}
      BY <1>3, <2>7 DEF handle, About, Writes
    <3>. QED BY <1>3, <3>1, NetworkWithin
  <2>8. CASE r.path = "/erase"
    <3>1. o \in erase(form, u) /\ About(r.path) = {"erased"} /\ Writes(r.path) = Sectors
      BY <1>3, <2>8 DEF handle, About, Writes
    <3>. QED BY <1>3, <3>1, EraseWithin
  <2>9. CASE r.path \notin {"/schedule", "/feed", "/pause", "/clock", "/calibration",
                            "/calibrate", "/network", "/erase"}
    <3>1. o \in {[said |-> "405", unit |-> u]}
      BY <1>3, <2>9 DEF handle, Refused
    <3>. QED BY <1>3, <3>1, LeftAlone
  <2>. QED BY <2>1, <2>2, <2>3, <2>4, <2>5, <2>6, <2>7, <2>8, <2>9
<1>. QED BY <1>1, <1>2, <1>3

\* The least of some numbers, which stands in for induction.
LEMMA Least ==
  ASSUME NEW T \in SUBSET Nat, T # {}
  PROVE  \E x \in T : \A y \in T : x <= y
<1>. DEFINE R == OpToRel(<, Nat)
<1>1. IsWellFoundedOn(R, Nat)
  BY NatLessThanWellFounded
<1>2. \A x, y \in Nat : x < y => <<x, y>> \in R
  BY DEF OpToRel
<1>. HIDE DEF R
<1>3. \E x \in T : \A y \in T : ~ (<<y, x>> \in R)
  BY <1>1, WFMin, Zenon
<1>4. PICK x \in T : \A y \in T : ~ (<<y, x>> \in R)
  BY <1>3
<1>5. \A y \in T : x <= y
  <2>1. TAKE y \in T
  <2>2. x \in Nat /\ y \in Nat /\ ~(y < x)
    BY <1>2, <1>4
  <2>. QED BY <2>2
<1>. QED BY <1>5

\* The field that alone has a name is the field of that name.
LEMMA FieldIs ==
  ASSUME NEW form, NEW name, NEW i \in Nat, i \in DOMAIN form, form[i].name = name,
         \A j \in DOMAIN form : form[j].name = name => j = i
  PROVE  field(form, name) = form[i].value
<1>1. {j \in DOMAIN form : form[j].name = name} = {i}
  OBVIOUS
<1>2. Min({i}) = i
  BY DEF Min
<1>. QED BY <1>1, <1>2 DEF field

\* The assumptions, a few at a time.
LEMMA RowNames ==
  /\ MAX_MEALS \in Nat /\ DetentRange \subseteq Nat /\ ScaleRange \subseteq Nat
  /\ TimeName \in [1..MAX_MEALS -> Words] /\ PortionsName \in [1..MAX_MEALS -> Words]
  /\ \A i, j \in 1..MAX_MEALS : TimeName[i] # PortionsName[j]
  /\ \A i, j \in 1..MAX_MEALS : i # j => TimeName[i] # TimeName[j]
  /\ \A i, j \in 1..MAX_MEALS : i # j => PortionsName[i] # PortionsName[j]
BY PagesAssumption

LEMMA MealsCount == MAX_MEALS \in Nat
BY RowNames

LEMMA Ranges ==
  ASSUME NEW n, n \in DetentRange \/ n \in ScaleRange
  PROVE  n \in Nat /\ n \in Int /\ n # -1
<1>1. DetentRange \subseteq Nat /\ ScaleRange \subseteq Nat
  BY RowNames
<1>2. n \in Nat
  BY <1>1
<1>. QED BY <1>2

\* The empty text is none of the other words a value has.
LEMMA EmptyIs == Empty \notin {"absent", "long", "bad", "number", "time"}
BY DEF Empty

LEMMA AreWords == Empty \in Words /\ "absent" \in Words /\ "number" \in Words /\ "time" \in Words
BY PagesAssumption

LEMMA FormWords ==
  /\ "at" \in Words /\ "zone" \in Words /\ "rule" \in Words
  /\ "detent_ms" \in Words /\ "portion_scale" \in Words
  /\ "wifi_ssid" \in Words /\ "wifi_password" \in Words /\ "mqtt_host" \in Words
  /\ "mqtt_port" \in Words /\ "mqtt_user" \in Words /\ "mqtt_password" \in Words
BY PagesAssumption

LEMMA RequestsTyped ==
  ASSUME NEW s \in Connections, NEW r \in Requests[s]
  PROVE  r.form \in Forms /\ r.content_length \in Nat
BY PagesAssumption

LEMMA PortsAreNumbers == \A p \in Ports : p \in Nat
BY DEF Ports

\* The same, for a form of which each field is known.
LEMMA FieldAlone ==
  ASSUME NEW form, NEW name, NEW value, NEW i \in Nat,
         i \in DOMAIN form /\ form[i].name = name /\ form[i].value = value,
         \A j \in DOMAIN form : j # i => form[j].name # name
  PROVE  field(form, name) = value
BY FieldIs

\* Absent is a value like any other.
LEMMA AbsentIs == Absent \in Values /\ Absent.text = "absent"
<1>1. Absent = [text |-> "absent", n |-> -1]
  BY DEF Absent, Word, Value
<1>2. [text |-> "absent", n |-> -1] \in [text : Words, n : {-1}]
  BY AreWords
<1>. QED BY <1>1, <1>2 DEF Values

\* A value whose text is no number's or time's is that text and nothing else.
LEMMA ValueTyped ==
  ASSUME NEW v \in Values
  PROVE  v.text \in Words /\ v.n \in Int /\ (v.text = "absent" => v = Absent)
<1>1. v.text \in Words /\ v.n \in Int
  <2>1. CASE v \in [text : Words, n : {-1}]
    BY <2>1
  <2>2. CASE v \in [text : {"number", "time"}, n : Int]
    BY <2>2, AreWords
  <2>. QED BY <2>1, <2>2 DEF Values
<1>2. ASSUME v.text = "absent" PROVE v = Absent
  <2>1. v \in [text : Words, n : {-1}]
    BY <1>2 DEF Values
  <2>2. v = [text |-> "absent", n |-> -1]
    BY <1>2, <2>1
  <2>. QED BY <2>2 DEF Absent, Word, Value
<1>. QED BY <1>1, <1>2

\* The fields of a form.
LEMMA FormTyped ==
  ASSUME NEW form \in Forms, NEW i \in DOMAIN form
  PROVE  i \in Nat /\ form[i].value \in Values /\ form[i].name \in Words
<1>1. DOMAIN form = 1..Len(form) /\ Len(form) \in Nat
  BY DEF Forms
<1>2. form[i] \in [name : Words, value : Values]
  BY <1>1, ElementOfSeq DEF Forms
<1>. QED BY <1>1, <1>2

\* Whatever is asked for by name is a value.
LEMMA FieldTyped ==
  ASSUME NEW form \in Forms, NEW name
  PROVE  field(form, name) \in Values
<1>. DEFINE hits == {i \in DOMAIN form : form[i].name = name}
<1>1. CASE hits = {}
  BY <1>1, AbsentIs DEF field
<1>2. CASE hits # {}
  <2>1. \A i \in DOMAIN form : i \in Nat /\ form[i].value \in Values
    BY FormTyped
  <2>2. PICK i \in hits : \A j \in hits : i <= j
    BY <1>2, <2>1, Least
  <2>3. Min(hits) \in hits
    <3>. HIDE DEF hits
    <3>. QED BY <2>2 DEF Min
  <2>4. field(form, name) = form[Min(hits)].value
    BY <1>2 DEF field
  <2>. QED BY <2>1, <2>3, <2>4
<1>. QED BY <1>1, <1>2

\* There is a last row with a time, or none.
LEMMA RowsUsed ==
  ASSUME NEW form
  PROVE  rows_used(form) \in 0..MAX_MEALS
<1>. DEFINE Ends(n) == \A i \in (n + 1)..MAX_MEALS : Blank(row_time(form, i))
            T == {n \in 0..MAX_MEALS : Ends(n)}
<1>1. MAX_MEALS \in T
  BY MealsCount
<1>2. PICK n \in T : \A m \in T : n <= m
  <2>1. T \subseteq Nat
    BY MealsCount
  <2>. QED BY <1>1, <2>1, Least
<1>3. n > 0 => ~Blank(row_time(form, n))
  <2>1. SUFFICES ASSUME n > 0, Blank(row_time(form, n)) PROVE FALSE
    OBVIOUS
  <2>2. n - 1 \in 0..MAX_MEALS /\ \A i \in ((n - 1) + 1)..MAX_MEALS : i = n \/ i \in (n + 1)..MAX_MEALS
    BY <1>2, <2>1, MealsCount
  <2>3. Ends(n - 1)
    BY <1>2, <2>1, <2>2
  <2>. QED BY <1>2, <2>2, <2>3, MealsCount
<1>. QED BY <1>2, <1>3 DEF rows_used

\* The rows of any form make a schedule, if they make one.
LEMMA ScheduleTyped ==
  ASSUME NEW form \in Forms, schedule_from_form(form).ok
  PROVE  schedule_from_form(form).meals \in MealLists
<1>1. PICK n \in 0..MAX_MEALS : n = rows_used(form)
  BY RowsUsed
<1>2. schedule_from_form(form) = [ok |-> TRUE, meals |-> [i \in 1..n |-> row_meal(form, i)]]
  BY <1>1 DEF schedule_from_form
<1>3. \A i \in 1..n : row_meal(form, i) \in [minute : Int, portions : Int]
  <2>1. SUFFICES ASSUME NEW i \in 1..n PROVE row_meal(form, i) \in [minute : Int, portions : Int]
    OBVIOUS
  <2>2. row_time(form, i) \in Values /\ row_portions(form, i) \in Values
    BY FieldTyped DEF row_time, row_portions
  <2>3. row_time(form, i).n \in Int /\ row_portions(form, i).n \in Int
    BY <2>2, ValueTyped
  <2>. QED BY <2>3 DEF row_meal
<1>4. n \in Nat
  BY MealsCount
<1>5. PICK meals : meals = [i \in 1..n |-> row_meal(form, i)]
  OBVIOUS
<1>6. meals \in Seq([minute : Int, portions : Int]) /\ Len(meals) = n
  BY <1>3, <1>4, <1>5
<1>. QED BY <1>1, <1>2, <1>5, <1>6, MealsCount DEF MealLists

\* What is required is there, and is a name.
LEMMA RequiredIsName ==
  ASSUME NEW form \in Forms, NEW name, required(form, name)
  PROVE  text_of(form, name) \in Names
<1>1. PICK v \in Values : v = field(form, name)
  BY FieldTyped
<1>2. v.text \in Words /\ v.text \notin {Empty, "absent", "long", "bad"}
  BY <1>1, ValueTyped DEF required, fits, Blank, Undecoded
<1>3. v # Absent
  BY <1>2, AbsentIs
<1>. QED BY <1>1, <1>2, <1>3 DEF text_of, Names, Users

\* What fits is a user, and may be none.
LEMMA FitsIsUser ==
  ASSUME NEW form \in Forms, NEW name, fits(form, name)
  PROVE  text_of(form, name) \in Users
<1>1. PICK v \in Values : v = field(form, name)
  BY FieldTyped
<1>2. v.text \in Words /\ v.text \notin {"long", "bad"} /\ (v.text = "absent" => v = Absent)
  BY <1>1, ValueTyped DEF fits, Undecoded
<1>3. text_of(form, name) = IF v = Absent THEN Empty ELSE v.text
  BY <1>1 DEF text_of
<1>. QED BY <1>2, <1>3, AreWords, EmptyIs DEF Users

LEMMA TextIsString ==
  ASSUME NEW form \in Forms, NEW name
  PROVE  text_of(form, name) \in Words
BY FieldTyped, ValueTyped, AreWords DEF text_of

\* A form that is taken names a network; so does one that keeps its passwords.
LEMMA RecordTyped ==
  ASSUME NEW form \in Forms, record_from_form(form).ok
  PROVE  record_from_form(form).record \in Networks
<1>1. /\ field(form, "mqtt_port").n \in Ports
      /\ required(form, "mqtt_host") /\ text_of(form, "mqtt_host") \in Addresses
      /\ required(form, "wifi_ssid") /\ fits(form, "mqtt_user")
  BY DEF record_from_form
<1>2. record_from_form(form).record =
        [wifi_ssid |-> text_of(form, "wifi_ssid"),
         wifi_password |-> text_of(form, "wifi_password"),
         mqtt_host |-> text_of(form, "mqtt_host"),
         mqtt_port |-> field(form, "mqtt_port").n,
         mqtt_user |-> text_of(form, "mqtt_user"),
         mqtt_password |-> text_of(form, "mqtt_password")]
  BY DEF record_from_form
<1>3. text_of(form, "wifi_ssid") \in Names /\ text_of(form, "mqtt_host") \in Names \cap Addresses
  BY <1>1, RequiredIsName
<1>4. text_of(form, "mqtt_user") \in Users
  BY <1>1, FitsIsUser
<1>5. text_of(form, "wifi_password") \in Words /\ text_of(form, "mqtt_password") \in Words
  BY TextIsString
<1>. QED BY <1>1, <1>2, <1>3, <1>4, <1>5 DEF Networks

LEMMA NetworkTyped ==
  ASSUME NEW form \in Forms, NEW current \in Networks, network_from_form(form, current).ok
  PROVE  network_from_form(form, current).record \in Networks
<1>1. PICK wifi, mqtt :
        wifi = kept(form, "wifi_password", current.wifi_password)
          /\ mqtt = kept(form, "mqtt_password", current.mqtt_password)
  OBVIOUS
<1>2. wifi \in Words /\ mqtt \in Words
  <2>1. current.wifi_password \in Words /\ current.mqtt_password \in Words
    BY DEF Networks
  <2>. QED BY <1>1, <2>1, TextIsString DEF kept
<1>3. record_from_form(form).ok
  BY DEF network_from_form
<1>4. PICK record \in Networks : record = record_from_form(form).record
  BY <1>3, RecordTyped
<1>5. network_from_form(form, current).record =
        [record EXCEPT !.wifi_password = wifi, !.mqtt_password = mqtt]
  BY <1>1, <1>3, <1>4 DEF network_from_form
<1>6. [record EXCEPT !.wifi_password = wifi, !.mqtt_password = mqtt] \in Networks
  BY <1>2, <1>4 DEF Networks
<1>. QED BY <1>5, <1>6

\* What is in flash stays what it can be, whichever sector is written or blanked.
LEMMA FlashEdited ==
  ASSUME NEW f \in FlashType
  PROVE  /\ \A x \in Held : [f EXCEPT !.meals = x] \in FlashType
         /\ \A x \in BOOLEAN : [f EXCEPT !.paused = x] \in FlashType
         /\ \A x \in ZonesKept : [f EXCEPT !.zone = x] \in FlashType
         /\ \A k \in Sectors : [f EXCEPT ![k] = Blanked[k]] \in FlashType
         /\ f.meals \in Held /\ f.paused \in BOOLEAN /\ f.zone \in ZonesKept \cup {NoZone}
<1>1. \A x \in Held : [f EXCEPT !.meals = x] \in FlashType
  BY DEF FlashType
<1>2. \A x \in BOOLEAN : [f EXCEPT !.paused = x] \in FlashType
  BY DEF FlashType
<1>3. \A x \in ZonesKept \cup {NoZone} : [f EXCEPT !.zone = x] \in FlashType
  BY DEF FlashType
<1>4. [f EXCEPT !.record = FALSE] \in FlashType
  BY DEF FlashType
<1>5. <<>> \in Held
  BY EmptySeq DEF Held
<1>6. /\ Blanked["record"] = FALSE /\ Blanked["meals"] = <<>> /\ Blanked["zone"] = NoZone
      /\ Blanked["paused"] = FALSE
  BY DEF Blanked
<1>7. ASSUME NEW k \in Sectors PROVE [f EXCEPT ![k] = Blanked[k]] \in FlashType
  BY <1>1, <1>2, <1>3, <1>4, <1>5, <1>6 DEF Sectors
<1>8. f.meals \in Held /\ f.paused \in BOOLEAN /\ f.zone \in ZonesKept \cup {NoZone}
  BY DEF FlashType
<1>. QED BY <1>1, <1>2, <1>3, <1>7, <1>8

\* What a form may change of a unit leaves it one.
LEMMA UnitEdited ==
  ASSUME NEW u \in UnitType
  PROVE  /\ \A x \in Held : [u EXCEPT !.meals = x] \in UnitType
         /\ \A x \in FlashType : [u EXCEPT !.flash = x] \in UnitType
         /\ \A x \in Held, f \in FlashType : [u EXCEPT !.meals = x, !.flash = f] \in UnitType
         /\ \A x \in BOOLEAN, f \in FlashType : [u EXCEPT !.paused = x, !.flash = f] \in UnitType
         /\ \A x \in ZonesKept, f \in FlashType : [u EXCEPT !.zone = x, !.flash = f] \in UnitType
         /\ \A x \in Int : [u EXCEPT !.clock = x] \in UnitType
         /\ \A x \in DetentRange, y \in ScaleRange :
              [u EXCEPT !.detent = x, !.scale = y] \in UnitType
         /\ \A x \in Networks : [u EXCEPT !.network = x] \in UnitType
         /\ [u EXCEPT !.feeds = @ + 1] \in UnitType
         /\ [u EXCEPT !.calibrate = TRUE] \in UnitType
         /\ [u EXCEPT !.erased = TRUE] \in UnitType
         /\ [u EXCEPT !.feeds = 0, !.calibrate = FALSE] \in UnitType
         /\ Booted(u) \in UnitType
<1>1. \A x \in Held : [u EXCEPT !.meals = x] \in UnitType
  BY DEF UnitType
<1>2. \A x \in FlashType : [u EXCEPT !.flash = x] \in UnitType
  BY DEF UnitType
<1>3. \A x \in Held, f \in FlashType : [u EXCEPT !.meals = x, !.flash = f] \in UnitType
  BY DEF UnitType
<1>4. \A x \in BOOLEAN, f \in FlashType : [u EXCEPT !.paused = x, !.flash = f] \in UnitType
  BY DEF UnitType
<1>5. \A x \in ZonesKept, f \in FlashType : [u EXCEPT !.zone = x, !.flash = f] \in UnitType
  BY DEF UnitType
<1>6. \A x \in Int : [u EXCEPT !.clock = x] \in UnitType
  BY DEF UnitType
<1>7. \A x \in DetentRange, y \in ScaleRange : [u EXCEPT !.detent = x, !.scale = y] \in UnitType
  BY DEF UnitType
<1>8. \A x \in Networks : [u EXCEPT !.network = x] \in UnitType
  BY DEF UnitType
<1>9. [u EXCEPT !.feeds = @ + 1] \in UnitType
  BY DEF UnitType
<1>10. [u EXCEPT !.calibrate = TRUE] \in UnitType
  BY DEF UnitType
<1>11. [u EXCEPT !.erased = TRUE] \in UnitType
  BY DEF UnitType
<1>12. [u EXCEPT !.feeds = 0, !.calibrate = FALSE] \in UnitType
  BY DEF UnitType
<1>13. Booted(u) \in UnitType
  <2>1. PICK f \in FlashType : f = u.flash
    BY UnitIs
  <2>2. f.meals \in Held /\ f.zone \in ZonesKept \cup {NoZone} /\ f.paused \in BOOLEAN
    BY FlashEdited
  <2>3. u.network \in Networks
    BY DEF UnitType
  <2>4. PICK v : v = [u EXCEPT !.meals = f.meals, !.zone = f.zone, !.paused = f.paused]
    OBVIOUS
  <2>5. v \in UnitType
    BY <2>2, <2>4 DEF UnitType
  <2>6. PICK w : w = [v EXCEPT !.running = u.network]
    OBVIOUS
  <2>7. w \in UnitType
    BY <2>3, <2>5, <2>6 DEF UnitType
  <2>8. Booted(u) = [w EXCEPT !.feeds = 0, !.calibrate = FALSE]
    BY <2>1, <2>4, <2>6, UnitIs DEF Booted
  <2>9. [w EXCEPT !.feeds = 0, !.calibrate = FALSE] \in UnitType
    BY <2>7 DEF UnitType
  <2>. QED BY <2>8, <2>9
<1>. QED
  BY <1>1, <1>2, <1>3, <1>4, <1>5, <1>6, <1>7, <1>8, <1>9, <1>10, <1>11, <1>12, <1>13

\* Each form leaves the unit one.
LEMMA ProblemTyped ==
  ASSUME NEW u \in UnitType, NEW o, o \in Problem(u)
  PROVE  o.unit \in UnitType
BY DEF Problem

LEMMA NotWrittenTyped ==
  ASSUME NEW u \in UnitType, NEW place \in Sectors, NEW v, v \in NotWritten(u, place)
  PROVE  v \in UnitType
<1>1. PICK f \in FlashType : f = u.flash
  BY UnitIs
<1>2. [f EXCEPT ![place] = Blanked[place]] \in FlashType
  BY FlashEdited
<1>3. v = u \/ v = [u EXCEPT !.flash = [f EXCEPT ![place] = Blanked[place]]]
  BY <1>1 DEF NotWritten
<1>. QED BY <1>2, <1>3, UnitEdited, Zenon

LEMMA NotSavedTyped ==
  ASSUME NEW u \in UnitType, NEW place \in Sectors, NEW o, o \in NotSaved(u, place)
  PROVE  o.unit \in UnitType
<1>1. o.unit \in NotWritten(u, place)
  BY DEF NotSaved
<1>. QED BY <1>1, NotWrittenTyped

LEMMA AcceptTyped ==
  ASSUME NEW u \in UnitType, NEW meals \in Held, NEW v, v \in accept_schedule(meals, u)
  PROVE  v \in UnitType
<1>1. PICK f \in FlashType : f = u.flash
  BY UnitIs
<1>2. CASE v = [u EXCEPT !.meals = meals, !.flash.meals = meals]
  <2>1. v = [u EXCEPT !.meals = meals, !.flash = [f EXCEPT !.meals = meals]]
    BY <1>1, <1>2
  <2>2. [f EXCEPT !.meals = meals] \in FlashType
    BY FlashEdited
  <2>. QED BY <2>1, <2>2, UnitEdited, Zenon
<1>3. ASSUME NEW w, w \in NotWritten(u, "meals"), v = [w EXCEPT !.meals = meals]
      PROVE  v \in UnitType
  <2>1. w \in UnitType
    BY <1>3, NotWrittenTyped DEF Sectors
  <2>. QED BY <1>3, <2>1, UnitEdited, Zenon
<1>. QED BY <1>2, <1>3 DEF accept_schedule

\* One schedule, or none.
LEMMA HeldIs ==
  /\ \A meals \in MealLists : <<meals>> \in Held
  /\ \A held \in Held : held = <<>> \/ \E meals \in MealLists : held = <<meals>>
<1>1. ASSUME NEW meals \in MealLists PROVE <<meals>> \in Held
  BY DEF Held
<1>2. ASSUME NEW held \in Held, held # <<>> PROVE \E meals \in MealLists : held = <<meals>>
  <2>1. PICK lists : lists = MealLists
    OBVIOUS
  <2>2. held \in Seq(lists) /\ Len(held) \in Nat /\ Len(held) <= 1 /\ DOMAIN held = 1..Len(held)
    BY <2>1 DEF Held
  <2>3. Len(held) # 0
    BY <1>2, <2>2, EmptySeq
  <2>4. Len(held) = 1
    BY <2>2, <2>3
  <2>5. held[1] \in lists
    BY <2>2, <2>4, ElementOfSeq
  <2>6. <<held[1]>> \in Seq(lists) /\ Len(<<held[1]>>) = 1 /\ <<held[1]>>[1] = held[1]
    BY <2>5
  <2>7. held = <<held[1]>>
    BY <2>2, <2>4, <2>6, SeqEqual
  <2>. QED BY <2>1, <2>5, <2>7
<1>. QED BY <1>1, <1>2

LEMMA SaveScheduleTyped ==
  ASSUME NEW form \in Forms, NEW u \in UnitType, NEW o, o \in save_schedule(form, u)
  PROVE  o.unit \in UnitType
<1>1. PICK wanted : wanted = <<schedule_from_form(form).meals>>
  OBVIOUS
<1>2. CASE ~schedule_from_form(form).ok
  <2>1. o \in Problem(u)
    BY <1>2 DEF save_schedule
  <2>. QED BY <2>1, ProblemTyped
<1>3. CASE schedule_from_form(form).ok
  <2>1. wanted \in Held
    BY <1>1, <1>3, ScheduleTyped, HeldIs
  <2>2. o \in Problem(u) \/ o.unit = u \/ o.unit \in accept_schedule(wanted, u)
    BY <1>1, <1>3 DEF save_schedule, Done
  <2>. QED BY <2>1, <2>2, ProblemTyped, AcceptTyped
<1>. QED BY <1>2, <1>3

LEMMA SavePauseTyped ==
  ASSUME NEW form, NEW u \in UnitType, NEW o, o \in save_pause(form, u)
  PROVE  o.unit \in UnitType
<1>1. PICK on \in BOOLEAN : on = (field(form, "paused").text = "on")
  BY Zenon
<1>2. CASE o \in Problem(u) \/ o = Done(u) \/ o \in NotSaved(u, "paused")
  BY <1>2, ProblemTyped, NotSavedTyped DEF Done, Sectors
<1>3. CASE o = Done([u EXCEPT !.paused = on, !.flash.paused = on])
  <2>1. PICK f \in FlashType : f = u.flash
    BY UnitIs
  <2>2. PICK g \in FlashType : g = [f EXCEPT !.paused = on]
    BY FlashEdited
  <2>3. o.unit = [u EXCEPT !.paused = on, !.flash = g]
    BY <1>3, <2>1, <2>2 DEF Done
  <2>4. \A x \in BOOLEAN, h \in FlashType : [u EXCEPT !.paused = x, !.flash = h] \in UnitType
    BY UnitEdited, Zenon
  <2>. QED BY <2>3, <2>4
<1>. QED BY <1>1, <1>2, <1>3, Zenon DEF save_pause

LEMMA ClockTyped ==
  ASSUME NEW form \in Forms, NEW u \in UnitType, NEW o, o \in clock(form, u)
  PROVE  o.unit \in UnitType
<1>1. PICK at \in Values, name \in Values, rule \in Values :
        at = field(form, "at") /\ name = field(form, "zone") /\ rule = field(form, "rule")
  BY FieldTyped
<1>2. PICK wanted : wanted = [u EXCEPT !.clock = IF Blank(at) \/ Undecoded(at) THEN @ ELSE at.n]
  OBVIOUS
<1>3. PICK kept_zone : kept_zone = [name |-> name.text, rule |-> rule.text]
  OBVIOUS
<1>4. wanted \in UnitType
  <2>1. u.clock \in Int /\ at.n \in Int
    BY ValueTyped DEF UnitType
  <2>2. PICK now \in Int : wanted = [u EXCEPT !.clock = now]
    BY <1>2, <2>1
  <2>. QED BY <2>2, UnitEdited, Zenon
<1>5. CASE o \in Problem(u)
  BY <1>5, ProblemTyped
<1>6. CASE o.unit = wanted \/ o.unit \in NotWritten(wanted, "zone")
  BY <1>4, <1>6, NotWrittenTyped DEF Sectors
<1>7. CASE ~Blank(name) /\ ~Undecoded(name) /\ ~Blank(rule) /\ rule.text \in ZoneRules
             /\ o.unit = [wanted EXCEPT !.zone = kept_zone, !.flash.zone = kept_zone]
  <2>1. name.text \in Names
    BY <1>7, ValueTyped DEF Blank, Undecoded, Names, Users
  <2>2. rule.text \in ZoneTexts
    BY <1>7, ValueTyped DEF Blank, ZoneTexts
  <2>3. kept_zone \in ZonesKept
    BY <1>3, <2>1, <2>2 DEF ZonesKept
  <2>4. PICK f \in FlashType : f = wanted.flash
    BY <1>4, UnitIs
  <2>5. PICK g \in FlashType : g = [f EXCEPT !.zone = kept_zone]
    BY <2>3, FlashEdited
  <2>6. o.unit = [wanted EXCEPT !.zone = kept_zone, !.flash = g]
    BY <1>7, <2>4, <2>5
  <2>7. \A x \in ZonesKept, h \in FlashType : [wanted EXCEPT !.zone = x, !.flash = h] \in UnitType
    BY <1>4, UnitEdited, Zenon
  <2>. QED BY <2>3, <2>6, <2>7
<1>8. \/ o \in Problem(u)
      \/ o.unit = wanted \/ o.unit \in NotWritten(wanted, "zone")
      \/ ~Blank(name) /\ ~Undecoded(name) /\ ~Blank(rule) /\ rule.text \in ZoneRules
             /\ o.unit = [wanted EXCEPT !.zone = kept_zone, !.flash.zone = kept_zone]
  BY <1>1, <1>2, <1>3 DEF clock, Done
<1>. QED BY <1>5, <1>6, <1>7, <1>8

LEMMA FigureTyped ==
  ASSUME NEW form, NEW name, NEW range, NEW now \in range, figure(form, name, now, range) # -1
  PROVE  figure(form, name, now, range) \in range
BY DEF figure

LEMMA SaveCalibrationTyped ==
  ASSUME NEW form \in Forms, NEW u \in UnitType, NEW o, o \in save_calibration(form, u)
  PROVE  o.unit \in UnitType
<1>1. PICK detent, scale :
        /\ detent = figure(form, "detent_ms", u.detent, DetentRange)
        /\ scale = figure(form, "portion_scale", u.scale, ScaleRange)
  OBVIOUS
<1>2. CASE o \in Problem(u) \/ o = Done(u) \/ o \in NotSaved(u, "record")
  BY <1>2, ProblemTyped, NotSavedTyped DEF Done, Sectors
<1>3. CASE detent # -1 /\ scale # -1 /\ o = Done([u EXCEPT !.detent = detent, !.scale = scale])
  <2>1. detent # -1 /\ scale # -1 /\ o.unit = [u EXCEPT !.detent = detent, !.scale = scale]
    BY <1>3 DEF Done
  <2>2. u.detent \in DetentRange /\ u.scale \in ScaleRange
    BY DEF UnitType
  <2>3. detent \in DetentRange /\ scale \in ScaleRange
    BY <1>1, <2>1, <2>2, FigureTyped
  <2>4. [u EXCEPT !.detent = detent, !.scale = scale] \in UnitType
    BY <2>3, UnitEdited, Zenon
  <2>. QED BY <2>1, <2>4, Zenon
<1>. QED BY <1>1, <1>2, <1>3, Zenon DEF save_calibration

LEMMA SaveNetworkTyped ==
  ASSUME NEW form \in Forms, NEW u \in UnitType, NEW o, o \in save_network(form, u)
  PROVE  o.unit \in UnitType
<1>1. PICK got : got = network_from_form(form, u.network)
  OBVIOUS
<1>2. CASE o \in Problem(u) \/ o \in NotSaved(u, "record")
  BY <1>2, ProblemTyped, NotSavedTyped DEF Sectors
<1>3. CASE o.unit = u
  BY <1>3
<1>4. CASE got.ok /\ o.unit = [u EXCEPT !.network = got.record]
  <2>1. u.network \in Networks
    BY DEF UnitType
  <2>2. got.record \in Networks
    BY <1>1, <1>4, <2>1, NetworkTyped
  <2>. QED BY <1>4, <2>2, UnitEdited, ZenonT(40)
<1>. QED BY <1>1, <1>2, <1>3, <1>4 DEF save_network, Done

LEMMA EraseTyped ==
  ASSUME NEW form, NEW u \in UnitType, NEW o, o \in erase(form, u)
  PROVE  o.unit \in UnitType
<1>1. ASSUME NEW sectors PROVE erase_all(u, sectors) \in UnitType
  <2>1. PICK f : f = [k \in Sectors |-> IF k \in sectors THEN Blanked[k] ELSE u.flash[k]]
    OBVIOUS
  <2>2. /\ Blanked["record"] \in BOOLEAN /\ Blanked["meals"] \in Held
        /\ Blanked["zone"] \in ZonesKept \cup {NoZone} /\ Blanked["paused"] \in BOOLEAN
    BY EmptySeq DEF Blanked, Held
  <2>3. PICK g \in FlashType : g = u.flash
    BY UnitIs
  <2>4. /\ g["record"] \in BOOLEAN /\ g["meals"] \in Held
        /\ g["zone"] \in ZonesKept \cup {NoZone} /\ g["paused"] \in BOOLEAN
    BY DEF FlashType
  <2>5. f \in FlashType
    <3>1. /\ f["record"] \in BOOLEAN /\ f["meals"] \in Held
          /\ f["zone"] \in ZonesKept \cup {NoZone} /\ f["paused"] \in BOOLEAN
      BY <2>1, <2>2, <2>3, <2>4 DEF Sectors
    <3>2. f = [record |-> f["record"], meals |-> f["meals"], zone |-> f["zone"],
               paused |-> f["paused"]]
      BY <2>1 DEF Sectors
    <3>. QED BY <3>1, <3>2 DEF FlashType
  <2>. QED BY <2>1, <2>5, UnitEdited DEF erase_all
<1>2. CASE o = [said |-> "Erased", unit |-> [erase_all(u, Sectors) EXCEPT !.erased = TRUE]]
  <2>1. PICK v \in UnitType : v = erase_all(u, Sectors)
    BY <1>1
  <2>2. o.unit = [v EXCEPT !.erased = TRUE]
    BY <1>2, <2>1
  <2>. QED BY <2>2, UnitEdited, Zenon
<1>3. ASSUME NEW sectors, o = [said |-> "Problem", unit |-> erase_all(u, sectors)]
      PROVE  o.unit \in UnitType
  BY <1>1, <1>3
<1>4. \/ o \in Problem(u)
      \/ o = [said |-> "Erased", unit |-> [erase_all(u, Sectors) EXCEPT !.erased = TRUE]]
      \/ \E sectors : o = [said |-> "Problem", unit |-> erase_all(u, sectors)]
  BY Zenon DEF erase
<1>. QED BY <1>2, <1>3, <1>4, ProblemTyped

\* Whatever is handled, the unit stays one.
LEMMA HandleTyped ==
  ASSUME NEW r, NEW form \in Forms, NEW u \in UnitType, NEW o, o \in handle(r, form, u)
  PROVE  o.unit \in UnitType
<1>1. CASE \E said : o \in Refused(said, u)
  <2>1. o.unit = u
    BY <1>1 DEF Refused
  <2>. QED BY <2>1
<1>2. CASE o \in {Done([u EXCEPT !.calibrate = TRUE])}
  <2>1. o.unit = [u EXCEPT !.calibrate = TRUE]
    BY <1>2 DEF Done
  <2>. QED BY <2>1, UnitEdited, Zenon
<1>3. CASE o \in feed(form, u)
  <2>1. o \in Problem(u) \/ o.unit = [u EXCEPT !.feeds = @ + 1]
    BY <1>3 DEF feed, Done
  <2>. QED BY <2>1, ProblemTyped, UnitEdited
<1>4. CASE \/ o \in save_schedule(form, u) \/ o \in save_pause(form, u) \/ o \in clock(form, u)
           \/ o \in save_calibration(form, u) \/ o \in save_network(form, u) \/ o \in erase(form, u)
  BY <1>4, SaveScheduleTyped, SavePauseTyped, ClockTyped, SaveCalibrationTyped,
     SaveNetworkTyped, EraseTyped
<1>5. \/ \E said : o \in Refused(said, u)
      \/ o \in {Done([u EXCEPT !.calibrate = TRUE])} \/ o \in feed(form, u)
      \/ o \in save_schedule(form, u) \/ o \in save_pause(form, u) \/ o \in clock(form, u)
      \/ o \in save_calibration(form, u) \/ o \in save_network(form, u) \/ o \in erase(form, u)
  BY Zenon DEF handle
<1>. QED BY <1>1, <1>2, <1>3, <1>4, <1>5

\* A form as it is drawn is one, and is sent whole.
LEMMA ValuesDrawn ==
  /\ \A w \in Words : Word(w) \in Values
  /\ \A n \in Int : Number(n) \in Values /\ TimeOfDay(n) \in Values
<1>1. \A w \in Words : Word(w) \in Values
  BY DEF Word, Value, Values
<1>2. \A n \in Int : Number(n) \in Values /\ TimeOfDay(n) \in Values
  BY DEF Number, TimeOfDay, Value, Values
<1>. QED BY <1>1, <1>2

\* A field that is drawn.
LEMMA FieldDrawn ==
  ASSUME NEW name \in Words, NEW value \in Values
  PROVE  /\ Field(name, value) \in [name : Words, value : Values]
         /\ Field(name, value).name = name /\ Field(name, value).value = value
BY DEF Field

\* The meals of a schedule.
LEMMA MealTyped ==
  ASSUME NEW meals \in MealLists
  PROVE  /\ Len(meals) \in Nat /\ Len(meals) <= MAX_MEALS /\ DOMAIN meals = 1..Len(meals)
         /\ \A i \in DOMAIN meals : /\ meals[i] \in [minute : Int, portions : Int]
                                   /\ meals[i].minute \in Int /\ meals[i].portions \in Int
<1>1. /\ meals \in Seq([minute : Int, portions : Int]) /\ Len(meals) <= MAX_MEALS
      /\ Len(meals) \in Nat /\ DOMAIN meals = 1..Len(meals)
  BY DEF MealLists
<1>2. \A i \in DOMAIN meals : meals[i] \in [minute : Int, portions : Int]
  BY <1>1, ElementOfSeq
<1>. QED BY <1>1, <1>2

\* What the row of a meal shows, and an empty row.
ShownTime(meals, i) == IF i \in DOMAIN meals THEN TimeOfDay(meals[i].minute) ELSE Word(Empty)
ShownPortions(meals, i) == IF i \in DOMAIN meals THEN Number(meals[i].portions) ELSE Word(Empty)

LEMMA ShownTyped ==
  ASSUME NEW meals \in MealLists, NEW i
  PROVE  ShownTime(meals, i) \in Values /\ ShownPortions(meals, i) \in Values
<1>1. i \in DOMAIN meals => meals[i].minute \in Int /\ meals[i].portions \in Int
  BY MealTyped
<1>. QED BY <1>1, ValuesDrawn, AreWords DEF ShownTime, ShownPortions

\* A unit without a schedule shows an empty one.
LEMMA ShownIs ==
  ASSUME NEW u \in UnitType
  PROVE  /\ shown_meals(u.meals) \in MealLists
         /\ u.meals = <<>> => shown_meals(u.meals) = <<>>
         /\ u.meals # <<>> => u.meals = <<shown_meals(u.meals)>>
<1>1. u.meals \in Held
  BY DEF UnitType
<1>2. CASE u.meals = <<>>
  <2>1. shown_meals(u.meals) = <<>>
    BY <1>2 DEF shown_meals
  <2>2. <<>> \in Seq([minute : Int, portions : Int]) /\ Len(<<>>) = 0
    BY EmptySeq
  <2>3. <<>> \in MealLists
    BY <2>2, MealsCount DEF MealLists
  <2>. QED BY <1>2, <2>1, <2>3
<1>3. CASE u.meals # <<>>
  <2>1. PICK meals \in MealLists : u.meals = <<meals>>
    BY <1>1, <1>3, HeldIs
  <2>2. shown_meals(u.meals) = meals
    BY <1>3, <2>1 DEF shown_meals
  <2>. QED BY <1>3, <2>1, <2>2
<1>. QED BY <1>2, <1>3

\* The rows as they are drawn, in their order.
LEMMA DrawnScheduleTyped ==
  ASSUME NEW meals \in MealLists
  PROVE  /\ render_slots(meals) \in Forms /\ Len(render_slots(meals)) = 2 * MAX_MEALS
         /\ \A i \in 1..MAX_MEALS :
              /\ render_slots(meals)[2 * i - 1] = Field(TimeName[i], ShownTime(meals, i))
              /\ render_slots(meals)[2 * i] = Field(PortionsName[i], ShownPortions(meals, i))
<1>. DEFINE form == render_slots(meals)
<1>1. form = [j \in 1..(2 * MAX_MEALS) |->
                IF j % 2 = 1
                THEN Field(TimeName[(j + 1) \div 2], ShownTime(meals, (j + 1) \div 2))
                ELSE Field(PortionsName[(j + 1) \div 2], ShownPortions(meals, (j + 1) \div 2))]
  BY DEF render_slots, ShownTime, ShownPortions
<1>2. ASSUME NEW i \in 1..MAX_MEALS
      PROVE  /\ form[2 * i - 1] = Field(TimeName[i], ShownTime(meals, i))
             /\ form[2 * i] = Field(PortionsName[i], ShownPortions(meals, i))
  <2>1. /\ 2 * i - 1 \in 1..(2 * MAX_MEALS) /\ 2 * i \in 1..(2 * MAX_MEALS)
        /\ (2 * i - 1) % 2 = 1 /\ (2 * i) % 2 = 0
        /\ ((2 * i - 1) + 1) \div 2 = i /\ (2 * i + 1) \div 2 = i
    BY MealsCount
  <2>. HIDE DEF form
  <2>. QED BY <1>1, <2>1
<1>3. ASSUME NEW j \in 1..(2 * MAX_MEALS) PROVE form[j] \in [name : Words, value : Values]
  <2>1. PICK i \in 1..MAX_MEALS : j = 2 * i - 1 \/ j = 2 * i
    <3>1. (j + 1) \div 2 \in 1..MAX_MEALS /\ (j = 2 * ((j + 1) \div 2) - 1 \/ j = 2 * ((j + 1) \div 2))
      BY MealsCount
    <3>. QED BY <3>1
  <2>2. TimeName[i] \in Words /\ PortionsName[i] \in Words
    BY RowNames
  <2>3. form[j] \in {Field(TimeName[i], ShownTime(meals, i)), Field(PortionsName[i], ShownPortions(meals, i))}
    BY <1>2, <2>1
  <2>. QED BY <2>2, <2>3, ShownTyped, FieldDrawn
<1>4. PICK drawn : drawn = form
  OBVIOUS
<1>5. drawn \in Seq([name : Words, value : Values]) /\ Len(drawn) = 2 * MAX_MEALS
  <2>1. drawn = [j \in 1..(2 * MAX_MEALS) |-> drawn[j]]
    BY <1>1, <1>4
  <2>2. \A j \in 1..(2 * MAX_MEALS) : drawn[j] \in [name : Words, value : Values]
    BY <1>3, <1>4
  <2>3. 2 * MAX_MEALS \in Nat
    BY MealsCount
  <2>4. drawn \in [1..(2 * MAX_MEALS) -> [name : Words, value : Values]]
    BY <2>1, <2>2, Zenon
  <2>5. drawn \in Seq([name : Words, value : Values])
    <3>1. PICK n \in Nat : n = 2 * MAX_MEALS
      BY <2>3
    <3>2. PICK entry : entry = [name : Words, value : Values]
      OBVIOUS
    <3>3. drawn \in [1..n -> entry]
      BY <2>4, <3>1, <3>2
    <3>. QED BY <3>2, <3>3, SeqDef
  <2>6. DOMAIN drawn = 1..Len(drawn) /\ Len(drawn) \in Nat
    BY <2>5, LenProperties
  <2>7. DOMAIN drawn = 1..(2 * MAX_MEALS)
    BY <2>4
  <2>. QED BY <2>3, <2>5, <2>6, <2>7
<1>. QED BY <1>2, <1>4, <1>5 DEF Forms

\* What a browser has for the zones it knows.
LEMMA BrowserIs ==
  ASSUME NEW b \in Browsers
  PROVE  /\ b.own \in DOMAIN b.rules /\ DOMAIN b.rules \subseteq Names
         /\ \A z \in DOMAIN b.rules : b.rules[z] \in ZoneTexts
BY PagesAssumption

\* What the script puts in the clock form is a zone with its rule.
LEMMA ZoneFilledTyped ==
  ASSUME NEW u \in UnitType, NEW b \in Browsers
  PROVE  ZoneFilled(u, b) \in ZonesKept
<1>1. PICK name, rule : /\ name = zone_shown(u, b)
                        /\ rule = IF name \in DOMAIN b.rules THEN b.rules[name] ELSE u.zone.rule
  OBVIOUS
<1>2. ZoneFilled(u, b) = [name |-> name, rule |-> rule]
  BY <1>1 DEF ZoneFilled
<1>3. CASE u.zone = NoZone
  <2>1. name = b.own
    BY <1>1, <1>3 DEF zone_shown
  <2>2. name \in Names /\ rule \in ZoneTexts
    BY <1>1, <2>1, BrowserIs
  <2>. QED BY <1>2, <2>2 DEF ZonesKept
<1>4. CASE u.zone # NoZone
  <2>1. u.zone.name \in Names /\ u.zone.rule \in ZoneTexts
    BY <1>4 DEF UnitType, ZonesKept
  <2>2. name \in Names
    BY <1>1, <1>4, <2>1 DEF zone_shown
  <2>3. rule \in ZoneTexts
    BY <1>1, <2>1, BrowserIs
  <2>. QED BY <1>2, <2>2, <2>3 DEF ZonesKept
<1>. QED BY <1>3, <1>4

\* The other three forms.
LEMMA DrawnClockTyped ==
  ASSUME NEW u \in UnitType, NEW form \in render_clock(u)
  PROVE  form \in Forms
<1>1. u.zone.rule \in Words
  <2>1. u.zone \in ZonesKept \/ u.zone = NoZone
    BY DEF UnitType
  <2>2. CASE u.zone \in ZonesKept
    BY <2>2 DEF ZonesKept, ZoneTexts
  <2>3. CASE u.zone = NoZone
    BY <2>3, AreWords DEF NoZone
  <2>. QED BY <2>1, <2>2, <2>3
<1>2. CASE form = <<Field("at", Word(Empty)), Field("rule", Word(u.zone.rule))>>
  <2>1. /\ Field("at", Word(Empty)) \in [name : Words, value : Values]
        /\ Field("rule", Word(u.zone.rule)) \in [name : Words, value : Values]
    BY <1>1, AreWords, FormWords, ValuesDrawn, FieldDrawn
  <2>. QED BY <1>2, <2>1 DEF Forms
<1>3. ASSUME NEW b \in Browsers,
             form = <<Field("at", Word(Empty)), Field("zone", Word(ZoneFilled(u, b).name)),
                      Field("rule", Word(ZoneFilled(u, b).rule))>>
      PROVE  form \in Forms
  <2>1. PICK new_zone \in ZonesKept : new_zone = ZoneFilled(u, b)
    BY ZoneFilledTyped
  <2>2. new_zone.name \in Words /\ new_zone.rule \in Words
    BY DEF ZonesKept, Names, Users, ZoneTexts
  <2>3. /\ Field("at", Word(Empty)) \in [name : Words, value : Values]
        /\ Field("zone", Word(new_zone.name)) \in [name : Words, value : Values]
        /\ Field("rule", Word(new_zone.rule)) \in [name : Words, value : Values]
    BY <2>2, AreWords, FormWords, ValuesDrawn, FieldDrawn
  <2>. QED BY <1>3, <2>1, <2>3 DEF Forms
<1>. QED BY <1>2, <1>3 DEF render_clock

LEMMA DrawnCalibrationTyped ==
  ASSUME NEW u \in UnitType
  PROVE  /\ render_calibration(u) \in Forms /\ Len(render_calibration(u)) = 2
<1>1. u.detent \in Int /\ u.scale \in Int
  <2>1. u.detent \in DetentRange /\ u.scale \in ScaleRange
    BY DEF UnitType
  <2>. QED BY <2>1, Ranges
<1>2. /\ Field("detent_ms", Number(u.detent)) \in [name : Words, value : Values]
      /\ Field("portion_scale", Number(u.scale)) \in [name : Words, value : Values]
  BY <1>1, FormWords, ValuesDrawn, FieldDrawn
<1>. QED BY <1>2 DEF render_calibration, Forms

LEMMA DrawnNetworkTyped ==
  ASSUME NEW u \in UnitType
  PROVE  /\ render_network(u) \in Forms /\ Len(render_network(u)) = 6
<1>1. u.running \in Networks
  BY DEF UnitType
<1>2. /\ u.running.wifi_ssid \in Words /\ u.running.mqtt_host \in Words
      /\ u.running.mqtt_user \in Words
  BY <1>1 DEF Networks, Names, Users
<1>3. u.running.mqtt_port \in Int
  <2>1. u.running.mqtt_port \in Ports
    BY <1>1 DEF Networks
  <2>. QED BY <2>1, PortsAreNumbers
<1>4. /\ Field("wifi_ssid", Word(u.running.wifi_ssid)) \in [name : Words, value : Values]
      /\ Field("wifi_password", Word(Empty)) \in [name : Words, value : Values]
      /\ Field("mqtt_host", Word(u.running.mqtt_host)) \in [name : Words, value : Values]
      /\ Field("mqtt_port", Number(u.running.mqtt_port)) \in [name : Words, value : Values]
      /\ Field("mqtt_user", Word(u.running.mqtt_user)) \in [name : Words, value : Values]
      /\ Field("mqtt_password", Word(Empty)) \in [name : Words, value : Values]
  BY <1>2, <1>3, AreWords, FormWords, ValuesDrawn, FieldDrawn
<1>. QED BY <1>4 DEF render_network, Forms

\* Each of the forms, and all of it is sent.
LEMMA DrawnTyped ==
  ASSUME NEW u \in UnitType, NEW r \in Drawn(u)
  PROVE  r.form \in Forms /\ r.content_length = Len(r.form) /\ r.content_length \in Nat
<1>1. PICK path, form : /\ r = Post(path, form)
                        /\ \/ form \in {render_schedule(u), render_calibration(u), render_network(u)}
                           \/ form \in render_clock(u)
  BY DEF Drawn
<1>2. form \in Forms
  <2>1. render_schedule(u) \in Forms
    BY ShownIs, DrawnScheduleTyped DEF render_schedule
  <2>. QED BY <1>1, <2>1, DrawnClockTyped, DrawnCalibrationTyped, DrawnNetworkTyped
<1>3. r.form = form /\ r.content_length = Len(form)
  BY <1>1 DEF Post
<1>4. Len(form) \in Nat
  BY <1>2 DEF Forms
<1>. QED BY <1>2, <1>3, <1>4

\* What of a body was read is a form.
LEMMA BodyTyped ==
  ASSUME NEW form \in Forms, NEW n \in 0..Len(form)
  PROVE  SubSeq(form, 1, n) \in Forms
<1>1. form \in Seq([name : Words, value : Values]) /\ Len(form) \in Nat
  BY DEF Forms
<1>2. PICK entry : entry = [name : Words, value : Values]
  OBVIOUS
<1>3. form \in Seq(entry) /\ 1 \in 1..(Len(form) + 1) /\ n \in (1 - 1)..Len(form)
  BY <1>1, <1>2
<1>4. SubSeq(form, 1, n) \in Seq(entry)
  BY <1>3, SubSeqProperties
<1>. QED BY <1>2, <1>4 DEF Forms

\* The request that a connection reads.
Typed(c) ==
  c.state = "reading" =>
    /\ c.request.form \in Forms /\ c.request.content_length \in Nat
    /\ c.got \in 0..Len(c.request.form)

\* Of each connection.
LEMMA PagesTypeIs ==
  PagesTypeOK <=> /\ unit \in UnitType /\ DOMAIN conn = Connections
                  /\ \A s \in Connections : Typed(conn[s])
BY DEF PagesTypeOK, Typed

\* It holds at first, and every step keeps it.
LEMMA PagesInitTyped == PagesInit => PagesTypeOK
<1>. SUFFICES ASSUME PagesInit PROVE PagesTypeOK
  OBVIOUS
<1>1. unit \in UnitType
  <2>1. Units \subseteq UnitType
    BY PagesAssumption
  <2>. QED BY <2>1 DEF PagesInit
<1>2. DOMAIN conn = Connections /\ \A s \in Connections : conn[s].state = "idle"
  BY DEF PagesInit, Idle
<1>. QED BY <1>1, <1>2 DEF PagesTypeOK

LEMMA PagesStepTyped ==
  ASSUME PagesTypeOK, [PagesNext]_pages_vars
  PROVE  PagesTypeOK'
<1>1. /\ unit \in UnitType /\ DOMAIN conn = Connections
      /\ \A c \in Connections : Typed(conn[c])
  BY PagesTypeIs
<1>2. SUFFICES /\ unit' \in UnitType /\ DOMAIN conn' = Connections
               /\ \A c \in Connections : Typed(conn'[c])
  BY DEF PagesTypeOK, Typed
<1>3. ASSUME NEW s \in Connections, NEW new, conn' = [conn EXCEPT ![s] = new], Typed(new)
      PROVE  DOMAIN conn' = Connections /\ \A c \in Connections : Typed(conn'[c])
  BY <1>1, <1>3
<1>4. ASSUME NEW new, new.state # "reading" PROVE Typed(new)
  BY <1>4 DEF Typed
<1>5. ASSUME conn' = [c \in Connections |-> Idle]
      PROVE  DOMAIN conn' = Connections /\ \A c \in Connections : Typed(conn'[c])
  BY <1>5, <1>4 DEF Idle
<1>6. ASSUME NEW s \in Connections, Accepts(s)
      PROVE  unit' \in UnitType /\ DOMAIN conn' = Connections /\ \A c \in Connections : Typed(conn'[c])
  <2>1. PICK r, n, new :
          /\ r \in Requests[s] \/ r \in Drawn(unit)
          /\ n \in 0..1
          /\ conn' = [conn EXCEPT ![s] = new] /\ unit' = unit
          /\ new = [state |-> "reading", request |-> r, got |-> IF n < Len(r.form) THEN n ELSE Len(r.form)]
    BY <1>6 DEF Accepts
  <2>2. r.form \in Forms /\ r.content_length \in Nat
    <3>1. CASE r \in Requests[s]
      BY <3>1, RequestsTyped
    <3>2. CASE r \in Drawn(unit)
      BY <1>1, <3>2, DrawnTyped
    <3>. QED BY <2>1, <3>1, <3>2
  <2>3. Len(r.form) \in Nat
    BY <2>2 DEF Forms
  <2>4. Typed(new)
    <3>1. new.request = r /\ new.got \in 0..Len(r.form)
      BY <2>1, <2>3
    <3>. QED BY <2>2, <3>1 DEF Typed
  <2>. QED BY <1>1, <1>3, <2>1, <2>4
<1>7. ASSUME NEW s \in Connections, ReadsOn(s)
      PROVE  unit' \in UnitType /\ DOMAIN conn' = Connections /\ \A c \in Connections : Typed(conn'[c])
  <2>1. PICK c : c = conn[s]
    OBVIOUS
  <2>2. c.state = "reading" /\ c.got < Len(c.request.form) /\ unit' = unit
    BY <1>7, <2>1 DEF ReadsOn, Waiting
  <2>3. PICK new : new = [c EXCEPT !.got = @ + 1]
    OBVIOUS
  <2>4. conn' = [conn EXCEPT ![s] = new]
    BY <1>7, <2>1, <2>3 DEF ReadsOn
  <2>5. Typed(c)
    BY <1>1, <2>1
  <2>6. Typed(new)
    <3>1. /\ c.request.form \in Forms /\ c.request.content_length \in Nat
          /\ c.got \in 0..Len(c.request.form) /\ Len(c.request.form) \in Nat
      BY <2>2, <2>5 DEF Typed, Forms
    <3>2. new.request = c.request /\ (new.got = c.got + 1 \/ new.got = c.got)
      BY <2>3
    <3>3. new.got \in 0..Len(c.request.form)
      BY <2>2, <3>1, <3>2
    <3>. QED BY <3>1, <3>2, <3>3 DEF Typed
  <2>. QED BY <1>1, <1>3, <2>2, <2>4, <2>6
<1>8. ASSUME NEW s \in Connections, GivesUp(s) \/ Recycles(s)
      PROVE  unit' \in UnitType /\ DOMAIN conn' = Connections /\ \A c \in Connections : Typed(conn'[c])
  <2>1. conn' = [conn EXCEPT ![s] = Idle] /\ unit' = unit
    BY <1>8 DEF GivesUp, Recycles
  <2>2. Typed(Idle)
    BY <1>4 DEF Idle
  <2>. QED BY <1>1, <1>3, <2>1, <2>2
<1>9. ASSUME NEW s \in Connections, Handles(s)
      PROVE  unit' \in UnitType /\ DOMAIN conn' = Connections /\ \A c \in Connections : Typed(conn'[c])
  <2>1. PICK r, body, o :
          /\ r = conn[s].request
          /\ body = SubSeq(r.form, 1, IF r.content_length < conn[s].got THEN r.content_length
                                      ELSE conn[s].got)
          /\ o \in handle(r, body, unit) /\ unit' = o.unit
          /\ conn' = [conn EXCEPT ![s] = [state |-> "answered", said |-> o.said]]
    BY <1>9 DEF Handles
  <2>2. conn[s].state = "reading"
    BY <1>9 DEF Handles, Complete
  <2>3. /\ r.form \in Forms /\ r.content_length \in Nat /\ conn[s].got \in 0..Len(r.form)
        /\ Len(r.form) \in Nat
    <3>1. Typed(conn[s])
      BY <1>1
    <3>2. r.form \in Forms /\ r.content_length \in Nat /\ conn[s].got \in 0..Len(r.form)
      BY <2>1, <2>2, <3>1 DEF Typed
    <3>. QED BY <3>2 DEF Forms
  <2>4. body \in Forms
    <3>1. (IF r.content_length < conn[s].got THEN r.content_length ELSE conn[s].got) \in 0..Len(r.form)
      BY <2>3
    <3>. QED BY <2>1, <2>3, <3>1, BodyTyped
  <2>5. unit' \in UnitType
    BY <1>1, <2>1, <2>4, HandleTyped
  <2>6. PICK new : new = [state |-> "answered", said |-> o.said]
    OBVIOUS
  <2>7. Typed(new)
    BY <2>6, <1>4
  <2>. QED BY <1>3, <2>1, <2>5, <2>6, <2>7
<1>10. ASSUME NEW s \in Connections, restart_after(s)
      PROVE  unit' \in UnitType /\ DOMAIN conn' = Connections /\ \A c \in Connections : Typed(conn'[c])
  <2>1. unit' = Booted(unit) \/ unit' \in Units
    BY <1>10 DEF restart_after
  <2>2. unit' \in UnitType
    <3>1. Units \subseteq UnitType
      BY PagesAssumption
    <3>. QED BY <1>1, <2>1, <3>1, UnitEdited, Zenon
  <2>. QED BY <1>5, <1>10, <2>2 DEF restart_after
<1>11. ASSUME FeederTakes
       PROVE  unit' \in UnitType /\ DOMAIN conn' = Connections /\ \A c \in Connections : Typed(conn'[c])
  <2>1. unit' \in UnitType
    BY <1>1, <1>11, UnitEdited DEF FeederTakes
  <2>. QED BY <1>1, <1>11, <2>1 DEF FeederTakes
<1>12. ASSUME SetUpAgain
       PROVE  unit' \in UnitType /\ DOMAIN conn' = Connections /\ \A c \in Connections : Typed(conn'[c])
  <2>1. Units \subseteq UnitType
    BY PagesAssumption
  <2>. QED BY <1>5, <1>12, <2>1 DEF SetUpAgain
<1>13. CASE UNCHANGED pages_vars
  BY <1>1, <1>13 DEF pages_vars
<1>. QED BY <1>6, <1>7, <1>8, <1>9, <1>10, <1>11, <1>12, <1>13 DEF PagesNext

\* A unit to which each thing it holds is given again is the unit it was.
LEMMA SameUnit ==
  ASSUME NEW u \in UnitType
  PROVE  [u EXCEPT !.clock = u.clock] = u /\ [u EXCEPT !.detent = u.detent, !.scale = u.scale] = u
<1>1. [u EXCEPT !.clock = u.clock] = u
  BY DEF UnitType
<1>2. [u EXCEPT !.detent = u.detent, !.scale = u.scale] = u
  BY DEF UnitType
<1>. QED BY <1>1, <1>2

\* What a word and a number read as.
LEMMA WordIs ==
  ASSUME NEW w
  PROVE  /\ Word(w).text = w /\ (w # "absent" => Word(w) # Absent)
         /\ Blank(Word(w)) = (w \in {Empty, "absent"}) /\ Undecoded(Word(w)) = (w \in {"long", "bad"})
BY DEF Word, Value, Absent, Blank, Undecoded

LEMMA NumberIs ==
  ASSUME NEW n
  PROVE  /\ Number(n).n = n /\ Number(n) # Absent /\ ~Blank(Number(n)) /\ ~Undecoded(Number(n))
BY EmptyIs DEF Number, Word, Value, Absent, Blank, Undecoded

\* The figures of the calibration are read as they were.
LEMMA CalibrationAsDrawn ==
  ASSUME NEW u \in UnitType, NEW o, o \in save_calibration(render_calibration(u), u)
  PROVE  o.unit = u /\ o.said # "Problem"
<1>1. PICK form : form = render_calibration(u)
  OBVIOUS
<1>2. /\ DOMAIN form = 1..2
      /\ form[1].name = "detent_ms" /\ form[1].value = Number(u.detent)
      /\ form[2].name = "portion_scale" /\ form[2].value = Number(u.scale)
  BY <1>1 DEF render_calibration, Field
<1>3. field(form, "detent_ms") = Number(u.detent)
  <2>1. \A j \in DOMAIN form : j # 1 => form[j].name # "detent_ms"
    BY <1>2
  <2>2. 1 \in Nat /\ 1 \in DOMAIN form
    BY <1>2
  <2>3. form[1].name = "detent_ms" /\ form[1].value = Number(u.detent)
    BY <1>2
  <2>. QED BY <2>1, <2>2, <2>3, FieldAlone
<1>4. field(form, "portion_scale") = Number(u.scale)
  <2>1. \A j \in DOMAIN form : j # 2 => form[j].name # "portion_scale"
    BY <1>2
  <2>2. 2 \in Nat /\ 2 \in DOMAIN form
    BY <1>2
  <2>3. form[2].name = "portion_scale" /\ form[2].value = Number(u.scale)
    BY <1>2
  <2>. QED BY <2>1, <2>2, <2>3, FieldAlone
<1>5. u.detent \in DetentRange /\ u.scale \in ScaleRange
  BY DEF UnitType
<1>6. figure(form, "detent_ms", u.detent, DetentRange) = u.detent
  BY <1>3, <1>5, NumberIs DEF figure
<1>7. figure(form, "portion_scale", u.scale, ScaleRange) = u.scale
  BY <1>4, <1>5, NumberIs DEF figure
<1>8. u.detent # -1 /\ u.scale # -1
  BY <1>5, Ranges
<1>9. o = Done(u)
  BY <1>1, <1>6, <1>7, <1>8, SameUnit DEF save_calibration
<1>. QED BY <1>9 DEF Done

\* Without the script no time and no zone is asked for.
LEMMA PlainClockAsDrawn ==
  ASSUME NEW u \in UnitType,
         NEW form, form = <<Field("at", Word(Empty)), Field("rule", Word(u.zone.rule))>>,
         NEW o, o \in clock(form, u)
  PROVE  o.unit = u /\ o.said = "Done"
<1>1. /\ DOMAIN form = 1..2
      /\ form[1].name = "at" /\ form[1].value = Word(Empty) /\ form[2].name = "rule"
  BY DEF Field
<1>2. field(form, "at") = Word(Empty)
  <2>1. \A j \in DOMAIN form : j # 1 => form[j].name # "at"
    BY <1>1
  <2>2. 1 \in Nat /\ 1 \in DOMAIN form
    BY <1>1
  <2>3. PICK empty : empty = Word(Empty)
    OBVIOUS
  <2>4. form[1].name = "at" /\ form[1].value = empty
    BY <1>1, <2>3
  <2>5. field(form, "at") = empty
    BY <2>1, <2>2, <2>4, FieldAlone
  <2>. QED BY <2>3, <2>5
<1>3. field(form, "zone") = Absent
  <2>1. {j \in DOMAIN form : form[j].name = "zone"} = {}
    BY <1>1
  <2>. QED BY <2>1 DEF field
<1>4. Blank(Word(Empty)) /\ Blank(Absent)
  BY WordIs, AbsentIs DEF Blank
<1>5. PICK wanted : wanted = [u EXCEPT !.clock = IF Blank(Word(Empty)) \/ Undecoded(Word(Empty)) THEN @
                                                  ELSE Word(Empty).n]
  OBVIOUS
<1>6. wanted = u
  BY <1>4, <1>5, SameUnit
<1>7. o = Done(wanted)
  BY <1>2, <1>3, <1>4, <1>5 DEF clock
<1>. QED BY <1>6, <1>7 DEF Done

\* With it, no time, and the zone that the script put there.
LEMMA FilledClockAsDrawn ==
  ASSUME NEW u \in UnitType, NEW b \in Browsers,
         NEW form, form = <<Field("at", Word(Empty)), Field("zone", Word(ZoneFilled(u, b).name)),
                            Field("rule", Word(ZoneFilled(u, b).rule))>>,
         NEW o, o \in clock(form, u)
  PROVE  /\ \A k \in DOMAIN u : o.unit[k] # u[k] => k \in {"zone", "flash"}
         /\ o.unit.zone = u.zone \/ o.unit.zone = ZoneFilled(u, b)
         /\ o.said # "Problem"
<1>1. PICK new_zone \in ZonesKept : new_zone = ZoneFilled(u, b)
  BY ZoneFilledTyped
<1>2. /\ DOMAIN form = 1..3
      /\ form[1].name = "at" /\ form[1].value = Word(Empty)
      /\ form[2].name = "zone" /\ form[2].value = Word(new_zone.name)
      /\ form[3].name = "rule" /\ form[3].value = Word(new_zone.rule)
  BY <1>1 DEF Field
<1>3. field(form, "at") = Word(Empty)
  <2>1. \A j \in DOMAIN form : j # 1 => form[j].name # "at"
    BY <1>2
  <2>2. 1 \in Nat /\ 1 \in DOMAIN form
    BY <1>2
  <2>3. PICK empty : empty = Word(Empty)
    OBVIOUS
  <2>4. form[1].name = "at" /\ form[1].value = empty
    BY <1>2, <2>3
  <2>5. field(form, "at") = empty
    BY <2>1, <2>2, <2>4, FieldAlone
  <2>. QED BY <2>3, <2>5
<1>4. field(form, "zone") = Word(new_zone.name)
  <2>1. \A j \in DOMAIN form : j # 2 => form[j].name # "zone"
    BY <1>2
  <2>2. 2 \in Nat /\ 2 \in DOMAIN form
    BY <1>2
  <2>3. form[2].name = "zone" /\ form[2].value = Word(new_zone.name)
    BY <1>2
  <2>. QED BY <2>1, <2>2, <2>3, FieldAlone
<1>5. field(form, "rule") = Word(new_zone.rule)
  <2>1. \A j \in DOMAIN form : j # 3 => form[j].name # "rule"
    BY <1>2
  <2>2. 3 \in Nat /\ 3 \in DOMAIN form
    BY <1>2
  <2>3. form[3].name = "rule" /\ form[3].value = Word(new_zone.rule)
    BY <1>2
  <2>. QED BY <2>1, <2>2, <2>3, FieldAlone
<1>6. PICK wanted : wanted = [u EXCEPT !.clock = IF Blank(Word(Empty)) \/ Undecoded(Word(Empty)) THEN @
                                                  ELSE Word(Empty).n]
  OBVIOUS
<1>7. Blank(Word(Empty))
  BY WordIs
<1>8. wanted = u
  BY <1>6, <1>7, SameUnit
<1>9. /\ new_zone.name \notin {Empty, "absent", "long", "bad"}
      /\ new_zone.rule \in ZoneRules /\ new_zone.rule \notin {Empty, "absent"}
  BY DEF ZonesKept, Names, Users, ZoneTexts
<1>10. /\ ~Blank(Word(new_zone.name)) /\ ~Undecoded(Word(new_zone.name))
       /\ ~Blank(Word(new_zone.rule)) /\ Word(new_zone.rule).text \in ZoneRules
  BY <1>9, WordIs
<1>11. PICK kept_zone : kept_zone = [name |-> Word(new_zone.name).text, rule |-> Word(new_zone.rule).text]
  OBVIOUS
<1>12. kept_zone = new_zone
  BY <1>11, WordIs DEF ZonesKept
<1>13. \/ o = Done(wanted)
       \/ o = Done([wanted EXCEPT !.zone = kept_zone, !.flash.zone = kept_zone])
       \/ o \in {[said |-> "ZoneProblem", unit |-> v] : v \in NotWritten(wanted, "zone")}
  BY <1>3, <1>4, <1>5, <1>6, <1>7, <1>10, <1>11 DEF clock
<1>14. CASE o = Done(wanted)
  BY <1>8, <1>14 DEF Done
<1>15. CASE o = Done([wanted EXCEPT !.zone = kept_zone, !.flash.zone = kept_zone])
  <2>1. o.said = "Done" /\ o.unit = [u EXCEPT !.zone = new_zone, !.flash.zone = new_zone]
    BY <1>8, <1>12, <1>15 DEF Done
  <2>2. o.unit.zone = new_zone
    BY <2>1, UnitIs
  <2>3. \A k \in DOMAIN u : k \notin {"zone", "flash"} => o.unit[k] = u[k]
    BY <2>1
  <2>. QED BY <1>1, <2>1, <2>2, <2>3
<1>16. CASE o \in {[said |-> "ZoneProblem", unit |-> v] : v \in NotWritten(wanted, "zone")}
  <2>1. o.said = "ZoneProblem" /\ o.unit \in NotWritten(u, "zone")
    BY <1>8, <1>16
  <2>2. \A k \in DOMAIN u : k # "flash" => o.unit[k] = u[k]
    BY <2>1, Unwritten DEF Sectors
  <2>. QED BY <2>1, <2>2, UnitIs
<1>. QED BY <1>13, <1>14, <1>15, <1>16

\* The network in use, its passwords kept, if there still is a record to keep them from.
LEMMA NetworkAsDrawn ==
  ASSUME NEW u \in UnitType, u.network = u.running, NEW o, o \in save_network(render_network(u), u)
  PROVE  o.unit = u /\ (o.said = "Problem" => ~u.flash.record)
<1>1. PICK form : form = render_network(u)
  OBVIOUS
<1>2. PICK net \in Networks : net = u.network /\ net = u.running
  BY DEF UnitType
<1>3. /\ DOMAIN form = 1..6
      /\ form[1].name = "wifi_ssid" /\ form[1].value = Word(net.wifi_ssid)
      /\ form[2].name = "wifi_password" /\ form[2].value = Word(Empty)
      /\ form[3].name = "mqtt_host" /\ form[3].value = Word(net.mqtt_host)
      /\ form[4].name = "mqtt_port" /\ form[4].value = Number(net.mqtt_port)
      /\ form[5].name = "mqtt_user" /\ form[5].value = Word(net.mqtt_user)
      /\ form[6].name = "mqtt_password" /\ form[6].value = Word(Empty)
  BY <1>1, <1>2 DEF render_network, Field
<1>4. field(form, "wifi_ssid") = Word(net.wifi_ssid)
  <2>1. \A j \in DOMAIN form : j # 1 => form[j].name # "wifi_ssid"
    BY <1>3
  <2>2. 1 \in Nat /\ 1 \in DOMAIN form
    BY <1>3
  <2>3. form[1].name = "wifi_ssid" /\ form[1].value = Word(net.wifi_ssid)
    BY <1>3
  <2>. QED BY <2>1, <2>2, <2>3, FieldAlone
<1>5. field(form, "wifi_password") = Word(Empty)
  <2>1. \A j \in DOMAIN form : j # 2 => form[j].name # "wifi_password"
    BY <1>3
  <2>2. 2 \in Nat /\ 2 \in DOMAIN form
    BY <1>3
  <2>3. PICK empty : empty = Word(Empty)
    OBVIOUS
  <2>4. form[2].name = "wifi_password" /\ form[2].value = empty
    BY <1>3, <2>3
  <2>5. field(form, "wifi_password") = empty
    BY <2>1, <2>2, <2>4, FieldAlone
  <2>. QED BY <2>3, <2>5
<1>6. field(form, "mqtt_host") = Word(net.mqtt_host)
  <2>1. \A j \in DOMAIN form : j # 3 => form[j].name # "mqtt_host"
    BY <1>3
  <2>2. 3 \in Nat /\ 3 \in DOMAIN form
    BY <1>3
  <2>3. form[3].name = "mqtt_host" /\ form[3].value = Word(net.mqtt_host)
    BY <1>3
  <2>. QED BY <2>1, <2>2, <2>3, FieldAlone
<1>7. field(form, "mqtt_port") = Number(net.mqtt_port)
  <2>1. \A j \in DOMAIN form : j # 4 => form[j].name # "mqtt_port"
    BY <1>3
  <2>2. 4 \in Nat /\ 4 \in DOMAIN form
    BY <1>3
  <2>3. form[4].name = "mqtt_port" /\ form[4].value = Number(net.mqtt_port)
    BY <1>3
  <2>. QED BY <2>1, <2>2, <2>3, FieldAlone
<1>8. field(form, "mqtt_user") = Word(net.mqtt_user)
  <2>1. \A j \in DOMAIN form : j # 5 => form[j].name # "mqtt_user"
    BY <1>3
  <2>2. 5 \in Nat /\ 5 \in DOMAIN form
    BY <1>3
  <2>3. form[5].name = "mqtt_user" /\ form[5].value = Word(net.mqtt_user)
    BY <1>3
  <2>. QED BY <2>1, <2>2, <2>3, FieldAlone
<1>9. field(form, "mqtt_password") = Word(Empty)
  <2>1. \A j \in DOMAIN form : j # 6 => form[j].name # "mqtt_password"
    BY <1>3
  <2>2. 6 \in Nat /\ 6 \in DOMAIN form
    BY <1>3
  <2>3. PICK empty : empty = Word(Empty)
    OBVIOUS
  <2>4. form[6].name = "mqtt_password" /\ form[6].value = empty
    BY <1>3, <2>3
  <2>5. field(form, "mqtt_password") = empty
    BY <2>1, <2>2, <2>4, FieldAlone
  <2>. QED BY <2>3, <2>5
<1>10. /\ net.wifi_ssid \notin {Empty, "absent", "long", "bad"}
       /\ net.mqtt_host \notin {Empty, "absent", "long", "bad"} /\ net.mqtt_host \in Addresses
       /\ net.mqtt_user \notin {"absent", "long", "bad"} /\ net.mqtt_port \in Ports
  BY DEF Networks, Names, Users
<1>11. /\ text_of(form, "wifi_ssid") = net.wifi_ssid /\ text_of(form, "mqtt_host") = net.mqtt_host
       /\ text_of(form, "mqtt_user") = net.mqtt_user
  BY <1>4, <1>6, <1>8, <1>10, WordIs DEF text_of
<1>12. /\ required(form, "wifi_ssid") /\ required(form, "mqtt_host") /\ fits(form, "mqtt_user")
       /\ fits(form, "wifi_password") /\ fits(form, "mqtt_password")
  BY <1>4, <1>5, <1>6, <1>8, <1>9, <1>10, WordIs, EmptyIs DEF required, fits
<1>13. field(form, "mqtt_port").n = net.mqtt_port
  BY <1>7, NumberIs
<1>14. /\ kept(form, "wifi_password", net.wifi_password) = net.wifi_password
       /\ kept(form, "mqtt_password", net.mqtt_password) = net.mqtt_password
  BY <1>5, <1>9, WordIs DEF kept
<1>15. PICK wifi, mqtt :
         record_from_form(form) =
           [ok |-> TRUE,
            record |-> [wifi_ssid |-> net.wifi_ssid, wifi_password |-> wifi,
                        mqtt_host |-> net.mqtt_host, mqtt_port |-> net.mqtt_port,
                        mqtt_user |-> net.mqtt_user, mqtt_password |-> mqtt]]
  BY <1>10, <1>11, <1>12, <1>13 DEF record_from_form
<1>16. PICK got, first :
         got = network_from_form(form, net) /\ first = record_from_form(form)
  OBVIOUS
<1>17. PICK record \in Networks : first.ok /\ record = first.record
  <2>1. form \in Forms
    BY <1>1, DrawnNetworkTyped
  <2>. QED BY <1>15, <1>16, <2>1, RecordTyped
<1>18. got.ok /\ got.record = net
  <2>1. /\ record.wifi_ssid = net.wifi_ssid /\ record.mqtt_host = net.mqtt_host
        /\ record.mqtt_port = net.mqtt_port /\ record.mqtt_user = net.mqtt_user
    BY <1>15, <1>16, <1>17
  <2>2. [record EXCEPT !.wifi_password = net.wifi_password,
                       !.mqtt_password = net.mqtt_password] = net
    BY <2>1 DEF Networks
  <2>3. got = [ok |-> TRUE, record |-> net]
    BY <1>14, <1>16, <1>17, <2>2, Zenon DEF network_from_form
  <2>. QED BY <2>3
<1>19. CASE ~u.flash.record
  <2>1. o \in Problem(u)
    BY <1>19 DEF save_network
  <2>. QED BY <1>19, <2>1 DEF Problem
<1>20. CASE u.flash.record
  <2>1. o = Done(u)
    BY <1>1, <1>2, <1>16, <1>18, <1>20 DEF save_network
  <2>. QED BY <2>1 DEF Done
<1>. QED BY <1>19, <1>20

\* The rows below the last meal are empty, so that the meals are read as they were shown.
LEMMA MealsAsDrawn ==
  ASSUME NEW meals \in MealLists, schedule_from_form(render_slots(meals)).ok
  PROVE  schedule_from_form(render_slots(meals)).meals = meals
<1>1. PICK form : form = render_slots(meals)
  OBVIOUS
<1>3. PICK k \in Nat : k = Len(meals) /\ k <= MAX_MEALS /\ DOMAIN meals = 1..k
  BY MealTyped
<1>4. /\ DOMAIN form = 1..(2 * MAX_MEALS)
      /\ \A i \in 1..MAX_MEALS :
           /\ form[2 * i - 1].name = TimeName[i] /\ form[2 * i - 1].value = ShownTime(meals, i)
           /\ form[2 * i].name = PortionsName[i] /\ form[2 * i].value = ShownPortions(meals, i)
  <2>1. form \in Forms /\ Len(form) = 2 * MAX_MEALS
    BY <1>1, DrawnScheduleTyped
  <2>2. DOMAIN form = 1..(2 * MAX_MEALS)
    BY <2>1 DEF Forms
  <2>3. ASSUME NEW i \in 1..MAX_MEALS
        PROVE  /\ form[2 * i - 1].name = TimeName[i] /\ form[2 * i - 1].value = ShownTime(meals, i)
               /\ form[2 * i].name = PortionsName[i] /\ form[2 * i].value = ShownPortions(meals, i)
    <3>1. /\ form[2 * i - 1] = Field(TimeName[i], ShownTime(meals, i))
          /\ form[2 * i] = Field(PortionsName[i], ShownPortions(meals, i))
      BY <1>1, DrawnScheduleTyped
    <3>. QED BY <3>1 DEF Field
  <2>. QED BY <2>2, <2>3
<1>5. \A j \in DOMAIN form : \E i \in 1..MAX_MEALS : j = 2 * i - 1 \/ j = 2 * i
  <2>1. TAKE j \in DOMAIN form
  <2>2. j \in 1..(2 * MAX_MEALS)
    BY <1>4
  <2>3. (j + 1) \div 2 \in 1..MAX_MEALS /\ (j = 2 * ((j + 1) \div 2) - 1 \/ j = 2 * ((j + 1) \div 2))
    BY <2>2, MealsCount
  <2>. QED BY <2>3
<1>6. ASSUME NEW i \in 1..MAX_MEALS PROVE row_time(form, i) = ShownTime(meals, i)
  <2>1. 2 * i - 1 \in Nat /\ 2 * i - 1 \in DOMAIN form
    BY <1>4, MealsCount
  <2>2. ASSUME NEW j \in DOMAIN form, form[j].name = TimeName[i] PROVE j = 2 * i - 1
    <3>1. PICK n \in 1..MAX_MEALS : j = 2 * n - 1 \/ j = 2 * n
      BY <1>5
    <3>2. j # 2 * n
      <4>1. form[2 * n].name = PortionsName[n] /\ PortionsName[n] # TimeName[i]
        BY <1>4, RowNames
      <4>. QED BY <2>2, <4>1
    <3>3. j = 2 * n - 1
      BY <3>1, <3>2
    <3>4. TimeName[n] = TimeName[i]
      BY <1>4, <2>2, <3>3
    <3>5. n = i
      BY <3>4, RowNames
    <3>. QED BY <3>3, <3>5
  <2>3. field(form, TimeName[i]) = form[2 * i - 1].value
    BY <1>4, <2>1, <2>2, FieldIs, ZenonT(60)
  <2>. QED BY <1>4, <2>3 DEF row_time
<1>7. ASSUME NEW i \in 1..MAX_MEALS PROVE row_portions(form, i) = ShownPortions(meals, i)
  <2>1. 2 * i \in Nat /\ 2 * i \in DOMAIN form
    BY <1>4, MealsCount
  <2>2. ASSUME NEW j \in DOMAIN form, form[j].name = PortionsName[i] PROVE j = 2 * i
    <3>1. PICK n \in 1..MAX_MEALS : j = 2 * n - 1 \/ j = 2 * n
      BY <1>5
    <3>2. j # 2 * n - 1
      <4>1. form[2 * n - 1].name = TimeName[n] /\ TimeName[n] # PortionsName[i]
        BY <1>4, RowNames
      <4>. QED BY <2>2, <4>1
    <3>3. j = 2 * n
      BY <3>1, <3>2
    <3>4. PortionsName[n] = PortionsName[i]
      BY <1>4, <2>2, <3>3
    <3>5. n = i
      BY <3>4, RowNames
    <3>. QED BY <3>3, <3>5
  <2>3. field(form, PortionsName[i]) = form[2 * i].value
    BY <1>4, <2>1, <2>2, FieldIs, ZenonT(60)
  <2>. QED BY <1>4, <2>3 DEF row_portions
<1>8. ASSUME NEW i \in 1..k
      PROVE  /\ ~Blank(row_time(form, i)) /\ row_meal(form, i) = meals[i]
  <2>1. i \in 1..MAX_MEALS /\ i \in DOMAIN meals
    BY <1>3, MealsCount
  <2>2. row_time(form, i) = TimeOfDay(meals[i].minute)
    BY <1>6, <2>1 DEF ShownTime
  <2>3. row_portions(form, i) = Number(meals[i].portions)
    BY <1>7, <2>1 DEF ShownPortions
  <2>4. row_meal(form, i) = [minute |-> meals[i].minute, portions |-> meals[i].portions]
    BY <2>2, <2>3, NumberIs DEF row_meal, TimeOfDay, Value
  <2>5. meals[i] \in [minute : Int, portions : Int]
    BY <2>1, MealTyped
  <2>. QED BY <2>2, <2>4, <2>5, EmptyIs DEF TimeOfDay, Value, Blank
<1>9. ASSUME NEW i \in 1..MAX_MEALS, i > k PROVE Blank(row_time(form, i))
  <2>1. row_time(form, i) = Word(Empty)
    <3>1. i \notin DOMAIN meals
      BY <1>3, <1>9, MealsCount
    <3>. QED BY <1>6, <3>1 DEF ShownTime
  <2>. QED BY <2>1, WordIs
<1>10. rows_used(form) = k
  <2>1. /\ k \in 0..MAX_MEALS /\ (k > 0 => ~Blank(row_time(form, k)))
        /\ \A i \in (k + 1)..MAX_MEALS : Blank(row_time(form, i))
    BY <1>3, <1>8, <1>9, MealsCount
  <2>2. ASSUME NEW n \in 0..MAX_MEALS, n > 0 => ~Blank(row_time(form, n)),
               \A i \in (n + 1)..MAX_MEALS : Blank(row_time(form, i))
        PROVE  n = k
    <3>1. ~(n > k)
      BY <1>9, <2>2, MealsCount
    <3>2. ~(n < k)
      BY <1>3, <1>8, <2>2, MealsCount
    <3>. QED BY <3>1, <3>2, MealsCount
  <2>. QED BY <2>1, <2>2 DEF rows_used
<1>11. schedule_from_form(form).meals = [i \in 1..k |-> row_meal(form, i)]
  BY <1>1, <1>10 DEF schedule_from_form
<1>12. [i \in 1..k |-> row_meal(form, i)] = [i \in 1..k |-> meals[i]]
  BY <1>8
<1>13. meals = [i \in 1..k |-> meals[i]]
  BY <1>3 DEF MealLists
<1>. QED BY <1>1, <1>11, <1>12, <1>13

\* A unit that has a schedule keeps it; one that was never given any is given what it shows.
LEMMA ScheduleAsDrawn ==
  ASSUME NEW u \in UnitType, NEW o, o \in save_schedule(render_schedule(u), u)
  PROVE  /\ u.meals # <<>> => o.unit = u
         /\ o.unit.meals = u.meals \/ (u.meals = <<>> /\ o.unit.meals = << <<>> >>)
<1>1. PICK meals \in MealLists : meals = shown_meals(u.meals)
  BY ShownIs
<1>2. PICK got : got = schedule_from_form(render_slots(meals))
  OBVIOUS
<1>3. got.ok => got.meals = meals
  BY <1>2, MealsAsDrawn
<1>4. PICK wanted : wanted = <<got.meals>>
  OBVIOUS
<1>5. \/ o \in Problem(u) \/ o.unit = u
      \/ got.ok /\ wanted # u.meals /\ o.unit \in accept_schedule(wanted, u)
  BY <1>1, <1>2, <1>4 DEF save_schedule, render_schedule, Done
<1>6. CASE o \in Problem(u) \/ o.unit = u
  BY <1>6 DEF Problem
<1>7. CASE got.ok /\ wanted # u.meals /\ o.unit \in accept_schedule(wanted, u)
  <2>1. o.unit.meals = wanted /\ wanted = <<meals>>
    BY <1>3, <1>4, <1>7, AcceptedIs
  <2>2. u.meals = <<>> /\ meals = <<>>
    BY <1>1, <1>7, <2>1, ShownIs
  <2>. QED BY <2>1, <2>2
<1>. QED BY <1>5, <1>6, <1>7

\* What is handled does as it was asked.
LEMMA HandlesOnlyAskedFor ==
  ASSUME PagesTypeOK, NEW s \in Connections, Handles(s)
  PROVE  OnlyAskedFor(s)
<1>1. PICK r, form, o :
        /\ r = conn[s].request /\ o \in handle(r, form, unit)
        /\ unit' = o.unit
        /\ conn' = [conn EXCEPT ![s] = [state |-> "answered", said |-> o.said]]
        /\ conn[s].got >= r.content_length
  BY DEF Handles, Complete
<1>2. conn'[s].said = o.said
  BY <1>1 DEF PagesTypeOK
<1>3. /\ OutcomeWithin(o, unit, About(r.path), Writes(r.path))
      /\ Within(o, unit, {}) \/ (admit(r) = "admitted" /\ r.method = "POST")
  BY <1>1, HandleWithin DEF PagesTypeOK
<1>4. Changed \subseteq About(r.path) \cup {"flash"} /\ Touched \subseteq Writes(r.path)
  BY <1>1, <1>3 DEF Changed, Touched, OutcomeWithin, Within
<1>5. Changed # {} => r.method = "POST" /\ r.auth = "right" /\ r.origin # "other"
  <2>1. Changed # {} => admit(r) = "admitted" /\ r.method = "POST"
    BY <1>1, <1>3 DEF Changed, Within
  <2>. QED BY <2>1 DEF admit, authorized, same_origin
<1>6. conn'[s].said \notin {"Done", "Sent", "Restarting", "Erased"} =>
        /\ Changed \subseteq {"flash"} \cup (IF conn'[s].said = "ZoneProblem" THEN {"clock"} ELSE {})
        /\ \A k \in Touched : unit'.flash[k] = Blanked[k]
  BY <1>1, <1>2, <1>3 DEF Changed, Touched, OutcomeWithin, Within, Kept, Agrees
<1>7. /\ \A k \in {"paused", "zone"} : k \in Changed => unit'.flash[k] = unit'[k]
      /\ Changed \cap {"detent", "scale", "network"} # {} => unit'.flash.record
  BY <1>1, <1>3 DEF Changed, OutcomeWithin, FlashFirst
<1>. QED BY <1>1, <1>4, <1>5, <1>6, <1>7 DEF OnlyAskedFor

\* The form that a page drew is let in, and handled as what it is.
LEMMA DrawnIsHandled ==
  ASSUME NEW u \in UnitType, NEW r \in Drawn(u), NEW o, o \in handle(r, r.form, u)
  PROVE  \/ r.path = "/schedule" /\ o \in save_schedule(render_schedule(u), u)
         \/ r.path = "/clock" /\ r.form \in render_clock(u) /\ o \in clock(r.form, u)
         \/ r.path = "/calibration" /\ o \in save_calibration(render_calibration(u), u)
         \/ r.path = "/network" /\ o \in save_network(render_network(u), u)
<1>1. \/ r.path = "/schedule" /\ r.form = render_schedule(u)
      \/ r.path = "/clock" /\ r.form \in render_clock(u)
      \/ r.path = "/calibration" /\ r.form = render_calibration(u)
      \/ r.path = "/network" /\ r.form = render_network(u)
  BY DEF Drawn, Post
<1>2. r.method = "POST" /\ r.auth = "right" /\ r.origin = "self"
  BY DEF Drawn, Post
<1>3. admit(r) = "admitted"
  BY <1>2 DEF admit, authorized, same_origin
<1>4. CASE r.path = "/schedule"
  BY <1>1, <1>2, <1>3, <1>4 DEF handle
<1>5. CASE r.path = "/clock"
  BY <1>1, <1>2, <1>3, <1>5 DEF handle
<1>6. CASE r.path = "/calibration"
  BY <1>1, <1>2, <1>3, <1>6 DEF handle
<1>7. CASE r.path = "/network"
  BY <1>1, <1>2, <1>3, <1>7 DEF handle
<1>. QED BY <1>1, <1>4, <1>5, <1>6, <1>7

\* What is handled as it was drawn changes nothing but a schedule there was none of, and
\* the zone.
LEMMA HandlesAsDrawn ==
  ASSUME PagesTypeOK, NEW s \in Connections, Handles(s)
  PROVE  AsDrawn(s)
<1>1. PICK r, body, o :
        /\ r = conn[s].request
        /\ body = SubSeq(r.form, 1, IF r.content_length < conn[s].got THEN r.content_length
                                    ELSE conn[s].got)
        /\ o \in handle(r, body, unit) /\ unit' = o.unit
        /\ conn' = [conn EXCEPT ![s] = [state |-> "answered", said |-> o.said]]
        /\ conn[s].got >= r.content_length /\ conn[s].state = "reading"
  BY DEF Handles, Complete
<1>2. unit \in UnitType /\ conn[s].got \in 0..Len(r.form)
  BY <1>1 DEF PagesTypeOK
<1>3. conn'[s].said = o.said
  BY <1>1 DEF PagesTypeOK
<1>4. SUFFICES ASSUME r \in Drawn(unit), unit.network = unit.running
      PROVE  /\ r.path \in {"/calibration", "/network"} => o.unit = unit
             /\ r.path = "/schedule" =>
                  /\ o.unit.meals = unit.meals \/ (unit.meals = <<>> /\ o.unit.meals = << <<>> >>)
                  /\ unit.meals # <<>> => o.unit = unit
             /\ r.path = "/clock" =>
                  /\ \A k \in DOMAIN unit : o.unit[k] # unit[k] => k \in {"zone", "flash"}
                  /\ \/ o.unit.zone = unit.zone
                     \/ \E b \in Browsers : o.unit.zone = ZoneFilled(unit, b)
             /\ o.said = "Problem" =>
                  r.path = "/schedule" \/ (r.path = "/network" /\ ~unit.flash.record)
  BY <1>1, <1>3 DEF AsDrawn, Changed
<1>5. r.form \in Forms /\ r.content_length = Len(r.form) /\ Len(r.form) \in Nat
  BY <1>2, <1>4, DrawnTyped
<1>6. body = SubSeq(r.form, 1, Len(r.form))
  BY <1>1, <1>2, <1>5
<1>7. body = r.form
  BY <1>5, <1>6, SubSeqFull DEF Forms
<1>8. \/ r.path = "/schedule" /\ o \in save_schedule(render_schedule(unit), unit)
      \/ r.path = "/clock" /\ r.form \in render_clock(unit) /\ o \in clock(r.form, unit)
      \/ r.path = "/calibration" /\ o \in save_calibration(render_calibration(unit), unit)
      \/ r.path = "/network" /\ o \in save_network(render_network(unit), unit)
  BY <1>1, <1>2, <1>4, <1>7, DrawnIsHandled
<1>9. CASE r.path = "/schedule" /\ o \in save_schedule(render_schedule(unit), unit)
  BY <1>2, <1>9, ScheduleAsDrawn
<1>10. CASE r.path = "/clock" /\ r.form \in render_clock(unit) /\ o \in clock(r.form, unit)
  <2>1. \/ r.form = <<Field("at", Word(Empty)), Field("rule", Word(unit.zone.rule))>>
        \/ \E b \in Browsers :
             r.form = <<Field("at", Word(Empty)), Field("zone", Word(ZoneFilled(unit, b).name)),
                        Field("rule", Word(ZoneFilled(unit, b).rule))>>
    BY <1>10 DEF render_clock
  <2>2. CASE r.form = <<Field("at", Word(Empty)), Field("rule", Word(unit.zone.rule))>>
    <3>1. o.unit = unit /\ o.said = "Done"
      BY <1>2, <1>10, <2>2, PlainClockAsDrawn
    <3>. QED BY <1>10, <3>1
  <2>3. ASSUME NEW b \in Browsers,
               r.form = <<Field("at", Word(Empty)), Field("zone", Word(ZoneFilled(unit, b).name)),
                          Field("rule", Word(ZoneFilled(unit, b).rule))>>
        PROVE  /\ \A k \in DOMAIN unit : o.unit[k] # unit[k] => k \in {"zone", "flash"}
               /\ o.unit.zone = unit.zone \/ o.unit.zone = ZoneFilled(unit, b)
               /\ o.said # "Problem"
    BY <1>2, <1>10, <2>3, FilledClockAsDrawn
  <2>. QED BY <1>10, <2>1, <2>2, <2>3
<1>11. CASE r.path = "/calibration" /\ o \in save_calibration(render_calibration(unit), unit)
  BY <1>2, <1>11, CalibrationAsDrawn
<1>12. CASE r.path = "/network" /\ o \in save_network(render_network(unit), unit)
  BY <1>2, <1>4, <1>12, NetworkAsDrawn
<1>. QED BY <1>8, <1>9, <1>10, <1>11, <1>12

\* The unit stays one whatever is posted, and a request that is read stays one.
THEOREM PagesTypeCorrect == PagesSpec => []PagesTypeOK
<1>1. PagesTypeOK /\ [PagesNext]_pages_vars => PagesTypeOK'
  BY PagesStepTyped
<1>. QED BY PagesInitTyped, <1>1, PTL DEF PagesSpec

\* http.rs:35, admin.rs:17, wiring.rs:578: the unit is changed only by a POST that came
\* whole, let in, and only in what its path is for; flash has what is in force of the pause,
\* the zone, the calibration and the network as soon as it is; a page that says something
\* went wrong was drawn over an unchanged unit, of which the sector that was being written
\* may be gone; and a form posted as it is drawn changes nothing, but that a unit without a
\* schedule is given an empty one, and the zone is what the browser has for it.  For any
\* number of rows, of connections, of requests and of browsers.
THEOREM FormsDoAsAsked == PagesSpec => AsTheFormAsked
<1>1. PagesTypeOK => \A s \in Connections : Handles(s) => OnlyAskedFor(s) /\ AsDrawn(s)
  BY HandlesOnlyAskedFor, HandlesAsDrawn
<1>2. PagesTypeOK /\ [PagesNext]_pages_vars
        => [\A s \in Connections : Handles(s) => OnlyAskedFor(s) /\ AsDrawn(s)]_pages_vars
  BY <1>1
<1>. QED BY PagesTypeCorrect, <1>2, PTL DEF PagesSpec, AsTheFormAsked
=============================================================================

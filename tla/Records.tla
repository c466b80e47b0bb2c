---------------------------- MODULE Records ----------------------------
(***************************************************************************)
(* The four records of src/src/store.rs byte by byte, and what a boot      *)
(* reads of a sector whose write the power cut short: record.rs, the       *)
(* schedule's and the pause's records of schedule.rs, the zone's of tz.rs. *)
(*                                                                         *)
(* A magic is one byte and a checksum two.                                 *)
(***************************************************************************)
EXTENDS Cells

CONSTANTS
  Contents,                        \* what each format is asked to hold
  SSID_LEN, PASSWORD_LEN, HOST_LEN, USER_LEN, NAME_LEN, RULE_LEN, SCHEDULE_SLOTS,
  MIN_DETENT_MS, DEFAULT_DETENT_MS,
  RuleTexts,                       \* the rules Rule::parse reads
  MaxCuts                          \* bound: writes cut short, one after the other

VARIABLES
  format, sector,
  may,                             \* what the last write may have left to be read
  cuts                             \* how many of the last writes were cut short

records_vars == <<format, sector, may, cuts>>

crc32(body) == [k \in 1..2 |-> Summed(body, k)]

MAGIC == [credentials |-> 70, schedule |-> 83, pause |-> 80, zone |-> 90]

RecordLength ==
  [credentials |-> 1 + 2 + (1 + SSID_LEN) + (1 + PASSWORD_LEN) + (1 + HOST_LEN) + 2
                     + (1 + USER_LEN) + (1 + PASSWORD_LEN) + 2 + 2,
   schedule |-> 1 + 1 + SCHEDULE_SLOTS * 3 + 2,
   pause |-> 1 + 1 + 2,
   zone |-> 1 + 1 + NAME_LEN + 1 + RULE_LEN + 2]

\* A sector: room for any of them, and something past it.
SectorLength == RecordLength.credentials + 2
SECTOR == 1..SectorLength

\* What there is to write: texts that fit their fields, numbers of two bytes, slots of a day.
\* A byte of a text is below 128.
IsText(text, max) == text \in Seq(0..127) /\ Len(text) <= max
IsU16(ns) == ns \in Seq(0..255) /\ Len(ns) = 2
IsRecord(r) ==
  /\ r \in Seq(Seq(0..255)) /\ Len(r) = 8
  /\ IsText(r[1], SSID_LEN) /\ IsText(r[2], PASSWORD_LEN) /\ IsText(r[3], HOST_LEN)
  /\ IsU16(r[4]) /\ IsText(r[5], USER_LEN) /\ IsText(r[6], PASSWORD_LEN)
  /\ IsU16(r[7]) /\ IsU16(r[8])
IsSchedule(slots) ==
  /\ slots \in Seq([minute : 0..(24 * 60 - 1), portions : 0..255])
  /\ Len(slots) <= SCHEDULE_SLOTS
IsZone(z) ==
  /\ z = [name |-> z.name, rule |-> z.rule]
  /\ IsText(z.name, NAME_LEN) /\ z.name # <<>> /\ IsText(z.rule, RULE_LEN) /\ z.rule \in RuleTexts

ASSUME RecordsAssumption ==
  /\ {SSID_LEN, PASSWORD_LEN, HOST_LEN, USER_LEN, NAME_LEN, RULE_LEN, SCHEDULE_SLOTS} \subseteq Nat
  /\ MIN_DETENT_MS \in Nat /\ DEFAULT_DETENT_MS \in Nat /\ MIN_DETENT_MS <= DEFAULT_DETENT_MS
  /\ \A f \in DOMAIN RecordLength : RecordLength[f] \in SECTOR
  /\ DOMAIN Contents = DOMAIN RecordLength
  /\ \A r \in Contents.credentials : IsRecord(r)
  /\ \A slots \in Contents.schedule : IsSchedule(slots)
  /\ Contents.pause \subseteq BOOLEAN
  /\ \A z \in Contents.zone : IsZone(z)

Stored(v) == [ok |-> TRUE, v |-> v]
Unread(error) == [ok |-> FALSE, error |-> error]
Nothing == [credentials |-> "NotConfigured", schedule |-> "NotStored", pause |-> "NotStored",
           zone |-> "NotStored"]

le(a) == a[1] + 256 * a[2]
Padded(ns, len) == ns \o [i \in 1..(len - Len(ns)) |-> 0]
utf8(cells) == \A i \in DOMAIN cells : cells[i].n < 128
Plain(cells) == [i \in DOMAIN cells |-> cells[i].n]
-----------------------------------------------------------------------------
\* The credentials: six fields and two mechanical figures; a field is a text, its length
\* before it, or a number of two bytes.
put_str(text) == <<Len(text)>> \o text

Fields(r) ==
  put_str(r[1]) \o (put_str(r[2]) \o (put_str(r[3]) \o (r[4]
    \o (put_str(r[5]) \o (put_str(r[6]) \o (r[7] \o r[8]))))))

encode_record(r) ==
  LET body == Bytes(Fields(r)) IN (<<Byte(MAGIC.credentials)>> \o crc32(body)) \o body

\* The bytes of the text that is at that place, or why there is none.
str_at(body, at, max) ==
  LET fits == at <= Len(body) /\ (body[at].n <= max => at + body[at].n <= Len(body))
      raw  == SubSeq(body, at + 1, at + body[at].n)
  IN  CASE ~fits -> Unread("Truncated")
        [] fits /\ body[at].n > max -> Unread("TooLong")
        [] OTHER -> IF ~utf8(raw) THEN Unread("NotUtf8") ELSE Stored(raw)

\* What is taken so far: up to where, and the fields; or why no more of it can be.
take_str(body, r, max) ==
  LET raw == str_at(body, r.at, max)
  IN  CASE ~r.ok -> r
        [] r.ok /\ ~raw.ok -> raw
        [] OTHER -> [ok |-> TRUE, at |-> r.at + 1 + Len(raw.v), fields |-> Append(r.fields, Plain(raw.v))]

take_u16(body, r) ==
  CASE ~r.ok -> r
    [] r.ok /\ r.at + 1 > Len(body) -> Unread("Truncated")
    [] OTHER -> [ok |-> TRUE, at |-> r.at + 2,
                 fields |-> Append(r.fields, Plain(SubSeq(body, r.at, r.at + 1)))]

take_fields(body) ==
  LET ssid     == take_str(body, [ok |-> TRUE, at |-> 1, fields |-> <<>>], SSID_LEN)
      host     == take_str(body, take_str(body, ssid, PASSWORD_LEN), HOST_LEN)
      user     == take_str(body, take_u16(body, host), USER_LEN)
      password == take_str(body, user, PASSWORD_LEN)
  IN  take_u16(body, take_u16(body, password))

\* Mutant: what can be taken is taken for good.
decode_recordUnchecked(s) ==
  LET taken == take_fields(SubSeq(s, 4, Len(s)))
  IN  CASE s[1] # Byte(MAGIC.credentials) -> Unread("NotConfigured")
        [] s[1] = Byte(MAGIC.credentials) /\ ~taken.ok -> taken
        [] OTHER -> Stored(taken.fields)

\* The checksum is over what the fields turned out to take, and no more.
decode_record(s) ==
  LET body == SubSeq(s, 4, Len(s))
      taken == take_fields(body)
  IN  CASE s[1] # Byte(MAGIC.credentials) -> Unread("NotConfigured")
        [] s[1] = Byte(MAGIC.credentials) /\ ~taken.ok -> taken
        [] s[1] = Byte(MAGIC.credentials) /\ taken.ok ->
             IF crc32(SubSeq(body, 1, taken.at - 1)) # SubSeq(s, 2, 3) THEN Unread("Corrupt")
             ELSE Stored(taken.fields)

without_network(r) == <<<<>>, <<>>, <<>>, <<0, 0>>, <<>>, <<>>, r[7], r[8]>>
is_network_forgotten(r) == r = without_network(r)
is_usable(r) == r[1] # <<>> /\ r[3] # <<>> /\ le(r[4]) # 0
detent_ms(r) == IF le(r[7]) < MIN_DETENT_MS THEN DEFAULT_DETENT_MS ELSE le(r[7])
portion_scale_pct(r) == IF le(r[8]) = 0 THEN 100 ELSE le(r[8])
-----------------------------------------------------------------------------
\* The three of a fixed length: a magic, a body, the checksum of both.
Sealed(magic, body) ==
  LET all == Bytes(<<magic>> \o body) IN all \o crc32(all)

SealHolds(s) == crc32(SubSeq(s, 1, Len(s) - 2)) = SubSeq(s, Len(s) - 1, Len(s))

\* Three bytes a slot, and zeroes for the slots there are not.
SlotByte(slots, i, k) ==
  CASE i > Len(slots) -> 0
    [] i <= Len(slots) /\ k = 0 -> slots[i].minute % 256
    [] i <= Len(slots) /\ k = 1 -> slots[i].minute \div 256
    [] i <= Len(slots) /\ k = 2 -> slots[i].portions

encode_schedule(slots) ==
  Sealed(MAGIC.schedule,
         <<Len(slots)>> \o [j \in 1..(SCHEDULE_SLOTS * 3) |->
                               SlotByte(slots, (j - 1) \div 3 + 1, (j - 1) % 3)])

decode_schedule(s) ==
  LET slot(i) == [minute |-> le(<<s[3 * i].n, s[3 * i + 1].n>>), portions |-> s[3 * i + 2].n]
      blank == \A i \in DOMAIN s : s[i] = FF
  IN  CASE blank -> Unread("NotStored")
        [] ~blank /\ \/ s[1] # Byte(MAGIC.schedule) \/ ~SealHolds(s) \/ s[2].n > SCHEDULE_SLOTS
                     \/ \E i \in 1..SCHEDULE_SLOTS : i <= s[2].n /\ slot(i).minute >= 24 * 60 ->
             Unread("Corrupt")
        [] OTHER -> Stored([i \in 1..s[2].n |-> slot(i)])

encode_paused(paused) == Sealed(MAGIC.pause, <<IF paused THEN 1 ELSE 0>>)

decode_paused(s) ==
  IF s[1] = Byte(MAGIC.pause) /\ SealHolds(s) /\ s[2].n \in {0, 1}
    THEN Stored(s[2].n = 1) ELSE Unread("NotStored")

encode_zone(z) ==
  Sealed(MAGIC.zone, <<Len(z.name)>> \o Padded(z.name, NAME_LEN)
                       \o <<Len(z.rule)>> \o Padded(z.rule, RULE_LEN))

decode_zone(s) ==
  LET at == 3 + NAME_LEN
      text(from) == SubSeq(s, from + 1, from + s[from].n)
  IN  CASE s[1] # Byte(MAGIC.zone) -> Unread("NotStored")
        [] s[1] = Byte(MAGIC.zone) /\
             \/ ~SealHolds(s) \/ s[2].n > NAME_LEN \/ s[at].n > RULE_LEN
             \/ s[2].n = 0 \/ ~utf8(text(2)) \/ Plain(text(at)) \notin RuleTexts ->
             Unread("Corrupt")
        [] OTHER -> Stored([name |-> Plain(text(2)), rule |-> Plain(text(at))])
-----------------------------------------------------------------------------
decode(f, s) ==
  CASE f = "credentials" -> decode_record(s)
    [] f = "schedule" -> decode_schedule(s)
    [] f = "pause" -> decode_paused(s)
    [] f = "zone" -> decode_zone(s)

\* What a record-sized read of the sector makes of it.
Buffer(cells) == SubSeq(cells, 1, RecordLength[format])
load == decode(format, Buffer(sector))

\* What is written for a record, and for none of it.
Image(o) ==
  IF ~o.ok THEN [i \in 1..RecordLength[format] |-> FF]
  ELSE CASE format = "credentials" -> encode_record(o.v)
         [] format = "schedule" -> encode_schedule(o.v)
         [] format = "pause" -> encode_paused(o.v)
         [] format = "zone" -> encode_zone(o.v)

\* Storage::write: the sector is read, patched, erased and programmed.
Patched(image) == [i \in SECTOR |-> IF i <= Len(image) THEN image[i] ELSE sector[i]]
Erasing(n, m) == [i \in SECTOR |-> IF i \in n..m THEN FF ELSE sector[i]]
Programming(image, n) == [i \in SECTOR |-> IF i <= n THEN Patched(image)[i] ELSE FF]

\* Saved, erased; and of the credentials, one figure updated or the network forgotten,
\* which erases what cannot be read.
Writings ==
  {Stored(v) : v \in Contents[format]} \cup {Unread(Nothing[format])}
    \cup (IF format = "credentials" /\ load.ok
            THEN {Stored(without_network(load.v))}
                   \cup {Stored([load.v EXCEPT ![7] = v[7]]) : v \in Contents[format]}
            ELSE {})

RecordsInit ==
  /\ format \in DOMAIN Contents /\ sector = [i \in SECTOR |-> FF]
  /\ may = {Unread(Nothing[format])} /\ cuts = 0

Written ==
  /\ cuts' = 0 /\ UNCHANGED format
  /\ \E o \in Writings : sector' = Patched(Image(o)) /\ may' = {o}

PowerCut ==
  /\ cuts < MaxCuts /\ cuts' = cuts + 1 /\ UNCHANGED format
  /\ \E o \in Writings :
       /\ may' = {load, o}
       /\ \E n \in SECTOR : \/ sector' \in {Erasing(1, n), Erasing(n, SectorLength)}
                            \/ sector' = Programming(Image(o), n)

RecordsNext == Written \/ PowerCut
RecordsSpec == RecordsInit /\ [][RecordsNext]_records_vars
-----------------------------------------------------------------------------
\* record.rs:24: "a write interrupted by a power cut leaves something halfway.  Both must
\* read as no configuration rather than as garbage credentials".  A write that came to its
\* end reads as what was written, whatever the sector held before; one that was cut short
\* reads as nothing, as what was there or as all of what was being written; and no record
\* that can be read sets a click that jams the motor as it starts.
TornIsNone ==
  LET got == load
  IN  /\ IF cuts > 0 THEN got.ok => got \in may ELSE may = {got}
      /\ format = "credentials" /\ got.ok =>
           /\ detent_ms(got.v) >= MIN_DETENT_MS /\ portion_scale_pct(got.v) > 0
           /\ is_network_forgotten(got.v) => ~is_usable(got.v)
=============================================================================

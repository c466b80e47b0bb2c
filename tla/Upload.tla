---------------------------- MODULE Upload ----------------------------
(***************************************************************************)
(* A firmware image on its way into the idle slot, in pieces of any size:  *)
(* src/src/update.rs, Sha256 of sha256.rs, and receive and take of web.rs. *)
(* What the compression of a block yields is the block itself, and the     *)
(* digest of an image is of all its blocks.                                *)
(***************************************************************************)
EXTENDS Cells, FiniteSets

CONSTANTS
  Bodies,                          \* images short of their digest
  MARK,                            \* secret_mark of this unit's ap_secret
  MIN_IMAGE_LEN, DIGEST_LEN, BLOCK, LENGTH_BYTES,
  SLOT_LEN, SECTOR_LEN, WRITE_LEN, REQUEST_LEN

VARIABLES
  sent, content_length,            \* the file, and how long the request says it is
  got,                             \* bytes of it received
  check, sectors,                  \* ImageCheck, and Sectors, which outlives an upload
  slot, verdict

upload_vars == <<sent, content_length, got, check, sectors, slot, verdict>>

ASSUME UploadAssumption ==
  /\ Bodies \subseteq Seq(0..255) /\ MARK \in Seq(0..255) /\ MARK # <<>>
  /\ DIGEST_LEN \in Nat \ {0} /\ LENGTH_BYTES \in Nat \ {0} /\ BLOCK \in Nat
  /\ LENGTH_BYTES + 1 <= BLOCK
  /\ MIN_IMAGE_LEN \in Nat /\ DIGEST_LEN < MIN_IMAGE_LEN
  /\ SLOT_LEN \in Nat /\ SECTOR_LEN \in Nat \ {0} /\ WRITE_LEN \in Nat \ {0} /\ REQUEST_LEN \in Nat

IMAGE_MAGIC == Byte(233)
Least(a, b) == IF a < b THEN a ELSE b
Beyond(s, n) == SubSeq(s, n + 1, Len(s))
Chunks(s, len) == [i \in 1..(Len(s) \div len) |-> SubSeq(s, (i - 1) * len + 1, i * len)]
-----------------------------------------------------------------------------
Sha256 == [state |-> <<>>, block |-> <<>>, len |-> 0]

\* A block that was begun is filled before whole blocks are taken from the input.
sha_update(h, input) ==
  LET take == IF h.block = <<>> THEN 0 ELSE Least(Len(input), BLOCK - Len(h.block))
      block == h.block \o SubSeq(input, 1, take)
      rest == Beyond(input, take)
      whole == Chunks(rest, BLOCK)
      begun == h.block # <<>>
  IN  IF begun /\ Len(block) < BLOCK THEN [h EXCEPT !.block = block, !.len = @ + Len(input)]
      ELSE [state |-> h.state \o (IF begun THEN <<block>> ELSE <<>>) \o whole,
            block |-> Beyond(rest, Len(whole) * BLOCK), len |-> h.len + Len(input)]

\* One more block, or two when the rest leaves no room for the marker and the length.
Tail1(filled) == IF filled + 1 + LENGTH_BYTES <= BLOCK THEN BLOCK ELSE 2 * BLOCK
sha_finish(h) ==
  LET filled == Len(h.block)
      tail == [i \in 1..Tail1(filled) |->
                 CASE i <= filled -> h.block[i]
                   [] i = filled + 1 -> Byte(128)
                   [] i = Tail1(filled) -> Byte(h.len)
                   [] OTHER -> Byte(0)]
  IN  h.state \o Chunks(tail, BLOCK)

DigestOf(blocks) == [k \in 1..DIGEST_LEN |-> Summed(blocks, k)]

\* What espflash save-image writes.
Build(body) == Bytes(body) \o DigestOf(sha_finish(sha_update(Sha256, Bytes(body))))
-----------------------------------------------------------------------------
needle == Bytes(MARK)

Longer(k, byte) == IF needle[k + 1] = byte THEN k + 1 ELSE k

\* How much of the mark is still matched before this byte, or none of it.
Fall(fail, k, byte) ==
  LET fall[j \in 0..k] == IF j = 0 \/ needle[j + 1] = byte THEN j ELSE fall[fail[j]]
  IN  fall[k]

fail_table ==
  LET fail[i \in 1..Len(needle)] ==
        IF i = 1 THEN 0 ELSE Longer(Fall(fail, fail[i - 1], needle[i]), needle[i])
  IN  fail

\* Mutant: a byte that does not match starts over.
MatchedAnew(m, byte) ==
  IF m.found THEN m
  ELSE LET k == Longer(IF needle[m.matched + 1] = byte THEN m.matched ELSE 0, byte)
       IN  [matched |-> k, found |-> k = Len(needle)]

Matched(m, byte) ==
  IF m.found THEN m
  ELSE LET k == Longer(Fall(fail_table, m.matched, byte), byte)
       IN  [matched |-> k, found |-> k = Len(needle)]

Scanned(m, bytes) ==
  LET scan[i \in 0..Len(bytes)] == IF i = 0 THEN m ELSE Matched(scan[i - 1], bytes[i])
  IN  scan[Len(bytes)]

ImageCheck(len) ==
  [expected |-> len, seen |-> 0, hasher |-> Sha256, digest |-> <<>>,
   mark |-> [matched |-> 0, found |-> FALSE]]

\* All but the last DIGEST_LEN bytes are hashed; those are kept.
check_feed(c, bytes) ==
  LET hashed == c.expected - DIGEST_LEN - c.seen
      split == Least(IF hashed < 0 THEN 0 ELSE hashed, Len(bytes))
  IN  [c EXCEPT !.seen = @ + Len(bytes),
                !.hasher = sha_update(@, SubSeq(bytes, 1, split)),
                !.digest = @ \o Beyond(bytes, split),
                !.mark = Scanned(@, bytes)]

Refuses(c, bytes) ==
  CASE c.seen = 0 /\ bytes[1] # IMAGE_MAGIC -> "NotAnImage"
    [] c.seen + Len(bytes) > c.expected -> "Overrun"
    [] OTHER -> "None"

finish(c) ==
  CASE c.seen # c.expected -> "Truncated"
    [] c.seen = c.expected /\ DigestOf(sha_finish(c.hasher)) # c.digest -> "Corrupt"
    [] c.seen = c.expected /\ DigestOf(sha_finish(c.hasher)) = c.digest /\ ~c.mark.found ->
         "WrongSecret"
    [] OTHER -> "Ok"
-----------------------------------------------------------------------------
\* write_sector: the sector is erased whole; one that is past the slot's end is an error.
WriteSector(to, at, bytes) ==
  [i \in DOMAIN to |-> IF i \in (at + 1)..(at + Len(bytes)) THEN bytes[i - at]
                       ELSE IF i \in (at + 1)..(at + SECTOR_LEN) THEN FF ELSE to[i]]
PastTheEnd(at) == at + SECTOR_LEN > SLOT_LEN

\* Each sector the bytes complete is written where it goes, up to one past the slot's end.
Pushed(w, bytes) ==
  LET all == w.sectors.buffer \o bytes
      at == w.sectors.at
      full == Len(all) \div SECTOR_LEN
      room == (SLOT_LEN - at) \div SECTOR_LEN
      written == Least(full, room) * SECTOR_LEN
  IN  [sectors |-> [buffer |-> Beyond(all, full * SECTOR_LEN), at |-> at + full * SECTOR_LEN],
       slot |-> [i \in DOMAIN w.slot |-> IF i \in (at + 1)..(at + written) THEN all[i - at] ELSE w.slot[i]],
       failed |-> room < full]

\* The last, partial sector, padded to what flash can write.
Rest(w) ==
  LET buffer == w.sectors.buffer
      padding == (WRITE_LEN - (Len(buffer) % WRITE_LEN)) % WRITE_LEN
  IN  IF buffer = <<>> \/ w.failed THEN w
      ELSE [sectors |-> [buffer |-> <<>>, at |-> w.sectors.at + SECTOR_LEN],
            slot |-> IF PastTheEnd(w.sectors.at) THEN w.slot
                     ELSE WriteSector(w.slot, w.sectors.at, buffer \o [i \in 1..padding |-> FF]),
            failed |-> PastTheEnd(w.sectors.at)]
-----------------------------------------------------------------------------
UploadInit ==
  /\ sent = <<>> /\ content_length = 0 /\ got = 0 /\ check = ImageCheck(0)
  /\ sectors = [buffer |-> <<>>, at |-> 0]
  /\ slot = [i \in 1..SLOT_LEN |-> FF] /\ verdict = "None"

\* A build, one with a byte that is not the build's, one cut off, one declared wrong.
Files ==
  UNION {LET image == Build(b)
         IN  {image, SubSeq(image, 1, Len(image) - 1)}
               \cup {[image EXCEPT ![i] = Byte(9)] : i \in {1, 2, Len(image)}} : b \in Bodies}

Sizes(len) == IF len < MIN_IMAGE_LEN THEN "TooSmall" ELSE IF len > SLOT_LEN THEN "TooLarge" ELSE "Going"

\* The sectors start over wherever the last upload left them, and the size is judged.
Begins ==
  /\ verdict # "Going"
  /\ sent' \in Files /\ content_length' \in {Len(sent'), Len(sent') + 1} /\ got' = 0
  /\ verdict' = Sizes(content_length') /\ check' = ImageCheck(content_length')
  /\ sectors' = [buffer |-> <<>>, at |-> 0]
  /\ UNCHANGED slot

\* take: the bytes are checked, then every sector they complete is written.
Arrives ==
  /\ verdict = "Going" /\ got < content_length
  /\ \E n \in 1..Least(REQUEST_LEN, Least(content_length, Len(sent)) - got) :
       LET bytes == SubSeq(sent, got + 1, got + n)
           w == Pushed([sectors |-> sectors, slot |-> slot, failed |-> FALSE], bytes)
           refusal == Refuses(check, bytes)
       IN  /\ got' = got + n
           /\ check' = IF refusal = "None" THEN check_feed(check, bytes) ELSE check
           /\ sectors' = IF refusal = "None" THEN w.sectors ELSE sectors
           /\ slot' = IF refusal = "None" THEN w.slot ELSE slot
           /\ verdict' = IF refusal # "None" THEN refusal ELSE IF w.failed THEN "Flash" ELSE "Going"
  /\ UNCHANGED <<sent, content_length>>

ConnectionEnds ==
  /\ verdict = "Going" /\ got < content_length /\ verdict' = "Truncated"
  /\ UNCHANGED <<sent, content_length, got, check, sectors, slot>>

\* An erase or a write that flash refuses.
FlashRefuses ==
  /\ verdict = "Going" /\ verdict' = "Flash"
  /\ UNCHANGED <<sent, content_length, got, check, sectors, slot>>

Finishes ==
  /\ verdict = "Going" /\ got = content_length
  /\ LET w == Rest([sectors |-> sectors, slot |-> slot, failed |-> FALSE])
     IN  /\ sectors' = w.sectors /\ slot' = w.slot
         /\ verdict' = IF w.failed THEN "Flash" ELSE finish(check)
  /\ UNCHANGED <<sent, content_length, got, check>>

UploadNext == Begins \/ Arrives \/ ConnectionEnds \/ FlashRefuses \/ Finishes

UploadSpec == UploadInit /\ [][UploadNext]_upload_vars
-----------------------------------------------------------------------------
\* What a reader of the whole file would say of it.
Intact(file) == \E b \in Bodies : file = Build(b)
Carries(file) == \E i \in 0..(Len(file) - Len(needle)) : SubSeq(file, i + 1, i + Len(needle)) = needle

Judged(file) ==
  CASE file[1] # IMAGE_MAGIC -> "NotAnImage"
    [] file[1] = IMAGE_MAGIC /\ ~Intact(file) -> "Corrupt"
    [] file[1] = IMAGE_MAGIC /\ Intact(file) /\ ~Carries(file) -> "WrongSecret"
    [] OTHER -> "Ok"

\* update.rs:3: the upload is written "as it streams in, so nothing here sees the image
\* whole".  However it was cut into pieces, and whatever an upload before it left behind,
\* one that came to its end gets the verdict the whole file would, and the slot of one that
\* may be selected holds the file, byte for byte.
StreamedAsWhole ==
  /\ verdict \in {"Ok", "Corrupt", "WrongSecret", "NotAnImage"} => verdict = Judged(sent)
  /\ verdict = "Ok" => SubSeq(slot, 1, content_length) = sent
=============================================================================

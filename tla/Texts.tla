---------------------------------- MODULE Texts ----------------------------------
(***************************************************************************)
(* What the unit reads off a wire and writes to one: the schedule's JSON,  *)
(* an edit of one meal, a time (src/src/schedule.rs) and the rule of a     *)
(* timezone (src/src/tz.rs).                                               *)
(*                                                                         *)
(* A text is its tokens: a string is what it reads as, as a key and as a   *)
(* time of day, whatever is in it; a number is its value.  Tokens have no  *)
(* spaces in them or between them, and two numbers side by side stay two   *)
(* where bytes would make them one: no reader takes them.  Text that was   *)
(* sent right may arrive with tokens lost, repeated or put in.             *)
(***************************************************************************)
EXTENDS Integers, Sequences, FiniteSets, SequencesExt

CONSTANTS
  Letters,           \* what is sent right: [kind, tokens, means]
  Strays,            \* tokens a damaged text may have gained
  MAX_SLOTS,
  MaxDamage          \* bound: tokens lost, repeated or gained

VARIABLES letter, text, damage
texts_vars == <<letter, text, damage>>

\* What a string can read as: a minute of the day, or none.
Minutes == -1..1439

Token ==
  {x \in [t : STRING, n : Int, key : STRING] :
     x.t # "end" /\ (x.t = "num" => x.n >= 0) /\ (x.t = "str" => x.n \in Minutes)}

\* What a time is written with: an offset of a day or more is none to the reader.
SecondsOfDay == {n \in Nat : n \div 3600 <= 23}
OffsetsWritten == {9999} \cup -1439..1439
TimesWritten == [second : SecondsOfDay, offset : OffsetsWritten]

ASSUME TextsAssumption ==
  /\ MAX_SLOTS \in Nat /\ MaxDamage \in Nat /\ Strays \subseteq Token
  /\ \A l \in Letters : /\ l.tokens \in Seq(Token)
                        /\ l.kind \in {"schedule", "rule"} \/ l.means[1] \in TimesWritten

Sign(t) == [t |-> t, n |-> 0, key |-> ""]
Num(n) == [t |-> "num", n |-> n, key |-> ""]
Key(k) == [t |-> "str", n |-> -1, key |-> k]
Hhmm(minute) == [t |-> "str", n |-> minute, key |-> "other"]

PeekAt(s, at) == IF at <= Len(s) THEN s[at].t ELSE "end"

Bad(error) == [ok |-> FALSE, error |-> error]
Read(at, v) == [ok |-> TRUE, at |-> at, v |-> v]
-----------------------------------------------------------------------------
(***************************************************************************)
(* The schedule.                                                           *)
(***************************************************************************)
slot_tokens(slot) ==
  <<Sign("{"), Key("time"), Sign(":"), Hhmm(slot.minute), Sign(","),
    Key("portions"), Sign(":"), Num(slot.portions), Sign("}")>>

\* Nine tokens to a slot, and a sign after each.
to_json(slots) ==
  IF slots = <<>> THEN <<Sign("["), Sign("]")>>
  ELSE [i \in 1..(10 * Len(slots) + 1) |->
          LET k == (i - 2) \div 10 + 1
              j == ((i - 2) % 10) + 1
          IN  CASE i = 1 -> Sign("[")
                [] i > 1 /\ j < 10 -> slot_tokens(slots[k])[j]
                [] i > 1 /\ j = 10 -> Sign(IF k = Len(slots) THEN "]" ELSE ",")]

Open == {"{", "["}
Close == {"}", "]"}

\* How many brackets are open before i.
Opened(s, i) == Cardinality({j \in 1..(i - 1) : s[j].t \in Open})
                  - Cardinality({j \in 1..(i - 1) : s[j].t \in Close})

Earliest(S) == CHOOSE e \in S : \A i \in S : e <= i

\* A value in brackets: up to the one that brings the depth back to what it was.
skip_nested(s, at, close) ==
  LET ends == {e \in at..Len(s) : Opened(s, e + 1) = Opened(s, at)}
      end == Earliest(ends)
  IN  IF ends = {} \/ (\E i \in at..end : s[i].t = "esc") \/ s[end].t # close THEN Bad("Malformed")
      ELSE Read(end + 1, 0)

\* Anything else runs to the next delimiter, and may be nothing at all.
skip_bare(s, at) ==
  Read(Earliest({e \in at..(Len(s) + 1) : PeekAt(s, e) \in {"end", ",", "}", "]"}}), 0)

skip_value(s, at) ==
  CASE PeekAt(s, at) \in {"end", "esc"} -> Bad("Malformed")
    [] PeekAt(s, at) = "str" -> Read(at + 1, 0)
    [] PeekAt(s, at) = "{" -> skip_nested(s, at, "}")
    [] PeekAt(s, at) = "[" -> skip_nested(s, at, "]")
    [] OTHER -> skip_bare(s, at)

json_time(s, at) ==
  CASE PeekAt(s, at) # "str" -> Bad("Malformed")
    [] PeekAt(s, at) = "str" /\ s[at].n < 0 -> Bad("BadSlot")
    [] OTHER -> Read(at + 1, s[at].n)

json_portions(s, at) ==
  CASE PeekAt(s, at) # "num" -> Bad("Malformed")
    [] PeekAt(s, at) = "num" /\ s[at].n > 255 -> Bad("BadSlot")
    [] OTHER -> Read(at + 1, s[at].n)

json_value(s, at, key) ==
  CASE key = "time" -> json_time(s, at)
    [] key = "portions" -> json_portions(s, at)
    [] OTHER -> skip_value(s, at)

\* The last of each key counts.
json_kept(slot, key, value) ==
  CASE key = "time" -> [slot EXCEPT !.minute = value.v]
    [] key = "portions" -> [slot EXCEPT !.portions = value.v]
    [] OTHER -> slot

json_after(s, value, slot) ==
  CASE ~value.ok -> value
    [] value.ok /\ PeekAt(s, value.at) = "," -> Read(value.at + 1, slot)
    [] value.ok /\ PeekAt(s, value.at) = "}" ->
         IF slot.minute < 0 \/ slot.portions < 0 THEN Bad("BadSlot") ELSE Read(value.at + 1, slot)
    [] OTHER -> Bad("Malformed")

\* The next key of a meal whose brace has not closed.
json_member(s, slot) ==
  CASE ~slot.ok \/ s[slot.at - 1].t = "}" -> slot
    [] slot.ok /\ s[slot.at - 1].t # "}"
         /\ (PeekAt(s, slot.at) # "str" \/ PeekAt(s, slot.at + 1) # ":") -> Bad("Malformed")
    [] OTHER ->
         LET key == s[slot.at].key
             value == json_value(s, slot.at + 2, key)
         IN  json_after(s, value, json_kept(slot.v, key, value))

\* The keys of one meal; -1 is a key not met.
json_slot(s, at) ==
  LET slot[k \in 0..Len(s)] ==
        IF k = 0 THEN Read(at + 1, [minute |-> -1, portions |-> -1])
        ELSE json_member(s, slot[k - 1])
  IN  IF PeekAt(s, at) # "{" THEN Bad("Malformed") ELSE slot[Len(s)]

json_end(s, at, slots) ==
  IF PeekAt(s, at) = "end" THEN Read(at, slots) ELSE Bad("Malformed")

\* Mutant: what does not fit is left out.
PushTruncates(slots, slot) == IF Len(slots) < MAX_SLOTS THEN Append(slots, slot) ELSE slots

\* A Vec of MAX_SLOTS: one more makes it longer than a schedule can be.
Push(slots, slot) == Append(slots, slot)

json_pushed(s, slot, slots) ==
  CASE ~slot.ok -> slot
    [] slot.ok /\ Len(slots) > MAX_SLOTS -> Bad("TooManySlots")
    [] slot.ok /\ Len(slots) <= MAX_SLOTS /\ PeekAt(s, slot.at) = "," -> Read(slot.at + 1, slots)
    [] slot.ok /\ Len(slots) <= MAX_SLOTS /\ PeekAt(s, slot.at) = "]" ->
         json_end(s, slot.at + 1, slots)
    [] OTHER -> Bad("Malformed")

\* The next meal of a list whose bracket has not closed.
json_next(s, list) ==
  IF ~list.ok \/ s[list.at - 1].t = "]" THEN list
  ELSE LET slot == json_slot(s, list.at) IN json_pushed(s, slot, Push(list.v, slot.v))

json_slots(s) ==
  LET list[k \in 0..Len(s)] == IF k = 0 THEN Read(2, <<>>) ELSE json_next(s, list[k - 1])
  IN  list[Len(s)]

parse_schedule(s) ==
  CASE PeekAt(s, 1) # "[" -> Bad("Malformed")
    [] PeekAt(s, 1) = "[" /\ PeekAt(s, 2) = "]" -> json_end(s, 3, <<>>)
    [] OTHER -> json_slots(s)
-----------------------------------------------------------------------------
(***************************************************************************)
(* One meal: feeder/<id>/meal/<number>/<field> and its payload, which      *)
(* reads as a time of day, as a count, or as neither (-1).                 *)
(***************************************************************************)
NamesSlot(path) == path.slash /\ ~path.leading_zero /\ path.number \in 1..MAX_SLOTS

slot_edit(path, payload) ==
  IF ~NamesSlot(path) THEN Bad("NoSuchSlot")
  ELSE CASE path.field = "time" ->
              IF payload.minute < 0 THEN Bad("BadValue")
              ELSE Read(path.number, [minute |-> payload.minute])
         [] path.field = "portions" ->
              IF payload.count \notin 0..255 THEN Bad("BadValue")
              ELSE Read(path.number, [portions |-> payload.count])
         [] OTHER -> Bad("NoSuchSlot")
-----------------------------------------------------------------------------
(***************************************************************************)
(* A time: the fields of it, and a suffix that is its offset or is nothing *)
(* this reads, which costs the offset and never the time.                  *)
(***************************************************************************)
NoSuffix == [fraction |-> FALSE, mark |-> "", hours |-> 0, minutes |-> 0, digits |-> 0]

parse_offset(x) ==
  CASE x.mark = "Z" -> 0
    [] x.mark \in {"+", "-"} /\ x.digits \in {2, 4, 5} /\ x.hours <= 23 /\ x.minutes <= 59 ->
         (IF x.mark = "-" THEN -1 ELSE 1) * (x.hours * 60 + (IF x.digits = 2 THEN 0 ELSE x.minutes))
    [] OTHER -> 9999

Absolute(n) == IF n < 0 THEN -n ELSE n

written_offset(offset) ==
  IF offset = 9999 THEN NoSuffix
  ELSE [fraction |-> FALSE, mark |-> IF offset < 0 THEN "-" ELSE "+",
        hours |-> Absolute(offset) \div 60, minutes |-> Absolute(offset) % 60, digits |-> 5]

\* A leap second lands on :59.
parse_time(p) ==
  CASE ~p.separators -> Bad("Malformed")
    [] p.separators /\ (~p.real_date \/ p.hour > 23 \/ p.minute > 59 \/ p.second > 60) ->
         Bad("OutOfRange")
    [] OTHER -> Read(0, [second |-> p.hour * 3600 + p.minute * 60
                                      + (IF p.second > 59 THEN 59 ELSE p.second),
                         offset |-> parse_offset(p.suffix)])

written_time(w) ==
  [separators |-> TRUE, real_date |-> TRUE, hour |-> w.second \div 3600,
   minute |-> (w.second \div 60) % 60, second |-> w.second % 60, suffix |-> written_offset(w.offset)]
-----------------------------------------------------------------------------
(***************************************************************************)
(* The rule of a zone: std offset [dst [offset] ,Mm.w.d[/time],Mm.w.d[/time]] *)
(***************************************************************************)
\* r is what was read so far: r.at is where reading goes on, r.v the numbers in their order.
From(r, next) == IF r.ok THEN next ELSE r

With(r, n) == Read(r.at, Append(r.v, n))
Past(r) == Read(r.at + 1, r.v)

rule_take(s, r, t, error) == From(r, IF PeekAt(s, r.at) = t THEN Past(r) ELSE Bad(error))

rule_name(s, r) == rule_take(s, r, "name", "Malformed")

rule_number(s, r, allowed) ==
  From(r, IF PeekAt(s, r.at) = "num" /\ s[r.at].n \in allowed THEN Past(With(r, s[r.at].n))
          ELSE Bad("Malformed"))

rule_sign(s, r) ==
  From(r, CASE PeekAt(s, r.at) = "-" -> Past(With(r, -1))
            [] PeekAt(s, r.at) = "+" -> Past(With(r, 1))
            [] OTHER -> With(r, 1))

\* Without its minutes a time has no ":" where its seconds would be either.
rule_more(s, r) ==
  From(r, IF PeekAt(s, r.at) = ":" THEN rule_number(s, Past(r), 0..59) ELSE With(r, 0))

\* The last four: a sign, hours, minutes and seconds.
InSeconds(v, n) ==
  Append(SubSeq(v, 1, n - 4), v[n - 3] * (v[n - 2] * 3600 + v[n - 1] * 60 + v[n]))

Totalled(r) == From(r, Read(r.at, InSeconds(r.v, Len(r.v))))

\* [+-]h[:mm[:ss]] in seconds.
rule_hms(s, r, max_h) ==
  Totalled(rule_more(s, rule_more(s, rule_number(s, rule_sign(s, r), 0..max_h))))

EastPositive(r) ==
  From(r, IF Last(r.v) % 60 # 0 THEN Bad("Malformed")
          ELSE Read(r.at, Append(Front(r.v), -(Last(r.v) \div 60))))

\* Written west-positive, in whole minutes.
rule_offset(s, r) == EastPositive(rule_hms(s, r, 24))

rule_dot(s, r, allowed) == rule_take(s, rule_number(s, r, allowed), ".", "Malformed")

rule_time(s, r) ==
  From(r, IF PeekAt(s, r.at) = "/" THEN rule_hms(s, Past(r), 167) ELSE With(r, 7200))

rule_change(s, r) ==
  LET month == rule_dot(s, rule_take(s, r, "M", "Unsupported"), 1..12)
      week == rule_dot(s, month, 1..5)
      weekday == rule_number(s, week, 0..6)
  IN  rule_time(s, weekday)

\* An hour of summer time, unless it says how much.
rule_dst(s, r) ==
  From(r, IF PeekAt(s, r.at) \in {",", "end"} THEN With(r, r.v[1] + 60) ELSE rule_offset(s, r))

rule_seasons(s, r) ==
  LET dst == rule_dst(s, rule_name(s, r))
      start == rule_change(s, rule_take(s, dst, ",", "Unsupported"))
  IN  rule_change(s, rule_take(s, start, ",", "Malformed"))

rule_rest(s, r) == From(r, IF PeekAt(s, r.at) = "end" THEN r ELSE rule_seasons(s, r))

ChangeOf(v, i) == [month |-> v[i], week |-> v[i + 1], weekday |-> v[i + 2], time |-> v[i + 3]]

RuleOf(v) ==
  [std |-> v[1],
   changes |-> IF Len(v) = 1 THEN <<>>
               ELSE <<[dst |-> v[2], start |-> ChangeOf(v, 3), end |-> ChangeOf(v, 7)]>>]

rule_done(s, r) ==
  From(r, IF PeekAt(s, r.at) = "end" THEN Read(r.at, RuleOf(r.v)) ELSE Bad("Malformed"))

parse_rule(s) == rule_done(s, rule_rest(s, rule_offset(s, rule_name(s, Read(1, <<>>)))))
-----------------------------------------------------------------------------
TextsInit == letter \in Letters /\ text = letter.tokens /\ damage = 0

Loses == \E i \in DOMAIN text : text' = RemoveAt(text, i)
Repeats == \E i \in DOMAIN text : text' = InsertAt(text, i, text[i])
Gains == \E i \in 1..(Len(text) + 1), stray \in Strays : text' = InsertAt(text, i, stray)

Damaged ==
  /\ damage < MaxDamage /\ damage' = damage + 1 /\ UNCHANGED letter
  /\ Loses \/ Repeats \/ Gains

SentAgain == damage > 0 /\ damage' = 0 /\ text' = letter.tokens /\ UNCHANGED letter

TextsNext == Damaged \/ SentAgain

TextsSpec == TextsInit /\ [][TextsNext]_texts_vars
-----------------------------------------------------------------------------
Balanced(s) == Opened(s, Len(s) + 1) = 0

\* What a person reads: the objects of the list, and the keys of the one that opens at m.
Meals(s) == {i \in DOMAIN s : s[i].t = "{" /\ Opened(s, i) = 1}
Keys(s, m) ==
  {i \in DOMAIN s : m < i /\ s[i - 1].t \in {"{", ","} /\ Opened(s, i) = 2
                      /\ \A j \in (m + 1)..i : Opened(s, j) >= 2}

\* The last of a key counts, of those that are in the object itself.
Said(s, m, key) ==
  LET named == {i \in Keys(s, m) : s[i].key = key}
  IN  s[(CHOOSE i \in named : \A j \in named : j <= i) + 2].n

AsSaid(s, slots) ==
  /\ Len(slots) = Cardinality(Meals(s))
  /\ \A m \in Meals(s) :
       slots[Cardinality({j \in Meals(s) : j <= m})]
         = [minute |-> Said(s, m, "time"), portions |-> Said(s, m, "portions")]

InRange(change) ==
  change.month \in 1..12 /\ change.week \in 1..5 /\ change.weekday \in 0..6
    /\ Absolute(change.time) < 168 * 3600

EditedBack(slot, i) ==
  LET path(field) == [slash |-> TRUE, leading_zero |-> FALSE, number |-> i, field |-> field]
  IN  /\ slot_edit(path("portions"), [minute |-> -1, count |-> slot.portions])
           = Read(i, [portions |-> slot.portions])
      /\ slot_edit(path("time"), [minute |-> slot.minute, count |-> -1])
           = Read(i, [minute |-> slot.minute])

Breaks(s) == \A n \in 0..(Len(s) - 1) : ~parse_schedule(SubSeq(s, 1, n)).ok

WholeSchedule(got) ==
  got.ok =>
    /\ Balanced(text) => AsSaid(text, got.v)
    /\ Len(got.v) <= MAX_SLOTS
    /\ parse_schedule(to_json(got.v)).ok /\ parse_schedule(to_json(got.v)).v = got.v
    /\ Breaks(text)
    /\ \A i \in DOMAIN got.v : EditedBack(got.v[i], i)

WholeRule(got) ==
  got.ok => /\ Absolute(got.v.std) < 25 * 60
            /\ \A i \in DOMAIN got.v.changes :
                 /\ Absolute(got.v.changes[i].dst) < 26 * 60
                 /\ InRange(got.v.changes[i].start) /\ InRange(got.v.changes[i].end)

\* schedule.rs:734: a schedule that is read is "never a partial schedule".  Of a text whose
\* brackets pair, every meal is read as the text says, and no more; one that breaks off
\* anywhere is not read; and the echo, an edit of a meal and a time are read back as what
\* was written.  A rule that is read never leads the clock out of the calendar.
NothingHalfRead ==
  CASE letter.kind = "schedule" -> WholeSchedule(parse_schedule(text))
    [] letter.kind = "rule" -> WholeRule(parse_rule(text))
    [] OTHER -> parse_time(written_time(letter.means[1])) = Read(0, letter.means[1])
=============================================================================

------------------------------- MODULE MCParts -------------------------------
(***************************************************************************)
(* The parts that touch nothing another module models, side by side: the   *)
(* clock chip, the calendar, the texts, the records, an upload and the     *)
(* pages.  A behaviour is one part's; the others hold what an idle one     *)
(* does.                                                                   *)
(***************************************************************************)
EXTENDS Rtc, Calendar, Texts, Records, Upload, Pages

VARIABLE part
vars == <<part, rtc_vars, calendar_vars, texts_vars, records_vars, upload_vars, pages_vars>>
-----------------------------------------------------------------------------
\* The chip.
PWalls == 0..2
-----------------------------------------------------------------------------
\* The calendar: central Europe, the eastern United States, the Chatham Islands (south of
\* the equator, a quarter of an hour), Greenland (a change before midnight), Nepal (none).
At(month, week, on, hour) ==
  [month |-> month, week |-> week, weekday |-> on, time |-> hour * 60]
Seasons(std, dst, start, end) ==
  [has_dst |-> TRUE, std |-> std, dst |-> dst, start |-> start, end |-> end]
Nepal == [has_dst |-> FALSE, std |-> 345, dst |-> 345, start |-> At(1, 1, 0, 0),
          end |-> At(1, 1, 0, 0)]
PRules ==
  {Seasons(60, 120, At(3, 5, 0, 2), At(10, 5, 0, 3)),
   Seasons(-300, -240, At(3, 2, 0, 2), At(11, 1, 0, 2)),
   Seasons(765, 825, At(9, 5, 0, 2), At(4, 1, 0, 3)),
   Seasons(-120, -60, At(3, 5, 0, -1), At(10, 5, 0, 0)),
   Nepal}

Midnight(y, m, d) == days_from_civil([year |-> y, month |-> m, day |-> d]) * DAY
Around(y, m, d) == [from |-> Midnight(y, m, d), pace |-> 60, looks |-> 54]
PWalks ==
  {[from |-> Midnight(2000, 2, 20) + 725, pace |-> DAY, looks |-> 20],
   [from |-> Midnight(2096, 1, 1) + 725, pace |-> 2 * DAY, looks |-> 220],
   [from |-> Midnight(2025, 6, 1) + 700, pace |-> 37 * DAY + 65, looks |-> 700]}
    \cup {[from |-> Midnight(2026, 2, 1) + 500, pace |-> DAY, looks |-> 1110]}
    \cup {Around(2027, 3, 27), Around(2027, 10, 30), Around(2027, 4, 3), Around(2027, 9, 25),
          Around(2028, 3, 11), Around(2026, 10, 31), Around(2027, 12, 30)}
-----------------------------------------------------------------------------
\* The texts.
Letter(kind, tokens, means) == [kind |-> kind, tokens |-> tokens, means |-> means]
Sent(slots) == Letter("schedule", to_json(slots), slots)
Meal(minute, portions) == [minute |-> minute, portions |-> portions]

\* A meal with a key of its own, whose value is bracketed, and a key given twice.
Noted == <<Sign("["), Sign("{"), Key("note"), Sign(":"), Sign("{"), Key("time"), Sign(":"),
           Sign("["), Sign("]"), Sign("}"), Sign(","), Key("portions"), Sign(":"), Num(30),
           Sign(","), Key("portions"), Sign(":"), Num(3), Sign(","), Key("time"), Sign(":"),
           Hhmm(60), Sign("}"), Sign("]")>>

\* A key of its own with a bare value, which runs on over a bracket that was not sent.
Labelled == <<Sign("["), Sign("{"), Key("time"), Sign(":"), Hhmm(480), Sign(","), Key("portions"),
              Sign(":"), Num(2), Sign(","), Key("note"), Sign(":"), Num(1), Sign("}"), Sign(",")>>
              \o slot_tokens(Meal(1140, 9)) \o <<Sign("]")>>

Name == [t |-> "name", n |-> 0, key |-> ""]
OnDay(month) == <<Sign("M"), Num(month), Sign("."), Num(5), Sign("."), Num(0)>>
Cet == <<Name, Sign("-"), Num(1), Name, Sign(",")>> \o OnDay(3) \o <<Sign(",")>>
         \o OnDay(10) \o <<Sign("/"), Num(3)>>
Change(month, hour) == [month |-> month, week |-> 5, weekday |-> 0, time |-> hour * 3600]
CetMeans == [std |-> 60, changes |-> <<[dst |-> 120, start |-> Change(3, 2), end |-> Change(10, 3)]>>]

PLetters ==
  {Sent(<<>>), Sent(<<Meal(480, 2), Meal(1140, 0)>>), Sent(<<Meal(1, 1), Meal(2, 2), Meal(3, 3)>>),
   Letter("schedule", Noted, <<Meal(60, 3)>>),
   Letter("schedule", Labelled, <<Meal(480, 2), Meal(1140, 9)>>),
   Letter("rule", Cet, <<CetMeans>>),
   Letter("rule", <<Name, Sign("-"), Num(5), Sign(":"), Num(45)>>, <<[std |-> 345, changes |-> <<>>]>>)}
    \cup {Letter("time", <<>>, <<[second |-> s, offset |-> o]>>) :
            s \in {0, 45296, 86399}, o \in {9999} \cup {15 * q : q \in -56..56}}

PStrays == {Sign("{"), Sign("]"), Sign(","), Key("portions"), Num(7), Num(256), Sign("esc"), Name,
            Sign("-"), Sign("M")}

\* What is sent right, and fits, is read as what it means.
ASSUME SentIsRead ==
  \A l \in PLetters :
    /\ l.kind = "schedule" /\ Len(l.means) <= MAX_SLOTS =>
         parse_schedule(l.tokens).ok /\ parse_schedule(l.tokens).v = l.means
    /\ l.kind = "rule" => parse_rule(l.tokens).ok /\ parse_rule(l.tokens).v = l.means[1]
-----------------------------------------------------------------------------
\* The records: a detent of 256 ms and one of 300, one not usable, none of a zone's two alike.
PContents ==
  [credentials |->
     {<< <<65>>, <<>>, <<66, 67>>, <<91, 7>>, <<>>, <<65>>, <<d, 1>>, <<100, 0>> >> : d \in {0, 44}}
       \cup {<< <<65, 66>>, <<67>>, <<66>>, <<91, 7>>, <<65>>, <<>>, <<44, 0>>, <<0, 0>> >>},
   schedule |-> {<<>>, <<Meal(480, 3)>>, <<Meal(480, 1), Meal(1080, 0)>>},
   pause |-> BOOLEAN,
   zone |-> {[name |-> <<69>>, rule |-> <<67, 69>>], [name |-> <<69, 82>>, rule |-> <<67>>]}]

PRuleTexts == {<<67>>, <<67, 69>>}
-----------------------------------------------------------------------------
\* The uploads: the mark after a false start, the whole slot taken; and no mark, in a body
\* whose last block leaves no room for its length.
PBodies == {<<233, 1, 1, 1, 2, 0, 7, 7, 7, 7>>, <<233, 1, 1, 0, 1, 2, 1>>}
PMark == <<1, 1, 2>>
-----------------------------------------------------------------------------
\* The pages: what a browser may send beside the forms as they are drawn, and what a
\* script sends on the other connection, while the first is read or answered.
Network(ssid) ==
  [wifi_ssid |-> ssid, wifi_password |-> "wp", mqtt_host |-> "10.0.0.2", mqtt_port |-> 1883,
   mqtt_user |-> "u", mqtt_password |-> "mp"]
PHeld(meals, kept_in) ==
  [meals |-> meals, paused |-> FALSE, zone |-> kept_in, clock |-> 0, detent |-> 1900, scale |-> 100,
   network |-> Network("home"), running |-> Network("home"), feeds |-> 0, calibrate |-> FALSE,
   erased |-> FALSE,
   flash |-> [record |-> TRUE, meals |-> meals, zone |-> kept_in, paused |-> FALSE]]
PUnits == {PHeld(<< <<Meal(480, 3)>> >>, [name |-> "EU", rule |-> "EU"]), PHeld(<<>>, NoZone)}

\* One whose zone has another rule by now.
PBrowsers == {[own |-> "EU", rules |-> [z \in {"EU"} |-> "US"]]}

PWords == STRING
PTimeName == <<"t1", "t2">>
PPortionsName == <<"p1", "p2">>

Posted(path, auth, origin, form, len) ==
  [method |-> "POST", path |-> path, auth |-> auth, origin |-> origin, form |-> form,
   content_length |-> len]
OneMeal(t, p) == <<Field(t, TimeOfDay(480)), Field(p, Number(3))>>
PForms ==
  {Posted("/schedule", "right", "other", OneMeal("t1", "p1"), 2),
   Posted("/schedule", "right", "self", OneMeal("t1", "p1"), 2),
   Posted("/feed", "right", "self", <<Field("portions", Number(2))>>, 1),
   Posted("/pause", "right", "self", <<Field("paused", Word("on"))>>, 1),
   Posted("/clock", "right", "self",
          <<Field("at", TimeOfDay(1)), Field("zone", Word("EU")), Field("rule", Word("EU"))>>, 3),
   Posted("/calibration", "wrong", "", <<Field("detent_ms", Number(2000))>>, 1),
   Posted("/erase", "right", "self", <<Field("erase", Word("everything"))>>, 1),
   Posted("/erase", "right", "self", <<>>, 9),
   [method |-> "GET", path |-> "/", auth |-> "right", origin |-> "", form |-> <<>>,
    content_length |-> 0]}
POther ==
  {Posted("/network", "right", "",
          <<Field("wifi_ssid", Word("other")), Field("mqtt_host", Word("10.0.0.2")),
            Field("mqtt_port", Number(1883))>>, 3)}
PRequests == [s \in Connections |-> IF s = 1 THEN PForms ELSE POther]
-----------------------------------------------------------------------------
\* Idle: a unit whose chip did not answer, a clock nobody looks at, nothing sent.
RtcIdle ==
  /\ zone = 0 /\ rtc_time = [w |-> 0, offset |-> 0] /\ doing = "gone"
  /\ chip = [w |-> 0, date |-> TRUE, offset |-> None, stopped |-> TRUE, stops_on_battery |-> FALSE]
  /\ target = rtc_time /\ whole = FALSE /\ torn = FALSE /\ faults = 0 /\ upsets = 0

CalendarIdle ==
  /\ rule = Nepal /\ walk = [from |-> Midnight(2027, 1, 1), pace |-> DAY, looks |-> 0]
  /\ utc = walk.from /\ steps = 0
  /\ anchor = [at |-> utc, wall |-> from_local_seconds(utc + 345, 345)]

TextsIdle == letter = Sent(<<>>) /\ text = letter.tokens /\ damage = 0

RecordsIdle ==
  /\ format = "pause" /\ sector = [i \in SECTOR |-> FF] /\ may = {Unread(Nothing.pause)} /\ cuts = 0

PagesIdle == unit = (CHOOSE u \in Units : TRUE) /\ conn = [s \in Connections |-> Idle]

Init ==
  /\ part \in {"rtc", "calendar", "texts", "records", "upload", "pages"}
  /\ IF part = "rtc" THEN RtcInit ELSE RtcIdle
  /\ IF part = "calendar" THEN CalendarInit ELSE CalendarIdle
  /\ IF part = "texts" THEN TextsInit ELSE TextsIdle
  /\ IF part = "records" THEN RecordsInit ELSE RecordsIdle
  /\ UploadInit
  /\ IF part = "pages" THEN PagesInit ELSE PagesIdle

Next ==
  \/ /\ part = "rtc" /\ RtcNext
     /\ UNCHANGED <<part, calendar_vars, texts_vars, records_vars, upload_vars, pages_vars>>
  \/ /\ part = "calendar" /\ CalendarNext
     /\ UNCHANGED <<part, rtc_vars, texts_vars, records_vars, upload_vars, pages_vars>>
  \/ /\ part = "texts" /\ TextsNext
     /\ UNCHANGED <<part, rtc_vars, calendar_vars, records_vars, upload_vars, pages_vars>>
  \/ /\ part = "records" /\ RecordsNext
     /\ UNCHANGED <<part, rtc_vars, calendar_vars, texts_vars, upload_vars, pages_vars>>
  \/ /\ part = "upload" /\ UploadNext
     /\ UNCHANGED <<part, rtc_vars, calendar_vars, texts_vars, records_vars, pages_vars>>
  \/ /\ part = "pages" /\ PagesNext
     /\ UNCHANGED <<part, rtc_vars, calendar_vars, texts_vars, records_vars, upload_vars>>

Spec == Init /\ [][Next]_vars /\ RtcFairness
=============================================================================

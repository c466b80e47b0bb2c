---------------------------- MODULE Pages ----------------------------
(***************************************************************************)
(* The two pages and the sockets under them: the admin page (src/src/web.rs *)
(* and admin.rs), the form of setup mode (provisioning.rs), requests as    *)
(* they arrive (http.rs, request.rs), and the factory reset's box (page.rs). *)
(*                                                                         *)
(* A form is its fields in order.  A value is what it reads as: a word, a  *)
(* number, a time of day, or nothing once it is trimmed; "long" fits no    *)
(* field, and "bad" is an escape that cannot be decoded.  A request body   *)
(* is sent a field at a time, and so may stop between any two.             *)
(***************************************************************************)
EXTENDS Integers, Sequences, FiniteSets, SequencesExt

CONSTANTS
  Connections,
  Requests,                        \* what the client of a connection may send
  Browsing,                        \* the connections of a browser that has the page open
  Units,                           \* settings a unit may have
  Browsers,                        \* the zone a browser is in, and the rule it has for a zone
  MAX_MEALS, MAX_CLICKS, FEED_DEPTH, BODY_LEN,
  Words,                           \* what the name or the value of a field reads as
  TimeName, PortionsName,          \* what the fields of a row are called
  DetentRange, ScaleRange,         \* Field::range, as what it lets through
  Addresses, ZoneRules             \* what reads as an IPv4 address, and as a rule

VARIABLES
  unit,                            \* what a request may change: in force, and in flash
  conn                             \* each connection: the request it is reading

pages_vars == <<unit, conn>>

Empty == ""
Value(text, n) == [text |-> text, n |-> n]
Word(w) == Value(w, -1)
Number(n) == Value("number", n)
TimeOfDay(minute) == Value("time", minute)
Field(name, value) == [name |-> name, value |-> value]
Absent == Word("absent")
Blank(v) == v.text \in {Empty, "absent"}
Undecoded(v) == v.text \in {"long", "bad"}

\* The first field of that name.
field(form, name) ==
  LET hits == {i \in DOMAIN form : form[i].name = name}
  IN  IF hits = {} THEN Absent ELSE form[Min(hits)].value
-----------------------------------------------------------------------------
\* What a value and a form can be, and what a unit can hold: only a number and a time of
\* day come with one; a network has its name, a broker's address and a port.
Values == [text : Words, n : {-1}] \cup [text : {"number", "time"}, n : Int]
Forms == Seq([name : Words, value : Values])

Users == Words \ {"absent", "long", "bad"}
Names == Users \ {Empty}
ZoneTexts == (Words \cap ZoneRules) \ {Empty, "absent"}
Ports == 1..65535
Networks ==
  [wifi_ssid : Names, wifi_password : Words, mqtt_host : Names \cap Addresses,
   mqtt_port : Ports, mqtt_user : Users, mqtt_password : Words]
MealLists == {meals \in Seq([minute : Int, portions : Int]) : Len(meals) <= MAX_MEALS}

\* A schedule, or none when the unit was never given one: not the same as an empty one.
Held == {held \in Seq(MealLists) : Len(held) <= 1}
NoZone == [name |-> Empty, rule |-> Empty]
ZonesKept == [name : Names, rule : ZoneTexts]

\* Of the record, whether it can be read: its values are detent, scale and network.
FlashType ==
  [record : BOOLEAN, meals : Held, zone : ZonesKept \cup {NoZone}, paused : BOOLEAN]
Blanked == [record |-> FALSE, meals |-> <<>>, zone |-> NoZone, paused |-> FALSE]
Sectors == {"record", "meals", "zone", "paused"}

UnitType ==
  [meals : Held, paused : BOOLEAN, zone : ZonesKept \cup {NoZone}, clock : Int,
   detent : DetentRange, scale : ScaleRange, network : Networks, running : Networks,
   feeds : Nat, calibrate : BOOLEAN, erased : BOOLEAN, flash : FlashType]

\* A boot takes what is in flash.
Booted(u) ==
  [u EXCEPT !.meals = u.flash.meals, !.zone = u.flash.zone, !.paused = u.flash.paused,
            !.running = u.network, !.feeds = 0, !.calibrate = FALSE]

ASSUME PagesAssumption ==
  /\ MAX_MEALS \in Nat /\ DetentRange \subseteq Nat /\ ScaleRange \subseteq Nat
  /\ {Empty, "absent", "number", "time", "at", "zone", "rule", "detent_ms", "portion_scale",
      "wifi_ssid", "wifi_password", "mqtt_host", "mqtt_port", "mqtt_user", "mqtt_password"}
       \subseteq Words
  /\ TimeName \in [1..MAX_MEALS -> Words] /\ PortionsName \in [1..MAX_MEALS -> Words]
  /\ \A i, j \in 1..MAX_MEALS :
       /\ TimeName[i] # PortionsName[j]
       /\ i # j => TimeName[i] # TimeName[j] /\ PortionsName[i] # PortionsName[j]
  /\ Units \subseteq UnitType /\ \A u \in Units : u.flash.record /\ Booted(u) = u
  /\ \A b \in Browsers : /\ b.own \in DOMAIN b.rules /\ DOMAIN b.rules \subseteq Names
                         /\ \A z \in DOMAIN b.rules : b.rules[z] \in ZoneTexts
  /\ \A s \in Connections : \A r \in Requests[s] : r.form \in Forms /\ r.content_length \in Nat
-----------------------------------------------------------------------------
(***************************************************************************)
(* What each form asks of the unit; "Problem" is a notice that says why    *)
(* not.                                                                    *)
(***************************************************************************)
Problem(u) == {[said |-> "Problem", unit |-> u]}
Done(u) == [said |-> "Done", unit |-> u]

\* A write that is refused leaves its sector as it was, or erased.
NotWritten(u, sector) == {u, [u EXCEPT !.flash[sector] = Blanked[sector]]}
NotSaved(u, sector) == {[said |-> "Problem", unit |-> v] : v \in NotWritten(u, sector)}

row_time(form, i) == field(form, TimeName[i])
row_portions(form, i) == field(form, PortionsName[i])

\* No portions are none.
row_meal(form, i) ==
  LET p == row_portions(form, i)
  IN  [minute |-> row_time(form, i).n, portions |-> IF Blank(p) THEN 0 ELSE p.n]

\* Rows below the last with a time are dropped.
rows_used(form) ==
  CHOOSE n \in 0..MAX_MEALS :
    /\ n > 0 => ~Blank(row_time(form, n))
    /\ \A i \in (n + 1)..MAX_MEALS : Blank(row_time(form, i))

schedule_from_form(form) ==
  LET rows == 1..rows_used(form)
  IN  IF \/ \E i \in 1..MAX_MEALS :
              Undecoded(row_time(form, i)) \/ Undecoded(row_portions(form, i))
         \/ \E i \in rows : \/ row_time(form, i).text # "time"
                            \/ row_meal(form, i).portions \notin 0..MAX_CLICKS
      THEN [ok |-> FALSE]
      ELSE [ok |-> TRUE, meals |-> [i \in rows |-> row_meal(form, i)]]

\* In force, whether or not flash takes it.
accept_schedule(meals, u) ==
  {[u EXCEPT !.meals = meals, !.flash.meals = meals]}
    \cup {[v EXCEPT !.meals = meals] : v \in NotWritten(u, "meals")}

\* Through the queue of the schedule commands, which may be full; whoever takes it from
\* there may not come to it in the time the page waits, or at all.
save_schedule(form, u) ==
  LET got == schedule_from_form(form)
      wanted == <<got.meals>>
  IN  IF ~got.ok THEN Problem(u)
      ELSE Problem(u) \cup (IF wanted = u.meals THEN {Done(u)}
                            ELSE {[said |-> "Sent", unit |-> u]}
                                   \cup (IF u.erased THEN {}
                                         ELSE {[said |-> said, unit |-> v] :
                                                 said \in {"Sent", "Done"},
                                                 v \in accept_schedule(wanted, u)}))

feed(form, u) ==
  LET portions == field(form, "portions").n
  IN  IF portions \notin 1..MAX_CLICKS \/ u.feeds = FEED_DEPTH THEN Problem(u)
      ELSE {Done([u EXCEPT !.feeds = @ + 1])}

\* The state that is wanted, and not a toggle.  Flash first, here and below; what is in
\* force already is not written.
save_pause(form, u) ==
  LET wanted == field(form, "paused").text
      paused == wanted = "on"
  IN  IF wanted \notin {"on", "off"} THEN Problem(u)
      ELSE IF u.paused = paused THEN {Done(u)}
      ELSE {Done([u EXCEPT !.paused = paused, !.flash.paused = paused])} \cup NotSaved(u, "paused")

\* A time, a zone with its rule, or both.  The zone may not be stored, and the time is
\* set whether or not it is.
clock(form, u) ==
  LET at == field(form, "at")
      name == field(form, "zone")
      rule == field(form, "rule")
      zone == [name |-> name.text, rule |-> rule.text]
      wanted == [u EXCEPT !.clock = IF Blank(at) \/ Undecoded(at) THEN @ ELSE at.n]
      zoned == ~Blank(name) /\ ~Undecoded(name)
  IN  IF \/ ~Blank(at) /\ ~Undecoded(at) /\ at.text # "time"
         \/ zoned /\ (Blank(rule) \/ rule.text \notin ZoneRules)
      THEN Problem(u)
      ELSE IF ~zoned \/ zone = u.zone THEN {Done(wanted)}
      ELSE {Done([wanted EXCEPT !.zone = zone, !.flash.zone = zone])}
             \cup {[said |-> "ZoneProblem", unit |-> v] : v \in NotWritten(wanted, "zone")}

\* A figure that is absent is kept; -1 is one that is no good.
figure(form, name, now, range) ==
  LET v == field(form, name)
  IN  IF v = Absent \/ Undecoded(v) THEN now ELSE IF v.n \in range THEN v.n ELSE -1

save_calibration(form, u) ==
  LET detent == figure(form, "detent_ms", u.detent, DetentRange)
      scale == figure(form, "portion_scale", u.scale, ScaleRange)
      wanted == [u EXCEPT !.detent = detent, !.scale = scale]
  IN  IF detent = -1 \/ scale = -1 THEN Problem(u)
      ELSE IF wanted = u THEN {Done(u)}
      ELSE IF ~u.flash.record THEN Problem(u)
      ELSE {Done(wanted)} \cup NotSaved(u, "record")

\* The setup form and the network form: all but a user and the passwords must be there,
\* the port first; whether there is such a network is not asked here.
fits(form, name) == ~Undecoded(field(form, name))
required(form, name) == ~Blank(field(form, name)) /\ fits(form, name)
text_of(form, name) == IF field(form, name) = Absent THEN Empty ELSE field(form, name).text

record_from_form(form) ==
  IF \/ field(form, "mqtt_port").n \notin Ports
     \/ ~required(form, "mqtt_host") \/ text_of(form, "mqtt_host") \notin Addresses
     \/ ~required(form, "wifi_ssid")
     \/ ~fits(form, "wifi_password") \/ ~fits(form, "mqtt_user") \/ ~fits(form, "mqtt_password")
  THEN [ok |-> FALSE]
  ELSE [ok |-> TRUE,
        record |-> [wifi_ssid |-> text_of(form, "wifi_ssid"),
                    wifi_password |-> text_of(form, "wifi_password"),
                    mqtt_host |-> text_of(form, "mqtt_host"),
                    mqtt_port |-> field(form, "mqtt_port").n,
                    mqtt_user |-> text_of(form, "mqtt_user"),
                    mqtt_password |-> text_of(form, "mqtt_password")]]

\* A password box left empty keeps the password.
kept(form, name, old) == IF Blank(field(form, name)) THEN old ELSE text_of(form, name)

network_from_form(form, current) ==
  LET got == record_from_form(form)
  IN  IF ~got.ok THEN got
      ELSE [ok |-> TRUE,
            record |-> [got.record EXCEPT
                          !.wifi_password = kept(form, "wifi_password", current.wifi_password),
                          !.mqtt_password = kept(form, "mqtt_password", current.mqtt_password)]]

\* Against the record in flash, which must be read first, and is followed from the restart on.
save_network(form, u) ==
  LET got == network_from_form(form, u.network)
  IN  IF ~u.flash.record \/ ~got.ok THEN Problem(u)
      ELSE IF got.record = u.network THEN {Done(u)}
      ELSE {[said |-> "Restarting", unit |-> [u EXCEPT !.network = got.record]]}
             \cup NotSaved(u, "record")

erase_confirmed(form) == field(form, "erase").text = "everything"

\* One sector after the other.
erase_all(u, sectors) ==
  [u EXCEPT !.flash = [k \in Sectors |-> IF k \in sectors THEN Blanked[k] ELSE u.flash[k]]]
ErasedFirst ==
  {{}, {"record"}, {"record", "meals"}, {"record", "meals", "zone"}, Sectors}

\* idle is no feed queued here.  The erase may fail at any sector.
erase(form, u) ==
  IF ~erase_confirmed(form) \/ u.feeds > 0 THEN Problem(u)
  ELSE {[said |-> "Erased", unit |-> [erase_all(u, Sectors) EXCEPT !.erased = TRUE]]}
         \cup {[said |-> "Problem", unit |-> erase_all(u, sectors)] : sectors \in ErasedFirst}
-----------------------------------------------------------------------------
(***************************************************************************)
(* The forms as the page draws them, filled with what the unit holds.      *)
(***************************************************************************)
shown_meals(held) == IF held = <<>> THEN <<>> ELSE held[1]

render_slots(meals) ==
  [j \in 1..(2 * MAX_MEALS) |->
     LET i == (j + 1) \div 2
         held == i \in DOMAIN meals
     IN  IF j % 2 = 1
         THEN Field(TimeName[i], IF held THEN TimeOfDay(meals[i].minute) ELSE Word(Empty))
         ELSE Field(PortionsName[i], IF held THEN Number(meals[i].portions) ELSE Word(Empty))]

render_schedule(u) == render_slots(shown_meals(u.meals))

\* The page's script chooses the stored zone, or the browser's own when there is none, and
\* puts the rule the browser has for it over the stored one.
zone_shown(u, b) == IF u.zone = NoZone THEN b.own ELSE u.zone.name
ZoneFilled(u, b) ==
  [name |-> zone_shown(u, b),
   rule |-> IF zone_shown(u, b) \in DOMAIN b.rules THEN b.rules[zone_shown(u, b)] ELSE u.zone.rule]

\* Without the script the list of zones is empty, and is not sent.
render_clock(u) ==
  {<<Field("at", Word(Empty)), Field("rule", Word(u.zone.rule))>>}
    \cup {<<Field("at", Word(Empty)), Field("zone", Word(ZoneFilled(u, b).name)),
            Field("rule", Word(ZoneFilled(u, b).rule))>> : b \in Browsers}

render_calibration(u) ==
  <<Field("detent_ms", Number(u.detent)), Field("portion_scale", Number(u.scale))>>

\* The network followed since the boot, and never a stored password.
render_network(u) ==
  <<Field("wifi_ssid", Word(u.running.wifi_ssid)), Field("wifi_password", Word(Empty)),
    Field("mqtt_host", Word(u.running.mqtt_host)), Field("mqtt_port", Number(u.running.mqtt_port)),
    Field("mqtt_user", Word(u.running.mqtt_user)), Field("mqtt_password", Word(Empty))>>

Post(path, form) ==
  [method |-> "POST", path |-> path, auth |-> "right", origin |-> "self", form |-> form,
   content_length |-> Len(form)]

Drawn(u) ==
  {Post("/schedule", render_schedule(u)), Post("/calibration", render_calibration(u)),
   Post("/network", render_network(u))}
    \cup {Post("/clock", form) : form \in render_clock(u)}
-----------------------------------------------------------------------------
(***************************************************************************)
(* A request: the password, then where the form was, then what it is.      *)
(***************************************************************************)
authorized(r) == r.auth = "right"

\* Not a browser, or a page this unit sent.
same_origin(r) == r.origin \in {"", "self"}

admit(r) ==
  CASE ~authorized(r) -> "401"
    [] authorized(r) /\ r.method = "POST" /\ ~same_origin(r) -> "403"
    [] OTHER -> "admitted"

Refused(status, u) == {[said |-> status, unit |-> u]}

handle(r, form, u) ==
  CASE admit(r) # "admitted" -> Refused(admit(r), u)
    [] admit(r) = "admitted" /\ r.method = "GET" ->
         Refused(IF r.path = "/" THEN "Shown" ELSE "404", u)
    [] admit(r) = "admitted" /\ r.method = "POST" ->
         CASE r.path = "/schedule" -> save_schedule(form, u)
           [] r.path = "/feed" -> feed(form, u)
           [] r.path = "/pause" -> save_pause(form, u)
           [] r.path = "/clock" -> clock(form, u)
           [] r.path = "/calibration" -> save_calibration(form, u)
           [] r.path = "/calibrate" -> {Done([u EXCEPT !.calibrate = TRUE])}
           [] r.path = "/network" -> save_network(form, u)
           [] r.path = "/erase" -> erase(form, u)
           [] OTHER -> Refused("405", u)
    [] OTHER -> Refused("405", u)

Idle == [state |-> "idle"]

PagesInit == unit \in Units /\ conn = [s \in Connections |-> Idle]

\* The head, and what of the body came with it.
Accepts(s) ==
  /\ conn[s].state = "idle"
  /\ \E r \in Requests[s] \cup (IF s \in Browsing THEN Drawn(unit) ELSE {}), got \in 0..1 :
       conn' = [conn EXCEPT ![s] = [state |-> "reading", request |-> r,
                                    got |-> IF got < Len(r.form) THEN got ELSE Len(r.form)]]
  /\ UNCHANGED unit

Waiting(s) == conn[s].state = "reading" /\ conn[s].got < conn[s].request.content_length

ReadsOn(s) ==
  /\ Waiting(s) /\ conn[s].got < Len(conn[s].request.form)
  /\ conn' = [conn EXCEPT ![s].got = @ + 1]
  /\ UNCHANGED unit

\* The client closes, or sends nothing until the socket's timeout; a body that is larger
\* than the buffer is not read.
GivesUp(s) ==
  /\ Waiting(s) \/ (conn[s].state = "reading" /\ conn[s].request.content_length > BODY_LEN)
  /\ conn' = [conn EXCEPT ![s] = Idle] /\ UNCHANGED unit

\* Mutant: what has come of the body is taken for all of it.
CompleteAtOnce(s) == conn[s].state = "reading"

Complete(s) ==
  /\ conn[s].state = "reading" /\ conn[s].request.content_length <= BODY_LEN
  /\ conn[s].got >= conn[s].request.content_length

\* The store is locked from the erase to the restart.
NeedsStore(r) == r.method = "POST" /\ r.path \in {"/pause", "/clock", "/calibration", "/network", "/erase"}

Handles(s) ==
  /\ Complete(s) /\ ~(unit.erased /\ NeedsStore(conn[s].request))
  /\ LET r == conn[s].request
         body == SubSeq(r.form, 1, IF r.content_length < conn[s].got THEN r.content_length
                                   ELSE conn[s].got)
     IN  \E outcome \in handle(r, body, unit) :
           /\ unit' = outcome.unit
           /\ conn' = [conn EXCEPT ![s] = [state |-> "answered", said |-> outcome.said]]

\* The response has left, and the connection is recycled, or the unit restarted, and
\* everything that was being read is gone; with no record, it comes back through setup.
Recycles(s) ==
  /\ conn[s].state = "answered" /\ conn[s].said \notin {"Restarting", "Erased"}
  /\ conn' = [conn EXCEPT ![s] = Idle]
  /\ UNCHANGED unit

restart_after(s) ==
  /\ conn[s].state = "answered" /\ conn[s].said = "Restarting"
  /\ conn' = [c \in Connections |-> Idle]
  /\ IF unit.flash.record THEN unit' = Booted(unit) ELSE unit' \in Units

\* The feeder takes what is queued and a run that was asked for.
FeederTakes ==
  /\ unit.feeds > 0 \/ unit.calibrate
  /\ unit' = [unit EXCEPT !.feeds = 0, !.calibrate = FALSE]
  /\ UNCHANGED conn

\* A unit that is erased restarts with the feeder idle, and comes back from setup with
\* other settings.
SetUpAgain ==
  /\ unit.erased /\ unit.feeds = 0 /\ unit' \in Units
  /\ conn' = [c \in Connections |-> Idle]

PagesNext ==
  \/ \E s \in Connections : Accepts(s) \/ ReadsOn(s) \/ GivesUp(s) \/ Handles(s) \/ Recycles(s)
                          \/ restart_after(s)
  \/ FeederTakes \/ SetUpAgain

PagesTypeOK ==
  /\ unit \in UnitType
  /\ DOMAIN conn = Connections
  /\ \A s \in Connections : conn[s].state = "reading" =>
       /\ conn[s].request.form \in Forms /\ conn[s].request.content_length \in Nat
       /\ conn[s].got \in 0..Len(conn[s].request.form)

PagesSpec == PagesInit /\ [][PagesNext]_pages_vars
-----------------------------------------------------------------------------
\* What a path is there to change, and where.
About(path) ==
  CASE path = "/schedule" -> {"meals"} [] path = "/feed" -> {"feeds"}
    [] path = "/pause" -> {"paused"} [] path = "/clock" -> {"clock", "zone"}
    [] path = "/calibration" -> {"detent", "scale"} [] path = "/calibrate" -> {"calibrate"}
    [] path = "/network" -> {"network"} [] path = "/erase" -> {"erased"}
    [] OTHER -> {}

Writes(path) ==
  CASE path = "/schedule" -> {"meals"} [] path = "/pause" -> {"paused"} [] path = "/clock" -> {"zone"}
    [] path \in {"/calibration", "/network"} -> {"record"} [] path = "/erase" -> Sectors
    [] OTHER -> {}

Changed == {k \in DOMAIN unit : unit'[k] # unit[k]}
Touched == {k \in Sectors : unit'.flash[k] # unit.flash[k]}

\* What was asked for, and nothing else; in flash before it is in force, but for the meals;
\* and all of it left alone when the page says it was not done, but for a sector that was
\* being written and is now erased.
OnlyAskedFor(s) ==
  LET r == conn[s].request IN
  /\ Changed # {} => /\ r.method = "POST" /\ r.auth = "right" /\ r.origin # "other"
                     /\ conn[s].got >= r.content_length
  /\ Changed \subseteq About(r.path) \cup {"flash"} /\ Touched \subseteq Writes(r.path)
  /\ \A k \in {"paused", "zone"} : k \in Changed => unit'.flash[k] = unit'[k]
  /\ Changed \cap {"detent", "scale", "network"} # {} => unit'.flash.record
  /\ conn'[s].said \notin {"Done", "Sent", "Restarting", "Erased"} =>
       /\ Changed \subseteq {"flash"} \cup (IF conn'[s].said = "ZoneProblem" THEN {"clock"} ELSE {})
       /\ \A k \in Touched : unit'.flash[k] = Blanked[k]

\* A form that comes back as it was drawn asks for nothing; but a unit without a schedule is
\* given an empty one, and the zone becomes what the browser has for it.
AsDrawn(s) ==
  LET r == conn[s].request IN
  r \in Drawn(unit) /\ unit.network = unit.running =>
    /\ r.path \in {"/calibration", "/network"} => Changed = {}
    /\ r.path = "/schedule" => unit'.meals = unit.meals \/ (unit.meals = <<>> /\ unit'.meals = << <<>> >>)
    /\ r.path = "/schedule" /\ unit.meals # <<>> => Changed = {}
    /\ r.path = "/clock" => /\ Changed \subseteq {"zone", "flash"}
                            /\ unit'.zone = unit.zone \/ \E b \in Browsers : unit'.zone = ZoneFilled(unit, b)
    /\ conn'[s].said = "Problem" => r.path = "/schedule" \/ (r.path = "/network" /\ ~unit.flash.record)

\* http.rs:35: "a truncated body would parse as a form with fields missing"; admin.rs:17:
\* "empty means keep"; wiring.rs:578: "Flash first, then in force, so nothing claims a pause
\* the unit would forget on a reboot".  The unit is changed only by a POST that came whole,
\* with the password and not from another site, and only in what that path is for; the
\* pause, the zone, the calibration and the network are changed only together with flash;
\* a page that says something went wrong was drawn over an unchanged unit, but for the
\* clock of a form whose zone could not be stored, though what it was to write may be
\* gone from flash; and a form posted as it is drawn changes nothing but what AsDrawn
\* names, until a network was saved and the unit is about to restart into it.
AsTheFormAsked == [][\A s \in Connections : Handles(s) => OnlyAskedFor(s) /\ AsDrawn(s)]_pages_vars
=============================================================================

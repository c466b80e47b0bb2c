-------------------------------- MODULE Session --------------------------------
(***************************************************************************)
(* The unit and its broker, src/src/mqtt.rs with what the Bus carries to   *)
(* and from it: wifi_task, the session and its order, the messages it acts *)
(* on, the queue of events, the echo of the schedule and the state.        *)
(*                                                                         *)
(* One boot of the unit.  What the broker holds of an earlier one is       *)
(* whatever it was.  A publish has returned once the broker acknowledged   *)
(* its bytes; until then the task waits, over a lost link as well.         *)
(***************************************************************************)
EXTENDS Naturals, Sequences, Indicator

CONSTANTS
  Schedules,         \* schedules a unit may hold
  Boots,             \* the schedule and the pause a boot may find in flash
  None,              \* no schedule
  Copies,            \* what the broker may hold of the unit's last boot
  Replays,           \* sequences of retained messages a subscription may bring
  Sent,              \* messages people and Home Assistant may send
  EVENT_DEPTH, FEED_DEPTH, SCHEDULE_DEPTH,
  STATE_INTERVAL, RETAINED_GRACE, KEEP_ALIVE,       \* ticks
  MaxEvents, MaxSent, MaxDrops, MaxLosses           \* bounds of the instance

\* The command topics and what a payload on one of them can be.
Messages ==
  [topic : {"feed"}, retained : BOOLEAN, body : {"portions", "0", "bad"}]
    \cup [topic : {"paused"}, retained : BOOLEAN, body : {"ON", "OFF", "", "bad"}]
    \cup [topic : {"schedule", "meal"}, retained : BOOLEAN, body : Schedules \cup {"", "bad"}]
    \cup [topic : {"time"}, retained : BOOLEAN, body : {"time", "bad"}]

ASSUME SessionAssumption ==
  /\ None \notin Schedules
  /\ Boots \subseteq [held : Schedules, paused : BOOLEAN]
  /\ Copies \subseteq [schedule : Schedules, paused : BOOLEAN]
  /\ Replays \subseteq Seq(Messages) /\ Sent \subseteq Messages
  /\ EVENT_DEPTH \in Nat \ {0} /\ FEED_DEPTH \in Nat /\ SCHEDULE_DEPTH \in Nat
  /\ STATE_INTERVAL \in Nat \ {0} /\ RETAINED_GRACE \in Nat /\ KEEP_ALIVE \in Nat
  /\ STATE_INTERVAL < KEEP_ALIVE /\ RETAINED_GRACE < KEEP_ALIVE
  /\ MaxEvents \in Nat /\ MaxSent \in Nat /\ MaxDrops \in Nat /\ MaxLosses \in Nat

VARIABLES
  wifi, link, broker, armed,       \* wifi_task and BUS.net
  pc, packet,                      \* where the session is, and what it publishes
  nextState, silent,               \* ticks to the next state, and since the last packet
  events, reported,                \* BUS.events, and how many events it ever took
  held, saving, commands, changed, \* BUS.held, the command in hand, BUS.schedule, schedule_changed
  paused, pause_changed,           \* BUS.paused and its signal
  feed, time, rtc_time             \* BUS.feed, BUS.time, BUS.rtc_time

\* The broker and Home Assistant behind it.
VARIABLES
  peer,              \* the broker has this session
  subscribed, inbox, \* its subscriptions, and the messages that reached the unit
  asked,             \* a request for the time that nobody answered yet
  availability, echo, published,   \* its retained copies
  logged,            \* the events it was given
  sent, drops, losses

wireless == <<wifi, link, losses>>
session == <<pc, packet, nextState, silent, peer, drops>>
schedule == <<held, saving, commands, changed>>
pause == <<paused, pause_changed>>
heard == <<feed, time, rtc_time>>
queue == <<events, reported>>
copies == <<availability, echo, published, logged>>
mail == <<subscribed, inbox, asked>>
vars == <<wireless, broker, armed, session, queue, schedule, pause, heard, copies, mail, sent>>

Nothing == [schedule |-> None, paused |-> FALSE, event |-> 0]
EchoPacket == [Nothing EXCEPT !.schedule = held]
StatePacket == [Nothing EXCEPT !.schedule = held, !.paused = paused]
EventPacket == [Nothing EXCEPT !.event = Head(events)]

Init ==
  /\ wifi = "connecting" /\ link = FALSE /\ broker = FALSE /\ armed = FALSE
  /\ pc = "connect" /\ packet = Nothing /\ nextState = 0 /\ silent = 0
  /\ events = <<>> /\ reported = 0
  /\ \E boot \in Boots : held = boot.held /\ paused = boot.paused
  /\ saving = None /\ commands = <<>> /\ changed = FALSE /\ pause_changed = FALSE
  /\ feed = 0 /\ time = "none" /\ rtc_time = FALSE
  /\ peer = FALSE /\ subscribed = FALSE /\ inbox = <<>> /\ asked = FALSE
  /\ availability = "offline" /\ published \in Copies /\ echo = published.schedule
  /\ logged = <<>> /\ sent = 0 /\ drops = 0 /\ losses = 0
-----------------------------------------------------------------------------
(***************************************************************************)
(* wifi_task                                                               *)
(***************************************************************************)
unwired == <<broker, armed, session, queue, schedule, pause, heard, copies, mail, sent>>

WifiJoins ==
  /\ wifi = "connecting" /\ wifi' = "associated" /\ link' = TRUE
  /\ UNCHANGED <<losses, unwired>>

WifiRefuses ==
  /\ wifi = "connecting" /\ wifi' = "waiting"
  /\ UNCHANGED <<link, losses, unwired>>

WifiWaited ==
  /\ wifi = "waiting" /\ wifi' = "connecting"
  /\ UNCHANGED <<link, losses, unwired>>

\* set_link(false) takes the broker's flag with it.
WifiLost ==
  /\ wifi = "associated" /\ losses < MaxLosses
  /\ wifi' = "waiting" /\ link' = FALSE /\ broker' = FALSE /\ losses' = losses + 1
  /\ UNCHANGED <<armed, session, queue, schedule, pause, heard, copies, mail, sent>>
-----------------------------------------------------------------------------
(***************************************************************************)
(* The session: what is published before it listens, in this order.        *)
(***************************************************************************)
rest == <<wireless, armed, schedule, pause, heard>>

\* Mutant: the time is asked for before anything listens for the answer.
AfterAskingFirst(step) ==
  [discovery |-> "online", online |-> "ask", ask |-> "subscribe", subscribe |-> "first_echo",
   first_echo |-> "poll", echo |-> "poll", state |-> "poll", event |-> "poll"][step]

After(step) ==
  [discovery |-> "online", online |-> "subscribe", subscribe |-> "first_echo",
   first_echo |-> "ask", ask |-> "poll",
   echo |-> "poll", state |-> "poll", event |-> "poll"][step]

Publishing == {"discovery", "online", "subscribe", "first_echo", "ask", "echo", "state", "event"}
Living == Publishing \cup {"poll"}

\* Mutant: what was waiting is thrown away by a new session.
HandshakeOkFlushes ==
  /\ pc = "connect" /\ wifi = "associated"
  /\ pc' = "discovery" /\ packet' = Nothing /\ peer' = TRUE /\ broker' = TRUE
  /\ subscribed' = FALSE /\ inbox' = <<>> /\ silent' = 0 /\ events' = <<>>
  /\ UNCHANGED <<rest, nextState, drops, reported, copies, asked, sent>>

HandshakeOk ==
  /\ pc = "connect" /\ wifi = "associated"
  /\ pc' = "discovery" /\ packet' = Nothing /\ peer' = TRUE /\ broker' = TRUE
  /\ subscribed' = FALSE /\ inbox' = <<>> /\ silent' = 0
  /\ UNCHANGED <<rest, nextState, drops, queue, copies, asked, sent>>

\* However a session ends, run clears the flag.
Ends ==
  /\ pc' = "retry" /\ packet' = Nothing /\ broker' = FALSE /\ nextState' = 0 /\ silent' = 0
  /\ UNCHANGED <<rest, queue, peer, drops, copies, mail, sent>>

\* Refused, unreachable, or no answer in time.
HandshakeFails == pc = "connect" /\ Ends

Retries ==
  /\ pc = "retry" /\ pc' = "connect"
  /\ UNCHANGED <<rest, broker, packet, nextState, silent, queue, peer, drops, copies, mail, sent>>

\* What the broker does with what a step publishes.
Delivered(step) ==
  /\ availability' = IF step = "online" THEN "online" ELSE availability
  /\ echo' = IF step \in {"first_echo", "echo"} THEN packet.schedule ELSE echo
  /\ published' = IF step = "state"
                    THEN [schedule |-> packet.schedule, paused |-> packet.paused] ELSE published
  /\ logged' = IF step = "event" THEN Append(logged, packet.event) ELSE logged
  /\ subscribed' = (subscribed \/ step = "subscribe")
  /\ asked' = (asked \/ step = "ask")
  /\ \/ step = "subscribe" /\ \E replay \in Replays : inbox' = replay
     \/ step # "subscribe" /\ UNCHANGED inbox

Acked(step) ==
  /\ pc = step /\ peer /\ wifi = "associated" /\ Delivered(step)
  /\ pc' = After(step) /\ silent' = 0
  /\ packet' = IF pc' = "first_echo" THEN EchoPacket ELSE Nothing
  /\ nextState' = CASE step = "ask" -> RETAINED_GRACE [] step = "echo" -> 0 [] OTHER -> nextState
  /\ UNCHANGED <<rest, broker, queue, peer, drops, sent>>

\* Mutant: an event that was not acknowledged is put back to be sent again.
SessionFailsRequeues ==
  /\ pc \in Living /\ ~peer
  /\ pc' = "retry" /\ packet' = Nothing /\ broker' = FALSE /\ nextState' = 0 /\ silent' = 0
  /\ events' = IF pc = "event" THEN <<packet.event>> \o events ELSE events
  /\ UNCHANGED <<rest, reported, peer, drops, copies, mail, sent>>

\* A publish or a poll that finds the connection gone; an event in hand is lost.
SessionFails == pc \in Living /\ ~peer /\ Ends
-----------------------------------------------------------------------------
(***************************************************************************)
(* The loop: one branch of the select4 each, in the order they are polled. *)
(***************************************************************************)
\* A live command; a retained one is whatever somebody wanted at some point.
pause_command(m) ==
  /\ m.topic = "paused" /\ m.body \in {"ON", "OFF"} /\ ~m.retained

\* Flash first: a write that fails changes nothing.
set_pause(wanted) ==
  \/ wanted # paused /\ paused' = wanted /\ pause_changed' = TRUE
  \/ UNCHANGED pause

on_feed(m) ==
  feed' = IF m.topic = "feed" /\ m.body = "portions" /\ feed < FEED_DEPTH THEN feed + 1 ELSE feed

\* on_schedule and on_meal_edit.
on_schedule(m) ==
  commands' = IF /\ m.topic \in {"schedule", "meal"} /\ m.body \in Schedules /\ ~m.retained
                 /\ Len(commands) < SCHEDULE_DEPTH
                THEN Append(commands, m.body) ELSE commands

on_time(m) ==
  IF m.topic = "time" /\ m.body = "time"
    THEN /\ time' = (IF m.retained THEN "Retained" ELSE "Live")
         /\ rtc_time' = (rtc_time \/ ~m.retained)
    ELSE UNCHANGED <<time, rtc_time>>

\* The pause waits for the lock of the store: this is where it has it.
Message ==
  /\ pc = "poll" /\ inbox # <<>>
  /\ LET m == Head(inbox)
     IN  /\ on_feed(m) /\ on_schedule(m) /\ on_time(m)
         /\ IF pause_command(m) THEN set_pause(m.body = "ON") ELSE UNCHANGED pause
  /\ inbox' = Tail(inbox)
  /\ UNCHANGED <<wireless, broker, armed, session, queue, held, saving, changed, copies,
                 subscribed, asked, sent>>

rested == <<wireless, broker, armed, silent, peer, drops, heard, held, saving, commands, paused,
            reported, copies, mail, sent>>

Quiet == pc = "poll" /\ inbox = <<>>

StateDue ==
  /\ Quiet /\ nextState = 0
  /\ pc' = "state" /\ packet' = StatePacket /\ nextState' = STATE_INTERVAL
  /\ UNCHANGED <<rested, events, changed, pause_changed>>

\* Mutant: the state a pause calls for waits for whatever follows.
PauseChangedWaits ==
  /\ Quiet /\ nextState > 0 /\ pause_changed
  /\ pause_changed' = FALSE /\ nextState' = STATE_INTERVAL
  /\ UNCHANGED <<rested, pc, packet, events, changed>>

PauseChanged ==
  /\ Quiet /\ nextState > 0 /\ pause_changed
  /\ pause_changed' = FALSE /\ nextState' = 0
  /\ UNCHANGED <<rested, pc, packet, events, changed>>

ScheduleChanged ==
  /\ Quiet /\ nextState > 0 /\ ~pause_changed /\ changed
  /\ changed' = FALSE /\ pc' = "echo" /\ packet' = EchoPacket
  /\ UNCHANGED <<rested, nextState, events, pause_changed>>

EventWaits ==
  /\ Quiet /\ nextState > 0 /\ ~pause_changed /\ ~changed /\ events # <<>>
  /\ events' = Tail(events) /\ pc' = "event" /\ packet' = EventPacket
  /\ UNCHANGED <<rested, nextState, changed, pause_changed>>

\* Time passes in the select when no branch of the unit's own is ready.
Tick ==
  /\ Quiet /\ nextState > 0 /\ ~pause_changed /\ ~changed /\ events = <<>>
  /\ nextState' = nextState - 1 /\ silent' = silent + 1
  /\ UNCHANGED <<rest, broker, pc, packet, queue, peer, drops, copies, mail, sent>>
-----------------------------------------------------------------------------
(***************************************************************************)
(* The other tasks, as far as the session sees them.                       *)
(***************************************************************************)
elsewhere == <<wireless, broker, session, copies, mail>>

\* Bus::report, by any of them: an event that finds no room is dropped.
Report ==
  /\ reported < MaxEvents /\ Len(events) < EVENT_DEPTH
  /\ events' = Append(events, reported + 1) /\ reported' = reported + 1
  /\ UNCHANGED <<elsewhere, armed, schedule, pause, heard, sent>>

\* The schedule task takes the time: only a live one is trusted.
Look ==
  /\ time # "none" /\ time' = "none" /\ armed' = (armed \/ time = "Live")
  /\ UNCHANGED <<elsewhere, queue, schedule, pause, feed, rtc_time, sent>>

\* An edit may be refused, which republishes the unchanged echo.
TakeCommand ==
  /\ saving = None /\ commands # <<>> /\ commands' = Tail(commands)
  /\ \/ Head(commands) # held /\ saving' = Head(commands) /\ UNCHANGED changed
     \/ Head(commands) = held /\ UNCHANGED <<saving, changed>>
     \/ changed' = TRUE /\ UNCHANGED saving
  /\ UNCHANGED <<elsewhere, armed, queue, held, pause, heard, sent>>

\* accept_schedule after its write, whether flash took it or not.
Saved ==
  /\ saving # None /\ held' = saving /\ saving' = None /\ changed' = TRUE
  /\ UNCHANGED <<elsewhere, armed, queue, commands, pause, heard, sent>>

WebPause ==
  /\ sent < MaxSent /\ sent' = sent + 1
  /\ \E wanted \in BOOLEAN : set_pause(wanted)
  /\ UNCHANGED <<elsewhere, armed, queue, schedule, heard>>

FeederTakes ==
  /\ feed > 0 /\ feed' = feed - 1
  /\ UNCHANGED <<elsewhere, armed, queue, schedule, pause, time, rtc_time, sent>>

RtcTakes ==
  /\ rtc_time /\ rtc_time' = FALSE
  /\ UNCHANGED <<elsewhere, armed, queue, schedule, pause, feed, time, sent>>
-----------------------------------------------------------------------------
(***************************************************************************)
(* The broker.                                                             *)
(***************************************************************************)
unit == <<wireless, broker, armed, pc, packet, nextState, silent, queue, schedule, pause, heard>>

\* It restarts, or hears nothing for too long, and publishes the will.  What was being
\* published may have reached it.
BrokerDrops ==
  /\ peer /\ drops < MaxDrops /\ peer' = FALSE /\ drops' = drops + 1
  /\ logged' \in {logged} \cup (IF pc = "event" THEN {Append(logged, packet.event)} ELSE {})
  /\ availability' = "offline" /\ subscribed' = FALSE /\ inbox' = <<>>
  /\ UNCHANGED <<unit, echo, published, asked, sent>>

Send(m) ==
  /\ peer /\ subscribed /\ wifi = "associated" /\ inbox = <<>>
  /\ sent < MaxSent /\ sent' = sent + 1
  /\ inbox' = <<m>>
  /\ UNCHANGED <<unit, peer, drops, copies, subscribed, asked>>

\* Home Assistant answers, once; what no session subscribed to is lost.
Answer ==
  /\ asked /\ asked' = FALSE /\ (peer => wifi = "associated")
  /\ inbox' = IF peer /\ subscribed
                THEN Append(inbox, [topic |-> "time", retained |-> FALSE, body |-> "time"])
                ELSE inbox
  /\ UNCHANGED <<unit, peer, drops, copies, subscribed, sent>>
-----------------------------------------------------------------------------
Wifi == WifiJoins \/ WifiRefuses \/ WifiWaited \/ WifiLost

Step == \E step \in Publishing : Acked(step)

Mqtt ==
  \/ HandshakeFails \/ Retries \/ Step \/ SessionFails
  \/ Message \/ StateDue \/ PauseChanged \/ ScheduleChanged \/ EventWaits

ScheduleTask == Look \/ TakeCommand \/ Saved
Tasks == ScheduleTask \/ FeederTakes \/ RtcTakes

Next ==
  \/ Wifi \/ HandshakeOk \/ Mqtt \/ Tick \/ Tasks \/ Report \/ WebPause
  \/ BrokerDrops \/ Answer \/ \E m \in Sent : Send(m)

Spec == Init /\ [][Next]_vars

\* The executor runs whatever is ready; the router and the broker are there more often
\* than never; Home Assistant answers.
Fairness ==
  /\ SF_vars(WifiJoins) /\ WF_vars(WifiWaited) /\ SF_vars(HandshakeOk)
  /\ WF_vars(Mqtt \/ Tick)
  /\ WF_vars(ScheduleTask) /\ WF_vars(Answer)
FairSpec == Spec /\ Fairness
-----------------------------------------------------------------------------
Led == StatusOf([reset_held |-> FALSE, jammed |-> FALSE, feeding |-> FALSE, setup |-> FALSE,
                 link |-> link, broker |-> broker, armed |-> armed, paused |-> paused])

Packets == [schedule : Schedules \cup {None}, paused : BOOLEAN, event : Nat]

TypeOK ==
  /\ wifi \in {"connecting", "associated", "waiting"}
  /\ link \in BOOLEAN /\ broker \in BOOLEAN /\ armed \in BOOLEAN
  /\ pc \in Living \cup {"connect", "retry"} /\ packet \in Packets
  /\ nextState \in Nat /\ silent \in Nat
  /\ events \in Seq(Nat) /\ Len(events) <= EVENT_DEPTH /\ reported \in Nat
  /\ held \in Schedules /\ saving \in Schedules \cup {None} /\ changed \in BOOLEAN
  /\ commands \in Seq(Schedules) /\ Len(commands) <= SCHEDULE_DEPTH
  /\ paused \in BOOLEAN /\ pause_changed \in BOOLEAN
  /\ feed \in 0..FEED_DEPTH /\ time \in {"none", "Retained", "Live"} /\ rtc_time \in BOOLEAN
  /\ peer \in BOOLEAN /\ subscribed \in BOOLEAN /\ asked \in BOOLEAN
  /\ inbox \in Seq(Messages)
  /\ availability \in {"offline", "online"} /\ echo \in Schedules
  /\ published \in [schedule : Schedules, paused : BOOLEAN]
  /\ logged \in Seq(Nat)
  /\ sent \in Nat /\ drops \in Nat /\ losses \in Nat

\* Home Assistant's log has the events in the order they happened and none of them
\* twice, however often the session breaks with one half published.
EventsInOrder == \A i, j \in 1..Len(logged) : i < j => logged[i] < logged[j]

\* A session that ends costs at most the one event it had in hand: all the others the
\* queue ever took are logged, waiting or being published.
InHand == IF pc = "event" THEN 1 ELSE 0
LossBounded == reported <= Len(logged) + Len(events) + InHand + drops

\* The broker never has to wait its keep-alive out for a packet of a unit that is up:
\* nothing the session handles meanwhile puts the next state off.
KeptAlive == pc = "poll" => silent < KEEP_ALIVE

\* Once connections stop failing and people stop changing things, the broker's copies
\* are what the unit holds, the log is up to date, and the clock is armed: whatever was
\* changed, lost or asked for in between, and whatever the broker held before.
InStep == <>[](/\ availability = "online" /\ echo = held
               /\ published = [schedule |-> held, paused |-> paused]
               /\ events = <<>> /\ armed)

\* indicator.rs:115: "On the network but not talking to the broker."  The LED never says
\* so right after the broker acknowledged a state.
NoBrokerIsSo == [][pc = "state" /\ pc' = "poll" => Led' # "NoBroker"]_vars
=============================================================================

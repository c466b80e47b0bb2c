----------------------------- MODULE SessionProofs -----------------------------
(***************************************************************************)
(* What the session does with its events and its time, for any schedules,  *)
(* messages, queues, intervals and number of broken sessions: the types of *)
(* Session, EventsInOrder, LossBounded and KeptAlive.                      *)
(***************************************************************************)
EXTENDS Session, TLAPS

Rising(s) == \A i, j \in 1..Len(s) : i < j => s[i] < s[j]
Below(s, n) == \A i \in 1..Len(s) : s[i] < n
Beyond(s, n) == \A i \in 1..Len(s) : n < s[i]

\* The log, then what is being published, then what waits, are in the order they happened.
\* A broker that dropped the session may have the one being published already.
Ordered ==
  /\ Rising(logged) /\ Below(logged, reported + 1)
  /\ Rising(events) /\ Below(events, reported + 1)
  /\ \A j \in 1..Len(events) : Below(logged, events[j])
  /\ pc = "event" =>
       /\ packet.event < reported + 1 /\ Beyond(events, packet.event)
       /\ peer => Below(logged, packet.event)

\* A dropped session that has not noticed may still take an event, and lose it; one that
\* had it in hand when it was dropped has lost it by then.
Unnoticed == IF pc \in Living /\ pc # "event" /\ ~peer THEN 1 ELSE 0
Held == IF pc = "event" /\ peer THEN 1 ELSE 0
Accounted == reported + Unnoticed <= Len(logged) + Len(events) + Held + drops

\* The next state is due before the broker's patience ends.
Prompt ==
  /\ nextState < KEEP_ALIVE
  /\ pc = "poll" => silent + nextState < KEEP_ALIVE

\* A packet that carries the schedule carries one.
Loaded == pc \in {"first_echo", "echo", "state"} => packet.schedule \in Schedules

IInv == TypeOK /\ Loaded /\ Ordered /\ Accounted /\ Prompt
-----------------------------------------------------------------------------
(***************************************************************************)
(* Types, in the groups of variables that Session changes together.        *)
(***************************************************************************)
RadioOK == wifi \in {"connecting", "associated", "waiting"} /\ link \in BOOLEAN /\ losses \in Nat
NetOK == broker \in BOOLEAN /\ armed \in BOOLEAN
SessionOK ==
  /\ pc \in Living \cup {"connect", "retry"} /\ packet \in Packets
  /\ nextState \in Nat /\ silent \in Nat /\ peer \in BOOLEAN /\ drops \in Nat
QueueOK == events \in Seq(Nat) /\ Len(events) <= EVENT_DEPTH /\ reported \in Nat
ScheduleOK ==
  /\ held \in Schedules /\ saving \in Schedules \cup {None} /\ changed \in BOOLEAN
  /\ commands \in Seq(Schedules) /\ Len(commands) <= SCHEDULE_DEPTH
PauseOK == paused \in BOOLEAN /\ pause_changed \in BOOLEAN
HeardOK == feed \in 0..FEED_DEPTH /\ time \in {"none", "Retained", "Live"} /\ rtc_time \in BOOLEAN
CopiesOK ==
  /\ availability \in {"offline", "online"} /\ echo \in Schedules
  /\ published \in [schedule : Schedules, paused : BOOLEAN] /\ logged \in Seq(Nat)
MailOK == subscribed \in BOOLEAN /\ inbox \in Seq(Messages) /\ asked \in BOOLEAN
SentOK == sent \in Nat

LEMMA Types ==
  TypeOK <=> /\ RadioOK /\ NetOK /\ SessionOK /\ QueueOK /\ ScheduleOK /\ PauseOK
             /\ HeardOK /\ CopiesOK /\ MailOK /\ SentOK
  BY DEF TypeOK, RadioOK, NetOK, SessionOK, QueueOK, ScheduleOK, PauseOK, HeardOK, CopiesOK,
     MailOK, SentOK

LEMMA TypesNext ==
  /\ RadioOK' /\ NetOK' /\ SessionOK' /\ QueueOK' /\ ScheduleOK' /\ PauseOK'
  /\ HeardOK' /\ CopiesOK' /\ MailOK' /\ SentOK'
  => TypeOK'
  BY DEF TypeOK, RadioOK, NetOK, SessionOK, QueueOK, ScheduleOK, PauseOK, HeardOK, CopiesOK,
     MailOK, SentOK

LEMMA Depths ==
  /\ EVENT_DEPTH \in Nat /\ EVENT_DEPTH > 0 /\ FEED_DEPTH \in Nat /\ SCHEDULE_DEPTH \in Nat
  /\ STATE_INTERVAL \in Nat /\ RETAINED_GRACE \in Nat /\ KEEP_ALIVE \in Nat
  /\ STATE_INTERVAL < KEEP_ALIVE /\ RETAINED_GRACE < KEEP_ALIVE
  BY SessionAssumption

\* What a step leaves alone keeps its type.
LEMMA Kept ==
  ASSUME TypeOK
  PROVE  /\ UNCHANGED wireless => RadioOK'
         /\ UNCHANGED <<broker, armed>> => NetOK'
         /\ UNCHANGED session => SessionOK'
         /\ UNCHANGED queue => QueueOK'
         /\ UNCHANGED schedule => ScheduleOK'
         /\ UNCHANGED pause => PauseOK'
         /\ UNCHANGED heard => HeardOK'
         /\ UNCHANGED copies => CopiesOK'
         /\ UNCHANGED mail => MailOK'
         /\ UNCHANGED sent => SentOK'
<1> USE Types
<1>1. UNCHANGED wireless => RadioOK' BY DEF RadioOK, wireless
<1>2. UNCHANGED <<broker, armed>> => NetOK' BY DEF NetOK
<1>3. UNCHANGED session => SessionOK' BY DEF SessionOK, session
<1>4. UNCHANGED queue => QueueOK' BY DEF QueueOK, queue
<1>5. UNCHANGED schedule => ScheduleOK' BY DEF ScheduleOK, schedule
<1>6. UNCHANGED pause => PauseOK' BY DEF PauseOK, pause
<1>7. UNCHANGED heard => HeardOK' BY DEF HeardOK, heard
<1>8. UNCHANGED copies => CopiesOK' BY DEF CopiesOK, copies
<1>9. UNCHANGED mail => MailOK' BY DEF MailOK, mail
<1>10. UNCHANGED sent => SentOK' BY DEF SentOK
<1> QED BY <1>1, <1>2, <1>3, <1>4, <1>5, <1>6, <1>7, <1>8, <1>9, <1>10

LEMMA TypeInit == Init => TypeOK
<1> SUFFICES ASSUME Init PROVE TypeOK
  OBVIOUS
<1>1. RadioOK /\ NetOK /\ SentOK BY DEF Init, RadioOK, NetOK, SentOK
<1>2. SessionOK BY DEF Init, SessionOK, Nothing, Packets
<1>3. events \in Seq(Nat) /\ Len(events) <= EVENT_DEPTH /\ inbox \in Seq(Messages)
  <2>1. events = <<>> /\ inbox = <<>> BY DEF Init
  <2> QED BY <2>1, Depths
<1>4. PICK boot \in Boots : held = boot.held /\ paused = boot.paused BY DEF Init
<1>5. held \in Schedules /\ paused \in BOOLEAN BY <1>4, SessionAssumption
<1>6. commands \in Seq(Schedules) /\ Len(commands) <= SCHEDULE_DEPTH
  <2>1. commands = <<>> BY DEF Init
  <2> QED BY <2>1, Depths
<1>7. QueueOK /\ MailOK BY <1>3 DEF Init, QueueOK, MailOK
<1>8. ScheduleOK /\ PauseOK BY <1>5, <1>6 DEF Init, ScheduleOK, PauseOK
<1>9. feed \in 0..FEED_DEPTH BY Depths DEF Init
<1>10. HeardOK BY <1>9 DEF Init, HeardOK
<1>11. published \in [schedule : Schedules, paused : BOOLEAN] BY SessionAssumption DEF Init
<1>12. CopiesOK BY <1>11 DEF Init, CopiesOK
<1> QED BY <1>1, <1>2, <1>7, <1>8, <1>10, <1>12, Types

LEMMA PacketTypes ==
  ASSUME TypeOK
  PROVE  Nothing \in Packets /\ EchoPacket \in Packets /\ StatePacket \in Packets
  BY Types DEF ScheduleOK, PauseOK, Nothing, EchoPacket, StatePacket, Packets

\* The tasks of the unit but the session's own.
LEMMA TypeElsewhere ==
  ASSUME TypeOK, Wifi \/ Tasks \/ Report \/ WebPause
  PROVE  TypeOK'
<1> USE Types, TypesNext, Kept
<1>1. CASE Wifi
  <2>0. losses' \in Nat BY <1>1 DEF RadioOK, Wifi, WifiJoins, WifiRefuses, WifiWaited, WifiLost
  <2>1. RadioOK'
    BY <1>1, <2>0 DEF RadioOK, Wifi, WifiJoins, WifiRefuses, WifiWaited, WifiLost
  <2>2. NetOK' BY <1>1 DEF NetOK, Wifi, WifiJoins, WifiRefuses, WifiWaited, WifiLost, unwired
  <2>3. UNCHANGED <<session, queue, schedule, pause, heard, copies, mail, sent>>
    BY <1>1 DEF Wifi, WifiJoins, WifiRefuses, WifiWaited, WifiLost, unwired
  <2> QED BY <2>1, <2>2, <2>3
<1>2. CASE Look
  <2>1. NetOK' /\ HeardOK' BY <1>2 DEF NetOK, HeardOK, Look, elsewhere
  <2> QED BY <1>2, <2>1 DEF Look, elsewhere
<1>3. CASE TakeCommand
  <2>1. Head(commands) \in Schedules /\ commands' \in Seq(Schedules)
        /\ Len(commands') <= SCHEDULE_DEPTH
    BY <1>3, Depths DEF ScheduleOK, TakeCommand
  <2>2. saving' \in Schedules \cup {None} BY <1>3, <2>1 DEF ScheduleOK, TakeCommand
  <2>3. held' \in Schedules /\ changed' \in BOOLEAN BY <1>3 DEF ScheduleOK, TakeCommand
  <2>4. ScheduleOK' BY <2>1, <2>2, <2>3 DEF ScheduleOK
  <2> QED BY <1>3, <2>4 DEF TakeCommand, elsewhere
<1>4. CASE Saved
  <2>1. ScheduleOK' BY <1>4 DEF ScheduleOK, Saved
  <2> QED BY <1>4, <2>1 DEF Saved, elsewhere
<1>5. CASE FeederTakes
  <2>1. HeardOK' BY <1>5, Depths DEF HeardOK, FeederTakes
  <2> QED BY <1>5, <2>1 DEF FeederTakes, elsewhere
<1>6. CASE RtcTakes
  <2>1. HeardOK' BY <1>6 DEF HeardOK, RtcTakes
  <2> QED BY <1>6, <2>1 DEF RtcTakes, elsewhere
<1>7. CASE Report
  <2>1. QueueOK' BY <1>7, Depths DEF QueueOK, Report
  <2> QED BY <1>7, <2>1 DEF Report, elsewhere
<1>8. CASE WebPause
  <2>1. SentOK' BY <1>8 DEF SentOK, WebPause
  <2>2. PauseOK' BY <1>8 DEF PauseOK, WebPause, set_pause, pause
  <2> QED BY <1>8, <2>1, <2>2 DEF WebPause, elsewhere
<1> QED
  BY <1>1, <1>2, <1>3, <1>4, <1>5, <1>6, <1>7, <1>8 DEF Tasks, ScheduleTask

LEMMA TypeBroker ==
  ASSUME TypeOK, BrokerDrops \/ Answer \/ \E m \in Sent : Send(m)
  PROVE  TypeOK'
<1> USE Types, TypesNext, Kept
<1>1. CASE BrokerDrops
  <2>1. packet.event \in Nat BY DEF SessionOK, Packets
  <2>2. CopiesOK' BY <1>1, <2>1 DEF CopiesOK, BrokerDrops
  <2>3. drops' \in Nat BY <1>1 DEF SessionOK, BrokerDrops
  <2>4. SessionOK' BY <1>1, <2>3 DEF SessionOK, BrokerDrops, unit
  <2>5. inbox' \in Seq(Messages) BY <1>1 DEF BrokerDrops
  <2>6. MailOK' BY <1>1, <2>5 DEF MailOK, BrokerDrops
  <2> QED BY <1>1, <2>2, <2>4, <2>6 DEF BrokerDrops, unit
<1>2. CASE Answer
  <2>1. [topic |-> "time", retained |-> FALSE, body |-> "time"] \in Messages BY DEF Messages
  <2>2. inbox' \in Seq(Messages) BY <1>2, <2>1 DEF MailOK, Answer
  <2>3. MailOK' BY <1>2, <2>2 DEF MailOK, Answer
  <2>4. SessionOK' BY <1>2 DEF SessionOK, Answer, unit
  <2> QED BY <1>2, <2>3, <2>4 DEF Answer, unit
<1>3. ASSUME NEW m \in Sent, Send(m) PROVE TypeOK'
  <2>1. m \in Messages BY SessionAssumption
  <2>2. MailOK' /\ SentOK' BY <1>3, <2>1 DEF MailOK, SentOK, Send
  <2>3. SessionOK' BY <1>3 DEF SessionOK, Send, unit
  <2> QED BY <1>3, <2>2, <2>3 DEF Send, unit
<1> QED BY <1>1, <1>2, <1>3

LEMMA TypeMessage == ASSUME TypeOK, Message PROVE TypeOK'
<1> USE Types, TypesNext, Kept
<1>1. MailOK' BY DEF MailOK, Message
<1>2. HeardOK'
  <2>1. feed' \in 0..FEED_DEPTH BY Depths DEF HeardOK, Message, on_feed
  <2>2. time' \in {"none", "Retained", "Live"} /\ rtc_time' \in BOOLEAN
    BY DEF HeardOK, Message, on_time
  <2> QED BY <2>1, <2>2 DEF HeardOK
<1>3. commands' \in Seq(Schedules) /\ Len(commands') <= SCHEDULE_DEPTH
  BY Depths DEF ScheduleOK, Message, on_schedule
<1>4. ScheduleOK' BY <1>3 DEF ScheduleOK, Message
<1>5. PauseOK' BY DEF PauseOK, Message, set_pause, pause
<1> QED BY <1>1, <1>2, <1>4, <1>5 DEF Message

LEMMA TypeAcked ==
  ASSUME TypeOK, Loaded, NEW step \in Publishing, Acked(step)
  PROVE  TypeOK'
<1> USE Types, TypesNext, Kept
<1>1. After(step) \in Living BY DEF Publishing, Living, After
<1>2. packet' \in Packets BY PacketTypes DEF Acked
<1>3. nextState' \in Nat BY Depths DEF SessionOK, Acked
<1>4. SessionOK' BY <1>1, <1>2, <1>3 DEF SessionOK, Acked
<1>5. MailOK'
  <2>1. inbox' \in Seq(Messages) BY SessionAssumption DEF MailOK, Acked, Delivered
  <2> QED BY <2>1 DEF MailOK, Acked, Delivered
<1>6. CopiesOK'
  <2>1. packet.event \in Nat BY DEF SessionOK, Packets
  <2>2. logged' \in Seq(Nat) BY <2>1 DEF CopiesOK, Acked, Delivered
  <2>3. availability' \in {"offline", "online"} BY DEF CopiesOK, Acked, Delivered
  <2>4. echo' \in Schedules BY DEF CopiesOK, Loaded, Acked, Delivered
  <2>5. published' \in [schedule : Schedules, paused : BOOLEAN]
    <3>1. CASE step = "state"
      <4>1. packet.schedule \in Schedules /\ packet.paused \in BOOLEAN
        BY <3>1 DEF SessionOK, Packets, Loaded, Acked
      <4> QED BY <3>1, <4>1 DEF Acked, Delivered
    <3>2. CASE step # "state" BY <3>2 DEF CopiesOK, Acked, Delivered
    <3> QED BY <3>1, <3>2
  <2> QED BY <2>2, <2>3, <2>4, <2>5 DEF CopiesOK
<1> QED BY <1>4, <1>5, <1>6 DEF Acked, rest

LEMMA TypeStep == TypeOK /\ Loaded /\ [Next]_vars => TypeOK'
<1> SUFFICES ASSUME TypeOK, Loaded, [Next]_vars PROVE TypeOK'
  OBVIOUS
<1> USE Types, TypesNext, Kept
<1>1. CASE UNCHANGED vars BY <1>1 DEF vars
<1>2. CASE HandshakeOk
  <2>1. SessionOK' BY <1>2, PacketTypes DEF SessionOK, HandshakeOk, Living, Publishing
  <2>2. NetOK' BY <1>2 DEF NetOK, HandshakeOk, rest
  <2>3. inbox' \in Seq(Messages) BY <1>2 DEF HandshakeOk
  <2>4. MailOK' BY <1>2, <2>3 DEF MailOK, HandshakeOk
  <2> QED BY <1>2, <2>1, <2>2, <2>4 DEF HandshakeOk, rest
<1>3. CASE HandshakeFails \/ SessionFails
  <2>1. Ends BY <1>3 DEF HandshakeFails, SessionFails
  <2>2. SessionOK' BY <2>1, PacketTypes DEF SessionOK, Ends
  <2>3. NetOK' BY <2>1 DEF NetOK, Ends, rest
  <2> QED BY <2>1, <2>2, <2>3 DEF Ends, rest
<1>4. CASE Retries
  <2>1. SessionOK' /\ NetOK' BY <1>4 DEF SessionOK, NetOK, Retries, rest
  <2> QED BY <1>4, <2>1 DEF Retries, rest
<1>5. CASE StateDue
  <2>1. SessionOK'
    BY <1>5, PacketTypes, Depths
    DEF SessionOK, StateDue, rested, Living, Publishing
  <2>2. QueueOK' /\ ScheduleOK' /\ PauseOK'
    BY <1>5 DEF QueueOK, ScheduleOK, PauseOK, StateDue, rested
  <2> QED BY <1>5, <2>1, <2>2 DEF StateDue, rested
<1>6. CASE PauseChanged
  <2>1. SessionOK' BY <1>6 DEF SessionOK, PauseChanged, rested
  <2>2. QueueOK' /\ ScheduleOK' /\ PauseOK'
    BY <1>6 DEF QueueOK, ScheduleOK, PauseOK, PauseChanged, rested
  <2> QED BY <1>6, <2>1, <2>2 DEF PauseChanged, rested
<1>7. CASE ScheduleChanged
  <2>1. SessionOK'
    BY <1>7, PacketTypes DEF SessionOK, ScheduleChanged, rested, Living, Publishing
  <2>2. QueueOK' /\ ScheduleOK' /\ PauseOK'
    BY <1>7 DEF QueueOK, ScheduleOK, PauseOK, ScheduleChanged, rested
  <2> QED BY <1>7, <2>1, <2>2 DEF ScheduleChanged, rested
<1>8. CASE EventWaits
  <2>1. Head(events) \in Nat /\ events' \in Seq(Nat) /\ Len(events') <= EVENT_DEPTH
    BY <1>8, Depths DEF QueueOK, EventWaits, Quiet
  <2>2. packet' \in Packets
    BY <1>8, <2>1, PacketTypes DEF EventWaits, EventPacket, Nothing, Packets
  <2>3. SessionOK' BY <1>8, <2>2 DEF SessionOK, EventWaits, rested, Living, Publishing
  <2>4. QueueOK' /\ ScheduleOK' /\ PauseOK'
    BY <1>8, <2>1 DEF QueueOK, ScheduleOK, PauseOK, EventWaits, rested
  <2> QED BY <1>8, <2>3, <2>4 DEF EventWaits, rested
<1>9. CASE Tick
  <2>1. SessionOK' /\ NetOK' BY <1>9 DEF SessionOK, NetOK, Tick, rest
  <2> QED BY <1>9, <2>1 DEF Tick, rest
<1> QED
  BY <1>1, <1>2, <1>3, <1>4, <1>5, <1>6, <1>7, <1>8, <1>9, TypeElsewhere, TypeBroker,
     TypeMessage, TypeAcked
  DEF Next, Mqtt, Step
-----------------------------------------------------------------------------
(***************************************************************************)
(* The steps that leave the session, its queue and the log alone.          *)
(***************************************************************************)
Aside == UNCHANGED <<session, queue, logged>>

Broken == (pc = "connect" \/ (pc \in Living /\ ~peer)) /\ Ends

LEMMA AsideSteps ==
  ASSUME [Next]_vars
  PROVE  \/ Aside
         \/ HandshakeOk \/ Broken
         \/ Retries \/ (\E step \in Publishing : Acked(step))
         \/ StateDue \/ PauseChanged \/ ScheduleChanged \/ EventWaits \/ Tick
         \/ Report \/ BrokerDrops
<1> USE DEF Aside
<1>1. CASE UNCHANGED vars BY <1>1 DEF vars, copies
<1>2. CASE Wifi
  BY <1>2 DEF Wifi, WifiJoins, WifiRefuses, WifiWaited, WifiLost, unwired, copies
<1>3. CASE Tasks
  BY <1>3 DEF Tasks, ScheduleTask, Look, TakeCommand, Saved, FeederTakes, RtcTakes, elsewhere,
     copies
<1>4. CASE WebPause \/ Message BY <1>4 DEF WebPause, Message, elsewhere, copies
<1>5. CASE Answer \/ \E m \in Sent : Send(m)
  BY <1>5 DEF Answer, Send, unit, session, copies
<1>6. CASE HandshakeFails \/ SessionFails
  <2>1. Broken BY <1>6 DEF HandshakeFails, SessionFails, Broken
  <2> QED BY <2>1
<1> QED BY <1>1, <1>2, <1>3, <1>4, <1>5, <1>6 DEF Next, Mqtt, Step

LEMMA LoadedStep == TypeOK /\ Loaded /\ [Next]_vars => Loaded'
<1> SUFFICES ASSUME TypeOK, Loaded, [Next]_vars PROVE Loaded'
  OBVIOUS
<1>1. held \in Schedules BY Types DEF ScheduleOK
<1>2. EchoPacket.schedule = held /\ StatePacket.schedule = held
  BY DEF EchoPacket, StatePacket, Nothing
<1>3. CASE Aside BY <1>3 DEF Aside, session, Loaded
<1>4. CASE Report \/ BrokerDrops
  BY <1>4 DEF Report, BrokerDrops, elsewhere, unit, session, Loaded
<1>5. ASSUME NEW step \in Publishing, Acked(step) PROVE Loaded'
  BY <1>1, <1>2, <1>5 DEF Acked, After, Publishing, Loaded
<1>6. CASE HandshakeOk \/ Broken \/ Retries
  BY <1>6 DEF HandshakeOk, Broken, Ends, Retries, Loaded
<1>7. CASE StateDue \/ ScheduleChanged \/ EventWaits
  BY <1>1, <1>2, <1>7 DEF StateDue, ScheduleChanged, EventWaits, Loaded
<1>8. CASE PauseChanged \/ Tick BY <1>8 DEF PauseChanged, Tick, Quiet, Loaded
<1> QED BY <1>3, <1>4, <1>5, <1>6, <1>7, <1>8, AsideSteps
-----------------------------------------------------------------------------
(***************************************************************************)
(* The time a session may be silent.                                       *)
(***************************************************************************)
LEMMA FromZero ==
  ASSUME NEW k \in Nat, NEW n \in Nat, n < k, NEW m, m = 0
  PROVE  m + n < k
  OBVIOUS

LEMMA PromptStep == TypeOK /\ Prompt /\ [Next]_vars => Prompt'
<1> SUFFICES ASSUME TypeOK, Prompt, [Next]_vars PROVE Prompt'
  OBVIOUS
<1>1. nextState \in Nat /\ silent \in Nat BY Types DEF SessionOK
<1>2. CASE Aside BY <1>2 DEF Aside, session, Prompt
<1>3. CASE Report \/ BrokerDrops
  BY <1>3 DEF Report, BrokerDrops, elsewhere, unit, session, Prompt
<1>4. ASSUME NEW step \in Publishing, Acked(step) PROVE Prompt'
  <2>1. silent' = 0 BY <1>4 DEF Acked
  <2>2. nextState' \in {nextState, 0, RETAINED_GRACE} BY <1>4 DEF Acked
  <2>3. nextState' \in Nat BY <1>1, <2>2, Depths
  <2>4. nextState' < KEEP_ALIVE BY <2>2, Depths DEF Prompt
  <2>5. silent' + nextState' < KEEP_ALIVE BY <2>1, <2>3, <2>4, FromZero, Depths
  <2> QED BY <2>4, <2>5 DEF Prompt
<1>5. CASE HandshakeOk \/ Broken \/ Retries
  BY <1>1, <1>5, Depths DEF HandshakeOk, Broken, Ends, Retries, Prompt
<1>6. CASE StateDue \/ ScheduleChanged \/ EventWaits
  BY <1>6, Depths DEF StateDue, ScheduleChanged, EventWaits, rested, Prompt
<1>7. CASE PauseChanged BY <1>1, <1>7, Depths DEF PauseChanged, Quiet, rested, Prompt
<1>8. CASE Tick BY <1>1, <1>8, Depths DEF Tick, Quiet, Prompt
<1> QED BY <1>2, <1>3, <1>4, <1>5, <1>6, <1>7, <1>8, AsideSteps
-----------------------------------------------------------------------------
(***************************************************************************)
(* The events a broken session costs.                                      *)
(***************************************************************************)
LEMMA Counts ==
  ASSUME TypeOK
  PROVE  /\ Len(logged) \in Nat /\ Len(events) \in Nat /\ reported \in Nat /\ drops \in Nat
         /\ Unnoticed \in {0, 1} /\ Held \in {0, 1}
  BY Types DEF CopiesOK, QueueOK, SessionOK, Unnoticed, Held

LEMMA AccountedStep == TypeOK /\ Accounted /\ [Next]_vars => Accounted'
<1> SUFFICES ASSUME TypeOK, Accounted, [Next]_vars PROVE Accounted'
  OBVIOUS
<1> USE Counts
<1>1. CASE Aside BY <1>1 DEF Aside, session, queue, Accounted, Unnoticed, Held
<1>2. CASE Report
  <2>1. Len(events') = Len(events) + 1 /\ reported' = reported + 1
    BY <1>2, Types DEF Report, QueueOK
  <2>2. Len(logged') = Len(logged) /\ drops' = drops /\ Unnoticed' = Unnoticed /\ Held' = Held
    BY <1>2 DEF Report, elsewhere, session, copies, Unnoticed, Held
  <2> QED BY <2>1, <2>2 DEF Accounted
\* A session dropped with an event in hand has been charged for it.
<1>3. CASE BrokerDrops
  <2>1. drops' = drops + 1 /\ events' = events /\ reported' = reported /\ pc' = pc /\ peer
        /\ ~peer'
    BY <1>3 DEF BrokerDrops, unit, queue
  <2>2. logged' = logged \/ logged' = Append(logged, packet.event)
    BY <1>3 DEF BrokerDrops
  <2>3. Len(logged') \in Nat /\ Len(logged') >= Len(logged)
    BY <2>2, Types DEF CopiesOK, SessionOK, Packets
  <2>4. Held' = 0 /\ Unnoticed = 0 /\ (Unnoticed' = 1 => Held = 0) /\ Unnoticed' \in {0, 1}
    BY <2>1 DEF Held, Unnoticed
  <2>5. reported + Unnoticed' <= Len(logged) + Len(events) + drops + 1
    BY <2>4 DEF Accounted
  <2>6. reported + Unnoticed' <= Len(logged') + Len(events) + (drops + 1)
    BY <2>3, <2>4, <2>5
  <2>7. reported + Unnoticed' <= Len(logged') + Len(events) + Held' + (drops + 1)
    BY <2>3, <2>4, <2>6
  <2> QED BY <2>1, <2>7 DEF Accounted
<1>4. ASSUME NEW step \in Publishing, Acked(step) PROVE Accounted'
  <2>1. pc = step /\ pc' # "event" /\ pc' \in Living /\ peer /\ peer'
    BY <1>4 DEF Acked, After, Publishing, Living
  <2>2. Unnoticed' = 0 /\ Held' = 0 /\ Unnoticed = 0 BY <2>1 DEF Unnoticed, Held
  <2>3. events' = events /\ reported' = reported /\ drops' = drops
    BY <1>4 DEF Acked, queue
  <2>4. CASE step = "event"
    <3>1. logged' = Append(logged, packet.event) BY <1>4, <2>4 DEF Acked, Delivered
    <3>2. Len(logged') = Len(logged) + 1 BY <3>1, Types DEF CopiesOK, SessionOK, Packets
    <3>3. Held = 1 BY <2>1, <2>4 DEF Held
    <3> QED BY <2>2, <2>3, <3>2, <3>3 DEF Accounted
  <2>5. CASE step # "event"
    <3>1. logged' = logged BY <1>4, <2>5 DEF Acked, Delivered
    <3>2. Held = 0 BY <2>1, <2>5 DEF Held
    <3> QED BY <2>2, <2>3, <3>1, <3>2 DEF Accounted
  <2> QED BY <2>4, <2>5
<1>5. CASE HandshakeOk \/ Broken \/ Retries
  <2>1. events' = events /\ reported' = reported /\ drops' = drops /\ logged' = logged
    BY <1>5 DEF HandshakeOk, Broken, Ends, Retries, queue, copies
  <2>2. Held' = 0 /\ Unnoticed' = 0
    BY <1>5 DEF HandshakeOk, Broken, Ends, Retries, Held, Unnoticed, Living, Publishing
  <2>3. Held = 0 BY <1>5 DEF HandshakeOk, Broken, Retries, Held
  <2> QED BY <2>1, <2>2, <2>3 DEF Accounted
<1>6. CASE StateDue \/ PauseChanged \/ ScheduleChanged \/ Tick
  <2>1. events' = events /\ reported' = reported /\ drops' = drops /\ logged' = logged
        /\ peer' = peer
    BY <1>6 DEF StateDue, PauseChanged, ScheduleChanged, Tick, rested, queue, copies
  <2>2. pc = "poll" /\ pc' \in {"poll", "state", "echo"}
    BY <1>6 DEF StateDue, PauseChanged, ScheduleChanged, Tick, Quiet
  <2>3. Held' = Held /\ Unnoticed' = Unnoticed
    BY <2>1, <2>2 DEF Held, Unnoticed, Living, Publishing
  <2> QED BY <2>1, <2>3 DEF Accounted
<1>7. CASE EventWaits
  <2>1. Len(events') = Len(events) - 1 /\ Len(events) > 0
    BY <1>7, Types DEF EventWaits, QueueOK
  <2>2. reported' = reported /\ drops' = drops /\ logged' = logged /\ peer' = peer
    BY <1>7 DEF EventWaits, rested, copies
  <2>3. pc = "poll" /\ pc' = "event" BY <1>7 DEF EventWaits, Quiet
  <2>4. Held = 0 /\ Unnoticed' = 0 /\ Held' + Unnoticed = 1
    BY <2>2, <2>3 DEF Held, Unnoticed, Living, Publishing
  <2>5. Held' \in {0, 1} BY DEF Held
  <2> QED BY <2>1, <2>2, <2>4, <2>5 DEF Accounted
<1> QED BY <1>1, <1>2, <1>3, <1>4, <1>5, <1>6, <1>7, AsideSteps
-----------------------------------------------------------------------------
(***************************************************************************)
(* The order of events.                                                    *)
(***************************************************************************)
LEMMA Appended ==
  ASSUME NEW s \in Seq(Nat), NEW n \in Nat, NEW m \in Nat
  PROVE  /\ Rising(s) /\ Below(s, n) => Rising(Append(s, n))
         /\ Below(s, m) /\ n < m => Below(Append(s, n), m)
         /\ Beyond(s, m) /\ m < n => Beyond(Append(s, n), m)
<1> DEFINE t == Append(s, n)
<1>1. Len(t) = Len(s) + 1 /\ Len(s) \in Nat /\ t[Len(s) + 1] = n OBVIOUS
<1>2. \A i \in 1..Len(s) : t[i] = s[i] /\ s[i] \in Nat OBVIOUS
<1>3. \A i \in 1..Len(t) : i = Len(s) + 1 \/ i \in 1..Len(s) BY <1>1
<1> HIDE DEF t
<1>4. ASSUME Rising(s), Below(s, n) PROVE Rising(t)
  <2> SUFFICES ASSUME NEW i \in 1..Len(t), NEW j \in 1..Len(t), i < j PROVE t[i] < t[j]
    BY DEF Rising
  <2>1. i \in 1..Len(s) BY <1>1, <1>3
  <2>2. CASE j \in 1..Len(s) BY <1>2, <1>4, <2>1, <2>2 DEF Rising
  <2>3. CASE j = Len(s) + 1 BY <1>1, <1>2, <1>4, <2>1, <2>3 DEF Below
  <2> QED BY <1>3, <2>2, <2>3
<1>5. Below(s, m) /\ n < m => Below(t, m) BY <1>1, <1>2, <1>3 DEF Below
<1>6. Beyond(s, m) /\ m < n => Beyond(t, m) BY <1>1, <1>2, <1>3 DEF Beyond
<1> QED BY <1>4, <1>5, <1>6 DEF t

LEMMA Taken ==
  ASSUME NEW s \in Seq(Nat), s # <<>>, Rising(s)
  PROVE  /\ Head(s) = s[1] /\ 1 \in 1..Len(s)
         /\ \A j \in 1..Len(Tail(s)) : j + 1 \in 1..Len(s) /\ Tail(s)[j] = s[j + 1]
         /\ Rising(Tail(s)) /\ Beyond(Tail(s), Head(s))
<1>1. Head(s) = s[1] /\ Len(s) \in Nat /\ Len(s) > 0 /\ Len(Tail(s)) = Len(s) - 1 OBVIOUS
<1>2. \A j \in 1..Len(Tail(s)) : j + 1 \in 1..Len(s) /\ Tail(s)[j] = s[j + 1] BY <1>1
<1>3. Rising(Tail(s)) BY <1>1, <1>2 DEF Rising
<1>4. Beyond(Tail(s), Head(s)) BY <1>1, <1>2 DEF Rising, Beyond
<1> QED BY <1>1, <1>2, <1>3, <1>4

\* One event more in the log: the one in hand.
LEMMA Logs ==
  ASSUME TypeOK, Ordered, pc = "event", peer, logged' = Append(logged, packet.event),
         UNCHANGED <<events, reported>>, ~(pc' = "event" /\ peer'),
         pc' = "event" => UNCHANGED packet
  PROVE  Ordered'
<1>1. logged \in Seq(Nat) /\ events \in Seq(Nat) /\ reported \in Nat /\ packet.event \in Nat
  BY Types DEF CopiesOK, QueueOK, SessionOK, Packets
<1>2. Below(logged, packet.event) /\ packet.event < reported + 1 /\ Beyond(events, packet.event)
  BY DEF Ordered
<1>3. Rising(logged') /\ Below(logged', reported + 1)
  BY <1>1, <1>2, Appended DEF Ordered
<1>4. ASSUME NEW j \in 1..Len(events) PROVE Below(logged', events[j])
  <2>1. events[j] \in Nat BY <1>1
  <2> QED BY <1>1, <1>2, <2>1, Appended DEF Ordered, Beyond
<1> QED BY <1>2, <1>3, <1>4 DEF Ordered

LEMMA OrderedStep == TypeOK /\ Ordered /\ [Next]_vars => Ordered'
<1> SUFFICES ASSUME TypeOK, Ordered, [Next]_vars PROVE Ordered'
  OBVIOUS
<1>0. logged \in Seq(Nat) /\ events \in Seq(Nat) /\ reported \in Nat /\ packet.event \in Nat
  BY Types DEF CopiesOK, QueueOK, SessionOK, Packets
<1>1. CASE Aside BY <1>1 DEF Aside, session, queue, Ordered
<1>2. CASE Report
  <2>1. events' = Append(events, reported + 1) /\ reported' = reported + 1
    BY <1>2 DEF Report
  <2>2. UNCHANGED <<logged, pc, packet, peer>>
    BY <1>2 DEF Report, elsewhere, session, copies
  <2>3. Rising(events') /\ Below(events', reported' + 1)
    <3>1. Below(events, reported + 2) BY <1>0 DEF Ordered, Below
    <3> QED BY <1>0, <2>1, <3>1, Appended DEF Ordered
  <2>4. Below(logged', reported' + 1) BY <1>0, <2>1, <2>2 DEF Ordered, Below
  <2>5. ASSUME NEW j \in 1..Len(events') PROVE Below(logged', events'[j])
    <3>1. CASE j \in 1..Len(events) BY <1>0, <2>1, <2>2, <3>1 DEF Ordered
    <3>2. CASE j = Len(events) + 1 BY <1>0, <2>1, <2>2, <3>2 DEF Ordered
    <3> QED BY <1>0, <2>1, <3>1, <3>2
  <2>6. ASSUME pc' = "event"
        PROVE  /\ packet'.event < reported' + 1 /\ Beyond(events', packet'.event)
               /\ peer' => Below(logged', packet'.event)
    <3>1. packet.event < reported + 1 /\ Beyond(events, packet.event)
          /\ (peer => Below(logged, packet.event))
      BY <2>2, <2>6 DEF Ordered
    <3>2. Beyond(events', packet.event) BY <1>0, <2>1, <3>1, Appended
    <3>3. packet.event < reported' + 1 BY <1>0, <2>1, <3>1
    <3> QED BY <2>2, <3>1, <3>2, <3>3
  <2> QED BY <2>2, <2>3, <2>4, <2>5, <2>6 DEF Ordered
<1>3. CASE BrokerDrops
  <2>1. UNCHANGED <<pc, packet, events, reported>> /\ peer /\ ~peer'
    BY <1>3 DEF BrokerDrops, unit, queue
  <2>2. CASE logged' = logged BY <2>1, <2>2 DEF Ordered
  <2>3. CASE pc = "event" /\ logged' = Append(logged, packet.event) BY <2>1, <2>3, Logs
  <2> QED BY <1>3, <2>2, <2>3 DEF BrokerDrops
<1>4. ASSUME NEW step \in Publishing, Acked(step) PROVE Ordered'
  <2>1. pc = step /\ pc' # "event" /\ peer /\ UNCHANGED <<events, reported>>
    BY <1>4 DEF Acked, After, Publishing, queue
  <2>2. CASE step = "event"
    <3>1. logged' = Append(logged, packet.event) BY <1>4, <2>2 DEF Acked, Delivered
    <3> QED BY <2>1, <2>2, <3>1, Logs
  <2>3. CASE step # "event"
    <3>1. logged' = logged BY <1>4, <2>3 DEF Acked, Delivered
    <3> QED BY <2>1, <3>1 DEF Ordered
  <2> QED BY <2>2, <2>3
<1>5. CASE HandshakeOk \/ Broken \/ Retries
  <2>1. UNCHANGED <<events, reported, logged>> /\ pc' # "event"
    BY <1>5 DEF HandshakeOk, Broken, Ends, Retries, queue, copies
  <2> QED BY <2>1 DEF Ordered
<1>6. CASE StateDue \/ PauseChanged \/ ScheduleChanged \/ Tick
  <2>1. UNCHANGED <<events, reported, logged>> /\ pc' # "event"
    BY <1>6 DEF StateDue, PauseChanged, ScheduleChanged, Tick, Quiet, rested, queue, copies
  <2> QED BY <2>1 DEF Ordered
\* The event taken is the first of those that wait, and later than all those logged.
<1>7. CASE EventWaits
  <2>1. events # <<>> /\ events' = Tail(events) /\ UNCHANGED <<reported, logged, peer>>
    BY <1>7 DEF EventWaits, rested, copies
  <2>2. packet'.event = Head(events) BY <1>7 DEF EventWaits, EventPacket, Nothing
  <2>3. /\ Head(events) = events[1] /\ 1 \in 1..Len(events)
        /\ \A j \in 1..Len(events') : j + 1 \in 1..Len(events) /\ events'[j] = events[j + 1]
        /\ Rising(events') /\ Beyond(events', Head(events))
    BY <1>0, <2>1, Taken DEF Ordered
  <2>4. Below(events', reported' + 1) BY <2>1, <2>3 DEF Ordered, Below
  <2>5. \A j \in 1..Len(events') : Below(logged', events'[j]) BY <2>1, <2>3 DEF Ordered
  <2>6. packet'.event < reported' + 1 /\ Below(logged', packet'.event)
    BY <2>1, <2>2, <2>3 DEF Ordered, Below
  <2> QED BY <2>1, <2>2, <2>3, <2>4, <2>5, <2>6 DEF Ordered
<1> QED BY <1>1, <1>2, <1>3, <1>4, <1>5, <1>6, <1>7, AsideSteps
-----------------------------------------------------------------------------
LEMMA InvInit == Init => IInv
<1> SUFFICES ASSUME Init PROVE IInv
  OBVIOUS
<1>1. TypeOK BY TypeInit
<1>2. logged = <<>> /\ events = <<>> /\ pc = "connect" /\ reported = 0 /\ nextState = 0
      /\ drops = 0
  BY DEF Init
<1>3. Loaded BY <1>2 DEF Loaded
<1>4. Len(logged) = 0 /\ Len(events) = 0 BY <1>2
<1>5. Ordered BY <1>2, <1>4 DEF Ordered, Rising, Below
<1>6. Unnoticed = 0 /\ Held = 0 BY <1>2 DEF Unnoticed, Held, Living, Publishing
<1>7. Accounted BY <1>2, <1>4, <1>6 DEF Accounted
<1>8. Prompt BY <1>2, Depths DEF Prompt
<1> QED BY <1>1, <1>3, <1>5, <1>7, <1>8 DEF IInv

LEMMA InvHolds == Spec => []IInv
<1>1. IInv /\ [Next]_vars => IInv'
  BY TypeStep, LoadedStep, PromptStep, AccountedStep, OrderedStep DEF IInv
<1> QED BY InvInit, <1>1, PTL DEF Spec
-----------------------------------------------------------------------------
\* Whatever is sent, replayed, lost or dropped, the session and the Bus around it hold what
\* their types allow, and no queue outgrows its depth (wiring.rs).
THEOREM TypeCorrect == Spec => []TypeOK
<1>1. IInv => TypeOK BY DEF IInv
<1> QED BY <1>1, InvHolds, PTL

\* mqtt.rs, publish_event from the queue of wiring.rs: for any depth of the queue and any
\* number of sessions, the log is in the order things happened, with nothing twice.
THEOREM LoggedInOrder == Spec => []EventsInOrder
<1>1. IInv => EventsInOrder BY DEF IInv, Ordered, Rising, EventsInOrder
<1> QED BY <1>1, InvHolds, PTL

\* An event taken off the queue dies with its session: for any number of sessions, that is
\* all that is lost of what the queue took.
THEOREM LossIsBounded == Spec => []LossBounded
<1>1. IInv => LossBounded
  <2> SUFFICES ASSUME IInv PROVE LossBounded
    OBVIOUS
  <2>1. InHand \in {0, 1} /\ Held <= InHand BY DEF InHand, Held
  <2>2. TypeOK BY DEF IInv
  <2> QED BY <2>1, <2>2, Counts DEF IInv, Accounted, LossBounded
<1> QED BY <1>1, InvHolds, PTL

\* mqtt.rs, the state of every STATE_INTERVAL: for any two intervals below the keep-alive,
\* nothing the loop handles puts the next packet off beyond it.
THEOREM AliveToBroker == Spec => []KeptAlive
<1>1. IInv => KeptAlive
  <2> SUFFICES ASSUME IInv, pc = "poll" PROVE silent < KEEP_ALIVE
    BY DEF KeptAlive
  <2>1. nextState \in Nat /\ silent \in Nat BY Types DEF IInv, SessionOK
  <2> QED BY <2>1, Depths DEF IInv, Prompt
<1> QED BY <1>1, InvHolds, PTL
=============================================================================

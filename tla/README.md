# TLA+ specifications of cat-feeder

Executable specifications of the firmware in `src/`, model-checked with TLC on
small instances and, for the core safety properties, proved with TLAPS for
every value of the constants.

The unit feeds cats. Its two promises are opposite: a meal that is due is fed,
and a meal that was served, skipped or paused is never served again. Both have
to hold while clocks jump, messages arrive late or twice, the mechanism sticks,
firmware is being written and the power goes.

## 1. The system

Everything runs on one chip under a single-threaded cooperative executor
(embassy): a task runs without interruption from one `.await` to the next, so a
step between two awaits is atomic, and every race is a race between such steps.
Tasks share one static `Bus` (`wiring.rs`) of queues, one-place signals, cells
and flags, and one `Store` behind an async mutex.

| Component | Source | State | Operations | Talks to | What makes it correct |
|---|---|---|---|---|---|
| Clock | `schedule.rs` `LocalClock`, `tz.rs` | anchor, trust | `align`, `now`, `rezone`, `follow` | `BUS.time`, `BUS.zone` | only a live, hand-set or RTC time earns trust; a replay or an RTC read never moves a trusted clock |
| Scheduler | `schedule.rs` `Scheduler`, `schedule_task` | schedule, consumed marker, baselined, received | `set_schedule`, `next_due`, `upcoming` | `BUS.schedule`, `BUS.feed`, flash | no slot twice, no slot silently skipped |
| Feeder | `feeder.rs`, `portions.rs`, `feeder_task` | phase, pending clicks, last edge, jam | `request`, `start`, `on_click`, `on_timeout`, `recalibrate` | `BUS.feed`, `CLICKS`, motor | the bowl gets the clicks asked for; a stuck mechanism stops |
| Switch, motor | `switch.rs`, `motor.rs` | settled level, bridge pins | debounce, forward, brake | `CLICKS`, feeder | one edge per detent |
| Calibration | `calibrate.rs`, `calibrate()` | clicks of a run, progress | a run, `set_calibration` | feeder, flash | never shares the motor with a meal |
| Upload | `web.rs`, `firmware.rs`, `update.rs` | idle slot, otadata, `flash_busy` | receive, check, select, confirm | feeder, bootloader | nothing turns under a write; an intact image always boots |
| Store | `store.rs`, `record.rs` | four flash sectors | load, save, update, forget, erase | every setter | a restart comes back with what was acknowledged, or with none |
| Bus | `wiring.rs` | queues, signals, cells | setters: flash first, then in force | every task | bounded queues drop, signals keep the newest |
| MQTT session | `mqtt.rs`, `events.rs` | session, subscriptions, queued events | connect, publish, receive | broker, Bus | retained commands refused, events at most once |
| Connectivity | `wiring.rs` `Connectivity`, `indicator.rs`, `health.rs` | link, broker, armed | set, sample | LED, confirm | the lowest failing layer is the one shown |
| RTC | `ds3231.rs`, `rtc.rs`, `rtc_task` | registers, OSF | read at boot, set when off | Bus | a time that lost power is never trusted |
| Setup | `setup.rs`, `trial.rs` | trial, record | try, keep, erase | radio, flash | a saved network is one that worked, unless asked |
| BOOT reset | `reset.rs` | hold timer | hold 5 s | flash | never on a bounce |
| Admin page | `web.rs`, `admin.rs` | none of its own | every setter | Bus, flash | tells the truth about what it did |
| Wire formats, hashes, boards, LED | `http.rs`, `request.rs`, `discovery.rs`, `dhcp.rs`, `captive_dns.rs`, `sha256.rs`, `board.rs`, `led.rs` | none | parse, render | | text and bit arithmetic, host-tested |

What is hard: a **marker held in RAM** that a restart loses; **clock jumps** in
either direction, across midnight and across summer time; **one-place signals**
where one source of time overwrites another; **state read before an await**
(the idle select of the feeder begins before an upload claims the flash);
**contact bounce** against a rotor whose position is unknown; **flash writes
that fail half way**; **queues of fixed depth**; and **restarts on purpose**
(firmware update, factory reset) that race with meals. The `hazards` of
`PROJECT.json` list each one at the line where it bites.

## 2. Modules

| Module | Models |
|---|---|
| `Scheduler.tla` | `LocalClock`, `Scheduler`, `follow_zone`, `apply_commands` and `schedule_task`, across restarts |
| `Portions.tla` | the arithmetic of portions, clicks and timings |
| `Feeder.tla` | `Feeder`, `feeder_task`, `calibrate()`, the switch and rotor under them, and the upload's claim on the motor |
| `Firmware.tla` | the two image slots, otadata, the upload and its check, selection, trial, confirmation and rollback |
| `FlashRecords.tla` | the four records of flash and what a boot reads out of them |
| `Settings.tla` | what the settings promise: the abstract specification `Store` implements |
| `Store.tla` | every writer of the four sectors, the schedule-command queue, the factory reset, and what it waits for |
| `Setup.tla` | setup mode: the form's connections, the trial on the radio, Save anyway, the scans and the factory reset |
| `Session.tla` | `wifi_task`, the MQTT session and what the Bus carries to and from it, and the broker |
| `Indicator.tla` | which status the LED shows, out of all that is true at once |
| `Rtc.tla` | the clock chip and the task that keeps it set, any transfer of which may fail |
| `Calendar.tla` | dates, timezone rules and the chip's registers, over real calendars |
| `Texts.tla` | the schedule's JSON, an edit of a meal, times and timezone rules, as they are read and written |
| `Cells.tla`, `Records.tla` | the four records byte by byte, and a sector whose write was cut short |
| `Upload.tla` | a firmware image as it streams in: digest, mark of the secret, sectors |
| `Pages.tla` | the requests of the admin page and of setup's form, as they arrive and what they change |
| `MC*.tla`, `*.cfg` | the instances TLC checks |
| `*Proofs.tla` | the theorems |

### Scheduler

A reading of the clock is a day, a minute of it and a second of that; a
schedule is the set of the minutes of its enabled slots, because neither
portions nor disabled slots change when a slot is resolved. `Look` is one whole
pass of `schedule_task`: take the pending time (`Aligned`), apply the queued
commands (`ApplyCommands`: flash, then in force), follow the timezone
(`Followed`), and resolve at most one slot (`NextDue`). Everything else is the
outside world: a second passes (`Second`), a time arrives (`Hear`), summer time
begins or ends (`SeasonChange`), a command arrives (`Command`), the pause
changes (`SetPause`), the power goes (`Restart`).

| Variable | Code |
|---|---|
| `reading`, `offset`, `trusted` | `LocalClock` as `now()` and `is_trusted()` give it |
| `sync` | `BUS.time`, a `Signal`: one place, the newest wins |
| `wanted` | what the commands waiting on `BUS.schedule` add up to |
| `stored` | the schedule in flash; a failed write may leave the old one or none |
| `meals`, `received`, `consumed`, `baselined` | the four fields of `Scheduler` |
| `paused` | `BUS.paused`, seeded from flash at boot |
| `due` | what this look decided (`Due`) |
| `resolved`, `again`, `horizon`, `back`, `edited`, `anchoredBy` | history, read by properties and never by a guard |

Looks are not tied to seconds: any number of seconds may pass between two, so a
stalled executor is covered. How long ago a live time came, and whether a
timezone is stored, are left open (`Followed` may or may not follow).

### Feeder

Time is counted in ticks. The rotor takes at least `DetentSteps` ticks from one
detent to the next, and at each tick may stay instead: slow, stuck, braked,
coasting and turned by hand are all choices of `Stay` and `Move`. The switch is
closed on a detent; reaching one puts an edge on `CLICKS`, and for `Chatter`
ticks after a start or an edge the contact may bounce past the debounce.
Ticks pass only when the feeder task has nothing ready (`Ready`): nothing on
the executor is slow while the motor turns (an upload, which is, excludes it,
and that exclusion is a property here).

Each action is one resumption of `feeder_task`, with the top of its loop
(`LoopTop`: publish status, brake if idle) at its end. `holding` records that
the idle select began while the flash was claimed, so the branches of the
select are still in `hold_for_flash`: this is what lets a request reach the
select before the claim and be taken after it.

| Variable | Code |
|---|---|
| `angle`, `shaking` | the mechanism |
| `motor`, `feeding` | the bridge; `BUS.status.feeding` |
| `clicks`, `feed`, `calibrate` | `CLICKS`, `BUS.feed`, `BUS.calibrate` |
| `calibration`, `applied` | saved figures; the ones in force |
| `phase`, `pending`, `elapsed`, `jammed` | `Feeder`; `"Calibrating"` is the body of `calibrate()` |
| `flash_busy`, `feed_held` | the two flags of the Bus |
| `upload`, `restarting` | how far `web::upload` is with the sectors; a connection is past it and in `restart_after` |
| `owed`, `whole`, `stall`, `scaled`, `spent` | history and bounds |

### Firmware

The bootloader is not in `src/`; it is modelled from what `firmware.rs` and
ADR-0024 rely on (ESP-IDF with rollback): an entry still `PendingVerify` at a
reset becomes `Aborted`, a `New` one becomes `PendingVerify`, `Aborted` is
never chosen, an image that does not verify is passed over. Sequence numbers
are kept as which entry is the later. `otadata` entries are rewritten a sector
at a time, so a write that fails or is cut off leaves an entry as it was or
blank (`Torn`). Writing an image is one step that spoils the slot and one that
completes it; the check's outcome is free (`Verdict`): good, refused for its
secret but whole, or corrupt.

| Variable | Code |
|---|---|
| `image` | what each app slot holds |
| `state`, `latest` | the two `otadata` entries and which was pointed at last |
| `booted` | the MMU's answer, `firmware::booted` |
| `upload` | how far `web::upload` is with the sectors; `Pointed` lies between the two writes of `select` |
| `restarting` | a connection is past its upload and in `restart_after` |
| `confirm`, `broker` | `confirm_task`; `BUS.net.broker()` |
| `turning` | `web::idle` is false |
| `proved`, `boots`, `hasty`, `half`, `spent` | history and bounds |

`Boot` leaves `confirm` off when the slots cannot be read, or in setup mode,
which spawns no `confirm_task`. `idle` does not look at `flash_busy`, so
`Restart` may cut an upload short, as the code may.

An upload lets `flash_busy` go when its image is selected and the sectors when it
returns (`Drained`); its connection then closes, flushes and waits 250 ms before it
resets the chip (`Restart`). In between another connection may be let in to upload
(`Claim` asks only that no upload has the sectors), and `idle_slot` is the slot that was
just selected: the reset comes in the middle of that write, or after it. So in `Feeder`:
what an upload in that gap holds over is lost with the reset.

### Store

A sector holds its contents or `None`: blank, or torn so that its checksum fails,
which every loader reads as nothing stored. Network and calibration share a
record. Every writer takes the store's lock, writes and lets go without an await,
so it is one step; the one holder that awaits is the factory reset, and `wiped` is
its hold on the lock. What waits on the lock then dies with the restart, so it is a
step never taken. Three refinements of that:

- A write that fails leaves its sector as it was or blank (`Refused`; the driver
  erases before it writes), and so stands for the power going during it as well.
  `lapsed` is history: the sectors a write failed on since they were last written.
  A schedule whose write failed is followed all the same, as `accept_schedule` does.
- `erase_all` may stop after any number of its four sectors, and the page then says
  that nothing changed. `Store` has what is then true: the blanked sectors lapse.
- The request of an upload for its idle slot and its claim of `flash_busy` are one
  step, for there is no await between; so is the factory reset's check of `idle`
  and its erase, for nobody else holds the lock across an await but an upload that is
  refused for want of an idle slot (`web.rs:662`: the guard lives through the page that
  says so). That one changes nothing, and is left out: whoever waits for it comes later.

| Variable | Code |
|---|---|
| `flash` | the four sectors of `nvs` |
| `mode`, `previous` | the branch of `main`; the record setup mode read when it began |
| `calibration`, `zone`, `paused`, `held` | the cells of `BUS` |
| `meals`, `queue` | the `Scheduler`'s schedule; `BUS.schedule` |
| `wiped`, `flash_busy`, `owed`, `turning` | the lock held by a reset; an upload's claim; the feeder, as `web::idle` sees it |
| `wishes`, `lapsed`, `gapFeeds` | history and a bound |

In setup mode no task reads the settings; they are given the values a configured
boot would give them, so that what setup writes can be compared with them. Setup's
trials, which decide what is saved, are not in `Store`: it may save any network.

`Settings` is the promise in a dozen lines: a change puts a setting in force and in
flash together, a refused write lapses, a wipe leaves nothing, and a restart puts
in force what is stored. `SettingsKept` says that `Store` implements it under
`now <- InForce, stored <- flash`.

### Setup

A unit with no usable record raises its own network and serves a form. Three
connections of the form's server and the radio run as one task of four futures;
they meet in `SHARED`, in the signals `TRY` and `SCAN`, and at the lock of the
store. A form stands for the network it names. Whether its Wi-Fi joins and its
broker answers is free at every trial.

| Variable | Code |
|---|---|
| `mode`, `flash` | the branch of `main`; the network of the record stored |
| `trial`, `submitted` | the two fields of `SHARED` a decision reads |
| `try`, `scan` | the signals `TRY` and `SCAN` |
| `radio`, `trying` | how far `radio` and `attempt` are; the record read when the trial began |
| `slot`, `kept` | how far each `connection` is; the record `keep` read before it waits |
| `lock` | whose guard is on the store |
| `tried`, `joined`, `overruled` | history |

A guard in the scrutinee of a `match` lives to the end of the match, so *Save
anyway* holds the lock until its page is sent or refused by the socket (`keep_write`,
`Answered`), and the factory reset holds its own to the restart. What waits for the
lock reads the trial before and writes after: `keep` waits with the record it read
(`"Keeps"`), `erase` with the permission it had (`"Erases"`), a trial with the record
it tried (`"Saving"`). A trial is asked for by a signal and starts later: `submitted`
is read when it starts.

A keep whose write flash refuses puts `NotSaved` on the page whatever the trial
has become while it waited (`setup.rs:1250`). It may be running: a second trial can
then be asked for over it, and an outcome, and with it *Save anyway*, may be of
another network than the one tried. It takes two connections at once, a lock held
through a page, and flash that refuses; `overruled` remembers that it happened, and
the properties speak of every behaviour in which it did not.

Not in `Setup`: addresses and leases, the reasons of a failure, the list of networks,
the access point's channel, and the unit's own DHCP and DNS servers. The first boot in
service is where `Configured` ends: the rest is the other modules.

### Session

One boot of the unit, with the router, the broker and Home Assistant around it. Each
action is one await of the session: a publish is written (`pc` names it, `packet` is what
was put in it) and returns when the broker acknowledged it (`Acked`), with what the broker
then does with it (`Delivered`). `After` is the order: discovery, online, subscriptions,
echo, question for the time, then the loop. The four branches of the loop's select are
`StateDue`, `PauseChanged`, `ScheduleChanged` and `EventWaits`, in the order they are
polled, with what arrives (`Message`) before them.

| Variable | Code |
|---|---|
| `wifi`, `link`, `broker`, `armed` | `wifi_task`; the three flags of `BUS.net` |
| `pc`, `packet`, `nextState`, `silent` | the await of `session`; what is published; the ticks to the next state, and since the last packet |
| `events`, `reported` | `BUS.events`; how many events it took |
| `held`, `saving`, `commands`, `changed` | `BUS.held`, the command in hand, `BUS.schedule`, `schedule_changed` |
| `paused`, `pause_changed`, `feed`, `time`, `rtc_time` | the cells and signals of their names |
| `peer`, `subscribed`, `inbox`, `asked` | the broker's side of the session |
| `availability`, `echo`, `published`, `logged` | its retained copies, and the log |

The broker may drop the session at any step (`BrokerDrops`): what was being published may
have reached it or not, and the unit finds out at its next publish or poll. A retained
command is refused, a retained time is not trusted (`on_time`). A subscription brings the
retained messages of `Replays`. Wi-Fi that comes back before the session noticed finds it
alive, which is what `session_flag` is about.

`Indicator` is the ladder of statuses; `Session` reads it for `NoBrokerIsSo`.

### Rtc

A time is its wall reading less the true instant, so the right one is the offset the zone is
in. `rtc_task` is `doing`: boot read, wait, read, and the three writes of `Rtc::set`.
Each transfer may fail (`TransferFails`) or be cut short by the power (`PowerGoes`), and then
leaves any mixture of the old and the new (`Half`). Between them the crystal drifts, the
season turns, somebody sets a time by hand, the cell dies or the oscillator stops on battery.

| Variable | Code |
|---|---|
| `chip` | the registers, as `Reading` decodes them |
| `rtc_time`, `doing`, `target` | `BUS.rtc_time`; where `rtc_task` is; what it is setting |
| `zone` | the house |
| `whole`, `torn`, `faults`, `upsets` | history and bounds |

### Calendar

The date arithmetic (`next_day`, `days_from_civil`, `civil_from_days`), the timezone rule
(`offset_at_utc`, `offset_for_local`), the clock that follows it and the chip's registers, to
the minute. A clock that is given the time once is looked at, at a pace, over days and seasons,
and is compared with the house's, which is computed from the instant by the rule's definition.

| Variable | Code |
|---|---|
| `anchor` | `LocalClock`'s: the reading it was last set to, and when |
| `rule` | the zone's, of `BUS.zone` |
| `utc`, `walk`, `steps` | the true instant; where the walk began, its pace and its length |

The time is always the anchor's, carried on by what has passed since (`now`), however often it
was looked at; the anchor moves when the clock is set (`SetTo`) and when a look finds it in an
offset that is no longer in force (`follow_zone`). `plus_seconds` carries on for no more than
`MAX_ROLLOVER_DAYS`, 1100 here as in the code: past them the clock has no time (`HasTime`). `Rolled`
is the walk over the days, taken a week at a time where it can be, since TLC's stack is no
deeper. The anchor is of milliseconds and a reading of seconds, so the code loses less than a second
at each change of offset; the model, in minutes, loses nothing.

### Texts

A text is its tokens. `parse_schedule` is the JSON reader with its every error; `to_json` is
the echo; beside them the edit of a meal, the two formats of time and the rule's parser,
a letter at a time. The reader's loops, over the meals of a list and the keys of a meal, are
recursive functions of the number of turns (`json_slots`, `json_slot`); the depth that
`skip_value` counts is a difference of two cardinalities (`Opened`). Letters that were sent
right then lose a token, repeat one or gain one, and may be sent again (`TextsSpec`).
`AsSaid` is what a person reads: a meal is a brace at depth one, a key belongs to the meal
that opened last, and the last of a key counts. It is asked of texts as many of whose brackets
close as open (`Balanced`), as of others nobody can say what they mean.

### Cells, Records

A byte is a number, or the k-th byte of a checksum or digest of given bytes, equal to no
other: collisions are left out. `Records` has the four layouts and their readers; a write
programs a sector byte after byte from an erased one, and may stop after any of them. A byte
of a text is below 128: UTF-8's longer characters are left out.

### Upload

`ImageCheck`, `Sectors`, the hash's blocks and the loop of `receive`, over pieces of any
size. The compression of a block is the block, so that a digest stands for the blocks it is of.
`sectors` outlives an upload, as the static of the code does. The sectors that a piece fills are
written in one step (`Pushed`), up to the first that is past the slot's end, where the code
writes one at a time: an upload that fails there is refused, and what it leaves in the slot is
its own bytes. The loops of the matcher are recursive functions (`Fall`, `fail_table`, `Scanned`).
`UploadSpec` is the upload alone.

### Pages

Each connection reads a request a piece at a time (the head, then a field), and handles it
when it is whole. A form is its fields in their order, of any number and in any order, the same
name twice included; a value is what it reads as: nothing, a word, a number, a time of day, or
one of the words that stand for a field that is not there, is too long or does not decode. The
fields of the schedule's rows (`t1`, `p1`, ...) are called what `TimeName` and `PortionsName`
say. Every form of the admin page is there but `/update`, which is `Upload`'s and
`Firmware`'s; of setup's page, the reading of its form (`record_from_form`), its paths being
`Setup`'s: password, origin, length, the fields, what is refused and what is changed, and the
form drawn again.

| Variable | Code |
|---|---|
| `unit.meals` | `BUS.held`: none until the unit is given a schedule, which is not an empty one |
| `unit.paused`, `.zone`, `.detent`, `.scale` | the cells of `BUS` |
| `unit.clock`, `.feeds`, `.calibrate` | what was put in `BUS.time`, `BUS.feed` and `BUS.calibrate` |
| `unit.network`, `.running` | the network of the record; the one followed since the boot, which is drawn |
| `unit.flash` | the four sectors of `nvs`: the meals, the zone and the pause as they read, and of the record whether it reads |
| `unit.erased` | a factory reset has the store, to its restart |
| `conn` | each connection: what it is reading of which request, or what it answered |

A write that flash refuses leaves its sector as it was or blank (`NotWritten`), and
`erase_all` may stop after any of its sectors (`ErasedFirst`): the page then reports a problem
over a record that may be gone, so that a boot (`Booted`) or the restart into setup
(`restart_after`, `SetUpAgain`) finds it so. The form of the clock is drawn twice: as the server
sends it, with an empty list of zones, which no browser posts, and as the page's script fills
it, with the stored zone or else the browser's own, and with the rule the browser has for it
(`ZoneFilled`).

`Rtc`, `Calendar`, `Texts`, `Records`, `Upload` and `Pages` share nothing;
`MCParts` runs them side by side, one to a behaviour.

## 3. What the runs show

Each passing property has a mutant in `PROJECT.json`: a plausible bug in a
mapped definition under which TLC finds the property violated.

| Run | Question | Bounds |
|---|---|---|
| `scheduler_day` | Clock jumping anywhere, summer time, schedules edited, pauses: is a slot fed twice (`NeverTwice`) or silently skipped (`PromptMeal`)? | 2 days of 3 minutes of 1 second, lateness 1, shift 1, 2 schedules |
| `scheduler_restart` | Four sources overwriting each other in the signal, a restart anywhere, writes that fail: `TrustIsEarned`, `FresherTimeKept`, `FirstScheduleOnlyBaselines`; and why nothing is fed twice, `MarkerCovers` | 2 days of 2 minutes, 1 restart |
| `feeder_meal` | Bounce, stuck and hand-turned rotor, requests mid-turn, a wrong detent figure, a power cut: `FoodMatchesClicks`, `JamBounded` | 4 requests, cap 4 clicks, detent of 5 ticks |
| `feeder_upload` | Uploads, meals, runs and saved figures in every order: `NoTurnDuringWrite`, `IdleOwesNothing`, `RunIsNotAMeal`; under fairness, `HeldIsTurned`, `EveryTurnEnds`, `UploadRestarts` | 2 uploads, 2 requests, 1 run |
| `firmware_update` | Refused, torn, selected and rolled-back uploads, with power cuts and failing flash anywhere: `AlwaysBoots`, `WayBack`, `OneChance`; under fairness, `TrialEnds`, `SelectedBoots` | 3 uploads, 1 meal, 3 cuts |
| `store_settings` | Every writer, refused writes, power cuts, the factory reset against the feeder and uploads, and setup mode: `InForceIsStored`, `NothingWrittenBack`, `LastCommandWins`, `SettingsKept`; under fairness, `ResetEnds` | 1 network and none, 2 calibrations, 1 zone, 1 meal at 2 times with 0 or 1 portions, 3 commands, a queue of 2, 1 feed between an erase and its restart |
| `setup_trials` | Test and save, Save anyway, Rescan and the factory reset from three connections against the trial, refused writes and power cuts: `OnlyJoinedSaved`, `OutcomeIsOfSubmitted`, `ErasedStays`; under fairness, `TrialEnds`, `LeavesSetup` | 2 networks, the 3 connections the code has |
| `session` | Wi-Fi lost and found, a broker that drops the session at any step, replays and holds stale copies, live commands, pauses, edits, events: `EventsInOrder`, `LossBounded`, `KeptAlive`; under fairness, `InStep` | 1 drop, 1 loss of Wi-Fi, 2 events, 1 command, queues of 1, a state every 2 ticks, a keep-alive of 3 |
| `parts` | The parts alone: `LaundersNothing` and, under fairness, `SetInTheEnd` (`Rtc`); `ClockKeepsTheRule` (`Calendar`); `NothingHalfRead` (`Texts`); `TornIsNone` (`Records`); `StreamedAsWhole` (`Upload`); `AsTheFormAsked` (`Pages`) | see below |

The bounds are the smallest in which every case of the code arises: two days
give "today", "a later day" and "a day gone back to"; two slots give "the
latest outstanding" and "an earlier one dropped"; a lateness limit of one
second is crossed, met and not reached; two requests exceed the cap of the
feeder and fill its queue; a detent of three ticks or more leaves room for a
bounce inside the spacing floor and for an edge outside it; three uploads go to
each slot, and to one of them again after a rollback; a queue of two (the code's is
32) holds an edit behind the edit it needs, and one more that is dropped; one slot
(the code's limit is 8) is added, filled, moved and removed, and a second is refused;
of two networks one can be tried while the other is kept.
One drop of the session with one loss of Wi-Fi gives a session found dead by a publish, by
a poll, and one that survives its link; a queue of one is full behind the event in hand.
The state's interval of two ticks, below the keep-alive of three, leaves one at which to
put it off.

Of `parts`: a chip with two offsets, three readings, one failing transfer and two upsets (a
cut and what it does to the chip); five zones (one north, one west, one south of the equator
with a quarter of an hour, one that changes before midnight, one that never does) over
leap years, the turns of years and of the century, 700 looks of 37 days and 1110 of a day,
past the 1100 that a clock which is not set again has a time for; two
slots to a schedule and one token lost, repeated or gained; records of fields of at most two
bytes, one write cut short; images with the mark after a false start and with none,
in pieces of one byte to the whole, two uploads in a row; two connections, the one of a browser
that sends nine requests and every form as it is drawn, the other of a script that saves a
network meanwhile; a unit that was set up and given a meal, and one fresh from setup; a
browser with another rule for the zone than the one stored. The proofs remove
the bounds from the safety properties.

**Fairness.** `FairSpec` of `Feeder` assumes that the executor polls a task that
has something ready (`FeederTask`), that time passes (`Stay \/ Move`: which of
the two is up to the mechanism, so a rotor stuck for ever is allowed), and that
each stage of an upload ends (its sockets have timeouts), the wait for the feeder and the
restart among them. It assumes nothing of requests, saved figures or power.

`FairSpec` of `Firmware` assumes that the bootloader boots, that `select` runs to its end (it
does not await), that an upload which waits for the feeder goes on once it may (`Drained`),
that `confirm_task` looks or gives up, that a meal ends (`EveryTurnEnds` of `Feeder`) and that a restart that may
happen does. Flash that refuses the confirmation leaves an image on trial until
the next reset, since nothing retries: `TrialEnds` says so.

`FairSpec` of `Store` assumes that a reset whose page is sent restarts once the
feeder is idle, that the feeder starts and ends its turns and that an upload which
gets the lock ends (its socket has a timeout). Feeds asked for between the erase and
the restart are bounded by `MaxGapFeeds`: the code waits for as long as they come.
Nothing is assumed of commands, forms, flash or power.

`FairSpec` of `Setup` assumes that the radio goes on (every wait of a scan and of a
trial has a timeout), that a page is sent or given up on, and that a connection or a
radio that is to restart does. Nothing is assumed of the forms, nor of who gets the
lock: a trial that waits for it is let in because each holder lets go, or restarts.

`FairSpec` of `Session` assumes that the executor polls the session and the schedule task,
that a Wi-Fi that is tried again and again joins (strongly: each refusal waits and tries
again), that the broker takes a session that is asked for as often, and that Home Assistant
answers what it is asked. Nothing is assumed of commands or events, and drops and
losses are bounded, or the copies need never agree.

`RtcFairness` assumes that the executor runs `rtc_task`, that the time is published each
minute, and that a unit that was unplugged is plugged in.

### Where the code and its documentation disagree

Three runs end in a counterexample on purpose; each quotes what a comment or an
ADR says.

- `scheduler_correction`: a slot is fed, the clock goes on to the next date and feeds an
  earlier slot of the day there, and the date is corrected. The marker that is re-dated
  has the minute of that earlier slot, so the first one is fed again on the date gone
  back to, where ADR-0002 says a date set wrong and then corrected cannot serve a meal
  twice.
- `feeder_restart`: `web::idle` says "a restart now loses no feed", but a
  request can be queued during the flush and the 250 ms that follow the check.
- `session_flag`: losing the link clears the broker's flag, and only a handshake sets it
  again. A session that outlives the reassociation goes on being acknowledged while the
  LED says that the unit is not talking to the broker.

Others were met while modelling and are in the models, without a run of their own:

- portions held over by a write keep the clicks of the old scale and turn under figures
  saved meanwhile, where `recalibrate` promises that no turn obeys two calibrations;
- an upload made while the running image is on trial spoils the slot the rollback goes
  to, whose entry is still `Valid`, where `web::upload` says nothing boots a failed upload;
- between the end of an upload and its restart (`web.rs:756`, 530-535) another connection may
  upload over the slot just selected, so `SelectedBoots` excepts an image that was torn
  meanwhile. One that is written there in full and refused by its check stays under the entry
  the first one left `New`, and boots, where `web.rs:632` says nothing boots a failed upload;
- between the two writes of `select` the new image is selected with the state its entry
  last held, where ADR-0022 says a power cut at any step leaves the old one selected;
- a keep that flash refuses overwrites what the trial became while it waited (`Setup`);
- `/clock` sets the clock even when the zone of the same form could not be stored and the
  page reports a problem, so `AsTheFormAsked` excepts the clock (`Pages`);
- "Saving to flash failed; nothing changed." and "Erasing failed; nothing changed."
  (`web.rs:513`, 613) may stand over a record that is gone, as the write begins by erasing
  (`store.rs:148`): `AsTheFormAsked` excepts the sector that was being written (`Pages`);
- after a write of the pause or the zone that flash refused, and blanked, the value in force
  asked for again is not written, being unchanged (`wiring.rs:583`): a reboot forgets a pause
  that is in force, where `wiring.rs:578` says nothing claims such a pause (`Pages`);
- the meals form of a unit that was never given a schedule, posted as it is drawn, gives it an
  empty one (`web.rs:379`); the clock's form, posted as it is drawn, stores the browser's zone
  where there is none and the browser's rule where there is one, as its hint says (`Pages`);
- a trusted clock "keeps free-running if Home Assistant disappears" (`schedule.rs:459`), but
  only for `MAX_ROLLOVER_DAYS` from when it was last set, and where the clocks are not
  changed nothing sets it again: 1100 days on it has no time, and nothing is fed. Where they
  are changed each change is a new start (`ClockKeepsTheRule`);
- the network form drawn while a restart into a saved network is pending shows the old one,
  and posted as it is drawn writes it back (`Pages`);
- a write that fails half way over a time whose flag was already clear leaves a chip that is
  trusted (`torn` in `Rtc`): OSF is never set by the code, so `LaundersNothing` excepts it.
  The next live time puts it right;
- where `Schedule::parse` says that every malformed input is an error, the value of an unknown
  key that is not in brackets or quotes runs to the next comma or closing bracket
  (`schedule.rs:1062-1070`), over an opening one if it meets one: `"x":1{}` is read, its `{`
  for nothing and its `}` for the meal's own (`skip_bare`). Such a text does not pair its
  brackets, so the part of `NothingHalfRead` that is about what a text says excepts it.

## 4. What is proved

Under `SchedulerAssumption`, `FeederAssumption`, `MechanismAssumption`, `FirmwareAssumption`,
`SectorsAssumption`, `StoreAssumption`, `SetupAssumption`, `RtcAssumption`, `SessionAssumption`
(types of the constants; a bounce is over before the spacing floor and no
detent arrives before it), `RecordsAssumption` (what is written fits its fields, every record
fits the sector, and the click length a record falls back to is no shorter than the least) and
`CalendarAssumption` (see `CalendarProofs`) and `PagesAssumption` (no two fields of the
schedule's rows are called the same, and a unit starts with a network and a zone that setup or
a form would have let in) and `UploadAssumption` (the mark is not empty, a block has room for
the marker and the length, and an image is longer than its digest: 64, 9, 1024 and 32 in the
code) and `TextsAssumption` (what is sent is of tokens, and a time that is written is one a
clock can show), for every value of the constants. `SentIsRead`, of `MCParts`, has TLC check
that each letter of the run is read as it was meant, so that what the reader takes is not
nothing.

`SchedulerProofs`:
- `TypeCorrect`, `TrustEarned`, `FresherKept`.
- `FirstScheduleFeedsNothing`: the action property `FirstScheduleOnlyBaselines`, from the
  invariant that a baseline is only ever taken with a schedule.
- `NoMealSkipped`: the action property `PromptMeal`. A look feeds the latest slot that the
  marker is below; that it is the one the clock just passed needs the invariant
  `MarkerBehind`: with a baseline taken, the marker is never ahead of the last look.
- `NeverFedTwice`. `NeverTwice` is not inductive: it says nothing of the
  marker. The inductive invariant is `MarkerCovers`, proved as
  `MarkerAlwaysCovers`: nothing resolved lies ahead of the horizon
  (`ResolvedBehind`), and everything resolved on the day of the last look is
  at or below the marker, or belongs to an earlier life and to no schedule in
  force (`Covered`). A look that has taken its baseline then offers no slot
  already resolved; a look that has not, feeds nothing.

`FeederProofs`:
- `MealNeverVanishes`: a request of at least one portion is at least one click
  at any scale. `PendingCapped`: the cap holds whatever is added.
- `TypeCorrect`.
- `BowlGetsWhatWasAsked`, `JamStops`, `StillDuringWrite`, `RunSharesNoMeal`, `IdleIsDone`: the
  five safety invariants, from one inductive invariant (`Inductive`) of five parts: `AtRest` (what is true when nothing turns), `Owing` (who may have
  clicks pending), `Rotor` (where the rotor is against the window), `Ledger`
  (clicks still on the channel account for the difference between what is owed
  and what is pending) and `Budget` (the jam clock never runs behind the
  rotor).

`FirmwareProofs`:
- `TypeCorrect`.
- `NeverBricked`, `RollsBack`, `BootedOnce`, from one inductive invariant:
  `Uploading` (the slot being written is not the running one, is unproved and
  never booted), `Settled` (a proved image can be booted and its entry is `Valid`; of two,
  the latest runs), `Candidate` (an entry that is `New` is the latest and does not run;
  its image may be torn, by another upload) and `Trial` (unless spoiled, one image is proved, and otadata
  cannot fall back to one that is not). `WayBack` alone is not inductive: it says
  nothing of the entries the bootloader will choose by.
- `UploadedAsWhole`: the invariant `StreamedAsWhole` of `Upload`, for any images, any mark, any
  size of block, sector and slot, any cut of any file into pieces and any number of uploads,
  where the run has two images and two uploads. The inductive invariant, `UploadInv`, says what
  `StreamedAsWhole` does not, of an upload that goes on (`Going`): after `got` bytes the hasher
  is that of the hashed part of them, the digest is the rest, the matcher is right about them
  all (`Checked`), and what filled a sector is in its place while the rest waits (`Written`).
  Four facts carry it:
  - the table is that of the longest borders (`TableIs`), so that the matcher always holds the
    most of the mark that the bytes end with and has found it just when they contain it
    (`Tracks`, `ScannedOn`): no start is lost to a false one or where two pieces meet;
  - a hasher that is fed in pieces is the one that is fed the whole (`FedOn`);
  - no two inputs hash to the same blocks, as padding ends with the length (`FinishOne`), so
    that a file passes the digest just when it is a build (`DigestTells`): its first part hashes
    to what its last part says;
  - sectors that are full are written one after another and the last one is padded (`PushOn`,
    `RestOn`).

`StoreProofs`:
- `TypeCorrect`: edits never make a schedule longer than `MaxSlots`
  (`EditedIsSchedule`).
- `InForceStored`, `WipedStaysBlank`, `CommandsInOrder`, from one inductive
  invariant, which adds to the properties `Followed` (the schedule followed is the
  one held), `Ordered` (each command queued asks for what the one before it asked
  for, edited) and `Carried` (the calibration in force is that of any record there
  is, and in setup mode that of the record it began with).
- `StoreKeepsSettings`: `Spec => SettingsKept`, the refinement. `Carried` is what it
  needs: only because of it does a network form, a BOOT hold or a save of setup mode
  write the calibration that is in force.

`SetupProofs`:
- `TypeCorrect`.
- `OnlyJoined`, `OutcomeOfSubmitted`, `ErasedUntilRestart`, from one inductive
  invariant: `LockHeld` (who has written has the lock), `OneTrial` (at most one trial
  is asked for or runs, of the form held), `Joined` (whatever may yet be saved has
  joined: what Save anyway offers, what a connection waits to keep, what the radio is
  about to save), `Named` and `Quiet`. `OnlyJoinedSaved` alone says nothing of a record
  that waits for the lock.

`PartsProofs`, of three of the parts of `MCParts`. The chip (`Rtc`):
- `RtcTypeCorrect`, `NeverLaunders`. `LaundersNothing` is not inductive: clearing the flags
  claims that the time is good, and only `MidSet` (between the time and the flags, what is in
  the chip was written to its end) makes it so. `CutShortVouches` is the fact about every
  transfer that stops half way.

The records (`Records`):
- `TornReadsAsNone`: the invariant `TornIsNone`, for fields of any length, any contents that
  fit them and any number of cuts, where the run has fields of a byte or two and one cut. What
  is written reads back (`RoundPause`, `RoundSchedule`, `RoundZone`, `RoundRecord`: each field
  is taken where it was put, `TakeFields`). The three records of a fixed length read as
  nothing without their first byte or their last, the end of the checksum (`NoneWithout`).
  Credentials have no last byte that is known beforehand, and what an earlier, longer record
  left may follow them: `TornIsNone` is not inductive, and `Leftover` is what it needs. Of the
  credentials the sector holds part of one record only, less what is erased, or no first
  byte; and of a part nothing is read (`OnlyWhole`), since the checksum is of exactly what
  the fields turned out to take. A checksum equals no other's (`Cells`), so that two bodies
  may share one is outside the theorem, as it is outside the run.

The pages (`Pages`):
- `PagesTypeCorrect`: the unit stays one that setup could have left (`UnitType`), whatever is
  posted. It is the invariant the next one stands on.
- `FormsDoAsAsked`: the action property `AsTheFormAsked`, for any number of rows, connections
  and requests and forms of any length, where the run has two rows and a few forms. Its
  first half is by path: `handle` leaves all but the fields and the sectors of that path
  alone, in force only what flash took, but for the meals, and a refused write changes no more
  than its sector (`HandleWithin`, `Unwritten`, `ErasedIs`). Its second says what a form does
  that comes back as it was drawn: a field is found where it was put, being the only one of its
  name (`FieldAlone`), and what was found reads back (`CalibrationAsDrawn`, `NetworkAsDrawn`;
  `MealsAsDrawn`, of which `ScheduleAsDrawn` makes an empty schedule of none), or is what the
  browser put there (`PlainClockAsDrawn`, `FilledClockAsDrawn`). Of the schedule that needs the
  rows used to be the rows drawn (`RowsUsed`), and of the network that the boxes of the
  passwords, drawn empty, keep them.

`SessionProofs`:
- `TypeCorrect`: no queue outgrows its depth; it needs `Loaded`, that a packet which carries
  the schedule has one.
- `LoggedInOrder`, from `Ordered`: the log, the event in hand and those that wait are one
  rising sequence, but that a broker which dropped the session may have the one in hand.
- `LossIsBounded`, from `Accounted`: a dropped session that has not noticed has a loss to
  come (`Unnoticed`); one dropped with an event in hand has had it (`Held`).
- `AliveToBroker`, from `Prompt`: while the loop waits, the silence and the time to the next
  state together stay below the keep-alive.

`CalendarProofs`: that one clock, carried on day by day from where it was last set, looked up
by days since 1970 and moved by the rule, agrees with the calendar on the wall for as long as
it has a time, where the run `parts` tries five zones and some walks.
- `ThereAndBack`, `BackAndThere`: `days_from_civil` and `civil_from_days` undo each other for
  every date and every number of days. The year is found within its era (`YearOfEra`), the
  month within its year (`MonthOfYear`).
- `PlusAdds`: the bounded walk of `plus_seconds` gains the minutes that passed, if they are
  not too many (`NextDayAdds`, `RolledDays`).
- `OffsetIsInForce`: the code compares the instant with the two changes of a single year
  (`tz.rs:122-131`), the calendar takes the latest change of three years. They agree for a rule
  that is `Seasonal`, and for those only roughly: its changes are some days clear of New Year
  and two months apart, either way round. The condition is sufficient and not necessary, and
  every zone in use meets it, but `Rule::parse` lets others through: with a rule that changes
  within a day of New Year the code looks in the wrong year.
- `ReadsBack`: the registers of the chip, in either mode of the hour.
- `KeepsTheRule`: the invariant `ClockKeepsTheRule`, which is not inductive: it does not say
  that the clock's date is one that exists, without which the next day's is anything. The
  inductive one is `Clock` with the type of the walk. The first reading is the hard step: with
  no offset it is taken by the rule, which finds the right one whenever the reading is of one
  instant only (`Doubtful`, `PlainIsRight`). That a clock which is looked at daily always has a
  time where the clocks are changed needs `Ahead`: a change lies within two years of the
  anchor, and the look that finds it sets the anchor anew, before the days run out (hence
  733 of them at least in `CalendarAssumption`). Where they are not changed it has a time for
  `MAX_ROLLOVER_DAYS` after it was set, and the theorem says nothing of it later.

`CalendarAssumption` also bounds the start of a walk to 2000-2099, the century the chip counts;
a walk may then go on beyond it. Induction over days and over finite sets is done by the least
counterexample (`Induction`), as the library's theorems on it cannot be instantiated; `FirmwareProofs` does the same over the bytes of an image.

- `NothingIsHalfRead`: the invariant `NothingHalfRead` of `Texts`, for any letters, any tokens
  lost, repeated or put in as often as one likes, and schedules of any length, where the run
  damages one token of seven letters. That every text is of tokens is all that its
  states share (`TextsInv`); the rest is about the readers:
  - passing a value, whatever is in it, closes nothing that was open before it and begins no
    key of its meal (`ValueIs`, from `NestedIs` and `BareIs`): the depth can only have grown,
    by a bracket that a bare value ran over, and then the text that is taken does not balance;
  - so a meal is read from its brace to the one that closes it, each of its keys in the meal
    itself (`MemberIs`, `KeptIs`), and the last of a key is the one that is kept (`SaidIs`);
  - and the list from its bracket to its own: as many meals as it has braces at depth one,
    each as the text says (`NextIs`, `ScheduleIs`);
  - a text and its beginning are read alike up to where the beginning ends, and a reader that
    gets there has not met its bracket (`ValueBroken`, `MealBroken`, `ScheduleBroken`);
  - the echo is ten tokens to a meal, which are read as that meal (`EchoReadBack`); an edit
    and a time are read back by arithmetic (`Edits`, `TimeBack`);
  - a rule is made of the numbers that its reader took, each from a range (`RuleIs`): they
    are one or ten, the offsets below 25 and 26 hours and the time of a change below 168
    (`RuleRead`), which is what `CalendarAssumption` asks of a rule. `Parser::hms` of 24
    hours lets 24:59 through, hence 25.

The type invariants of these modules are proved and so take no run. Every invariant and
every action property that a run checks to hold is proved. Only model-checked: the liveness
properties, as TLAPS proves none under fairness.

## 5. Not modelled

- The discovery payloads of Home Assistant, the setup network's DHCP and DNS servers and its
  list of networks: each answers from constants, and a library keeps the leases.
- DNS, TCP and the bytes of MQTT packets: `Session` has their outcomes.
- The compression function of SHA-256 and the polynomial of CRC-32 (`Cells` has what they
  are for), and collisions of either.
- The sampling of the switch and of BOOT's five seconds (their outcomes are in `Feeder` and
  `Store`), the gaps a calibration run measures, the watchdog.
- The rhythm and colour of each status of the LED, pin tables, the layer checks of the build.
- Markup, wording and log lines; portions in `Scheduler` (a slot is its minute).
- What only the page shows: the address, the last feed, the next slot.

Three hazards have no run. A feed that the broker delivers again (subscriptions are at QoS 1)
is, to the unit, a second feed: the cap of the feeder bounds it, as `mqtt.rs:650` says. A
queue that is full drops what comes: the feed of a slot, which is consumed, with a warning in
the log and nothing on the broker; the edit of a schedule likewise. Portions held over a write
are turned by the scale they were counted in.

## 6. Plan

1. *(done)* `Scheduler`, `Feeder`: the two promises.
2. *(done)* `Firmware`: two image slots, otadata, upload, selection,
   confirmation and rollback, with a power cut anywhere.
3. *(done)* `Store` and `Settings`: the four sectors, writes that fail, what each
   writer leaves, the schedule-command queue, the factory reset.
4. *(done)* `Setup`: trials, Save anyway, scans and the factory reset.
5. *(done)* `Session` and `Indicator`: the broker, the events, the LED; `Rtc`.
6. *(done)* The parts alone: calendar and rules, texts, records, uploads, pages.
7. *(done)* Proofs of type correctness and safety, and the refinement of `Settings`.
8. `Unit`: scheduler and feeder composed over the bounded feed queue, with the
   abstract dispenser it implements.
9. What a calibration run measures, the hold of BOOT, the setup network's servers.
10. *(done)* Proofs: `PromptMeal`, the calendar. The torn records, the forms, the
    streamed image, the texts. Left: the refinement of the dispenser.

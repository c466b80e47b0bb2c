--------------------------------- MODULE Setup ---------------------------------
(***************************************************************************)
(* Setup mode, src/src/setup.rs and src/src/trial.rs: the form, the trial  *)
(* of what it was given on the radio, Save anyway, and the factory reset,  *)
(* over SHARED, the signals TRY and SCAN and the lock of the store.        *)
(*                                                                         *)
(* A form stands for the network it names.  Whether its Wi-Fi joins and    *)
(* its broker takes the login is up to the house, at every trial anew.     *)
(***************************************************************************)
EXTENDS Naturals

CONSTANTS
  Forms,         \* bodies record_from_form accepts
  Slots,         \* connections of the form's server
  None           \* no form, no slot, no record with a network

ASSUME SetupAssumption == None \notin Forms /\ None \notin Slots

VARIABLES
  mode,                      \* which branch of main the boot took
  flash,                     \* the network of the record in flash
  trial, submitted,          \* SHARED
  try, scan,                 \* TRY, SCAN
  radio, trying,             \* how far the radio is, and the record it tries
  slot, kept,                \* how far each connection is, and the record it keeps
  lock                       \* the slot whose guard is on the store

\* History, read by the properties only.
VARIABLES
  tried,         \* the form the last outcome is of
  joined,        \* the forms whose Wi-Fi joined since the boot
  overruled      \* a keep that failed put its outcome over a trial that runs

shared == <<trial, submitted, try>>
station == <<radio, trying>>
server == <<slot, kept>>
history == <<tried, joined, overruled>>
vars == <<mode, flash, shared, scan, station, server, lock, history>>

Trials == {"Idle", "Testing", "WifiFailed", "BrokerFailed", "NotSaved", "Saved"}

\* Mutant: a second press starts a trial over the one that runs.
may_startAgain == trial # "Saved"

may_start == trial \notin {"Testing", "Saved"}

may_erase == may_start

\* Mutant: any trial that failed may be kept.
keepableFailed == trial \in {"WifiFailed", "BrokerFailed"}

keepable == trial = "BrokerFailed"
-----------------------------------------------------------------------------
\* The radio scans before it takes any command; a configured unit has no setup.
Boot ==
  /\ mode' = IF flash \in Forms THEN "Configured" ELSE "Setup"
  /\ trial' = "Idle" /\ submitted' = None /\ try' = FALSE /\ scan' = FALSE
  /\ radio' = "Scanning" /\ trying' = None
  /\ slot' = [s \in Slots |-> "Free"] /\ kept' = [s \in Slots |-> None]
  /\ lock' = None /\ tried' = None
  /\ joined' = (IF flash \in Forms THEN joined ELSE {})
  /\ overruled' = (overruled /\ flash \in Forms)
  /\ UNCHANGED flash

Init ==
  /\ mode = "Setup" /\ flash = None
  /\ trial = "Idle" /\ submitted = None /\ try = FALSE /\ scan = FALSE
  /\ radio = "Scanning" /\ trying = None
  /\ slot = [s \in Slots |-> "Free"] /\ kept = [s \in Slots |-> None]
  /\ lock = None /\ tried = None /\ joined = {} /\ overruled = FALSE

Free(s) == mode = "Setup" /\ slot[s] = "Free"

\* A write of the record that flash refuses leaves the old one, or none.
Refused == flash' \in {flash, None}
-----------------------------------------------------------------------------
(***************************************************************************)
(* The form.                                                               *)
(***************************************************************************)
\* Test and save.  A press while a trial runs, or after one saved, starts nothing.
save(s, f) ==
  /\ Free(s) /\ may_start
  /\ submitted' = f /\ trial' = "Testing" /\ try' = TRUE
  /\ UNCHANGED <<mode, flash, scan, station, server, lock, history>>

rescan(s) ==
  /\ Free(s) /\ scan' = TRUE
  /\ UNCHANGED <<mode, flash, shared, station, server, lock, history>>

\* Save anyway writes what it read when it was asked for, and keeps the lock until the
\* page is sent.
keep_write(s, f) ==
  /\ lock = None /\ lock' = s
  /\ \/ flash' = f /\ slot' = [slot EXCEPT ![s] = "Kept"]
        /\ UNCHANGED <<trial, overruled>>
     \/ Refused /\ slot' = [slot EXCEPT ![s] = "NotKept"]
        /\ trial' = "NotSaved" /\ overruled' = (overruled \/ trial = "Testing")
  /\ kept' = [kept EXCEPT ![s] = None]
  /\ UNCHANGED <<mode, submitted, try, scan, station, tried, joined>>

keep(s) ==
  /\ Free(s) /\ keepable
  /\ \/ keep_write(s, submitted)
     \/ /\ lock # None
        /\ slot' = [slot EXCEPT ![s] = "Keeps"] /\ kept' = [kept EXCEPT ![s] = submitted]
        /\ UNCHANGED <<mode, flash, shared, scan, station, lock, history>>

\* The factory reset looks at the trial before it waits for the lock, and keeps the
\* lock to the restart.  If flash refuses, the form is drawn again.
\* Mutant: the guard is dropped after the erase.
erase_writeLetGo(s) ==
  /\ lock = None /\ flash' = None /\ slot' = [slot EXCEPT ![s] = "Erased"]
  /\ UNCHANGED <<mode, shared, scan, station, kept, lock, history>>

erase_write(s) ==
  /\ lock = None
  /\ \/ flash' = None /\ lock' = s /\ slot' = [slot EXCEPT ![s] = "Erased"]
     \/ Refused /\ slot' = [slot EXCEPT ![s] = "Free"] /\ UNCHANGED lock
  /\ UNCHANGED <<mode, shared, scan, station, kept, history>>

erase(s) ==
  /\ Free(s) /\ may_erase
  /\ \/ erase_write(s)
     \/ /\ lock # None /\ slot' = [slot EXCEPT ![s] = "Erases"]
        /\ UNCHANGED <<mode, flash, shared, scan, station, kept, lock, history>>

\* A slot that waited gets the lock.
Granted(s) ==
  \/ slot[s] = "Keeps" /\ keep_write(s, kept[s])
  \/ slot[s] = "Erases" /\ erase_write(s)

\* Mutant: a record that was kept is not restarted into.
AnsweredContinues(s) ==
  /\ slot[s] \in {"Kept", "NotKept"}
  /\ slot' = [slot EXCEPT ![s] = "Free"] /\ lock' = None
  /\ UNCHANGED <<mode, flash, shared, scan, station, kept, history>>

\* The page is sent, or its socket gave up, and the guard goes with it.
Answered(s) ==
  /\ slot[s] \in {"Kept", "NotKept"}
  /\ slot' = [slot EXCEPT ![s] = IF slot[s] = "Kept" THEN "Restarts" ELSE "Free"]
  /\ lock' = None
  /\ UNCHANGED <<mode, flash, shared, scan, station, kept, history>>

SlotRestarts(s) == slot[s] \in {"Restarts", "Erased"} /\ Boot
-----------------------------------------------------------------------------
(***************************************************************************)
(* The radio.                                                              *)
(***************************************************************************)
\* Mutant: a scan may go before a trial.
ScanStartsFirst ==
  /\ mode = "Setup" /\ radio = "Listening" /\ scan
  /\ scan' = FALSE /\ radio' = "Scanning"
  /\ UNCHANGED <<mode, flash, shared, trying, server, lock, history>>

\* A trial goes before a scan when both are waiting.
ScanStarts ==
  /\ mode = "Setup" /\ radio = "Listening" /\ scan /\ ~try
  /\ scan' = FALSE /\ radio' = "Scanning"
  /\ UNCHANGED <<mode, flash, shared, trying, server, lock, history>>

ScanEnds ==
  /\ mode = "Setup" /\ radio = "Scanning" /\ radio' = "Listening"
  /\ UNCHANGED <<mode, flash, shared, scan, trying, server, lock, history>>

TrialStarts ==
  /\ mode = "Setup" /\ radio = "Listening" /\ try
  /\ try' = FALSE /\ radio' = "Joining" /\ trying' = submitted
  /\ UNCHANGED <<mode, flash, trial, submitted, scan, server, lock, history>>

\* The trial ends with what it found.
Outcome(found) ==
  /\ trial' = found /\ tried' = trying
  /\ radio' = (IF found = "Saved" THEN "Restarts" ELSE "Listening") /\ trying' = None
  /\ UNCHANGED <<submitted, try>>

\* The key cannot be one, nothing answered, or there is no lease in time.
WifiFails ==
  /\ radio = "Joining" /\ Outcome("WifiFailed")
  /\ UNCHANGED <<mode, flash, scan, server, lock, joined, overruled>>

WifiJoins ==
  /\ radio = "Joining" /\ radio' = "Probing" /\ joined' = joined \cup {trying}
  /\ UNCHANGED <<mode, flash, shared, scan, trying, server, lock, tried, overruled>>

BrokerFails ==
  /\ radio = "Probing" /\ Outcome("BrokerFailed")
  /\ UNCHANGED <<mode, flash, scan, server, lock, joined, overruled>>

\* The broker took the login: the record tried is saved, as soon as the lock is free.
save_trial ==
  /\ lock = None
  /\ \/ flash' = trying /\ Outcome("Saved")
     \/ Refused /\ Outcome("NotSaved")
  /\ UNCHANGED <<mode, scan, server, lock, joined, overruled>>

BrokerAccepts ==
  /\ radio = "Probing"
  /\ \/ save_trial
     \/ /\ lock # None /\ radio' = "Saving"
        /\ UNCHANGED <<mode, flash, shared, scan, trying, server, lock, history>>

TrialSaves == radio = "Saving" /\ save_trial

RadioRestarts == radio = "Restarts" /\ Boot
-----------------------------------------------------------------------------
\* A unit in service is made to forget its network: the BOOT hold, or a factory reset.
Forget ==
  /\ mode = "Configured" /\ mode' = "Setup" /\ flash' = None
  /\ joined' = {} /\ overruled' = FALSE
  /\ UNCHANGED <<shared, scan, station, server, lock, tried>>

PowerCut == mode = "Setup" /\ Boot

Form(s) ==
  \/ \E f \in Forms : save(s, f)
  \/ rescan(s) \/ keep(s) \/ erase(s)
  \/ Granted(s) \/ Answered(s) \/ SlotRestarts(s)
Radio ==
  \/ ScanStarts \/ ScanEnds
  \/ TrialStarts \/ WifiFails \/ WifiJoins \/ BrokerFails \/ BrokerAccepts
  \/ TrialSaves \/ RadioRestarts

Next == (\E s \in Slots : Form(s)) \/ Radio \/ Forget \/ PowerCut

Spec == Init /\ [][Next]_vars

\* Every wait of the radio and of a page has a timeout, and the executor polls whoever
\* is ready.  Nothing is assumed of who gets the lock.
Fairness ==
  /\ WF_vars(Radio)
  /\ \A s \in Slots : WF_vars(Answered(s)) /\ WF_vars(SlotRestarts(s))
FairSpec == Spec /\ Fairness
-----------------------------------------------------------------------------
TypeOK ==
  /\ mode \in {"Setup", "Configured"} /\ flash \in Forms \cup {None}
  /\ trial \in Trials /\ submitted \in Forms \cup {None}
  /\ try \in BOOLEAN /\ scan \in BOOLEAN
  /\ radio \in {"Scanning", "Listening", "Joining", "Probing", "Saving", "Restarts"}
  /\ trying \in Forms \cup {None}
  /\ slot \in [Slots -> {"Free", "Keeps", "Kept", "NotKept", "Erases", "Erased", "Restarts"}]
  /\ kept \in [Slots -> Forms \cup {None}]
  /\ lock \in Slots \cup {None}
  /\ tried \in Forms \cup {None} /\ joined \subseteq Forms /\ overruled \in BOOLEAN

\* Only a network whose Wi-Fi joined is ever saved, by a trial or by Save anyway, whatever
\* the connections ask for and in whatever order: unless a keep that failed put its
\* outcome over a trial that was running.
OnlyJoinedSaved == flash \in Forms => flash \in joined \/ overruled

\* What the page says of a trial, it says of the network that was tried.
OutcomeIsOfSubmitted ==
  trial \in {"WifiFailed", "BrokerFailed", "Saved"} => tried = submitted \/ overruled

\* Nothing is saved from a factory reset to the restart.
ErasedStays == \A s \in Slots : slot[s] = "Erased" => flash = None

\* A trial that was started ends, however many scans and trials are asked for.
TrialEnds == trial = "Testing" ~> trial # "Testing"

\* A record that was saved is booted into, unless it is erased.
LeavesSetup == (mode = "Setup" /\ flash \in Forms) ~> (mode = "Configured" \/ flash = None)
=============================================================================

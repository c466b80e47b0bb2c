------------------------------ MODULE SetupProofs ------------------------------
(***************************************************************************)
(* What Setup promises for any networks and any number of connections,     *)
(* with flash that may refuse any write and power that may go at any step. *)
(***************************************************************************)
EXTENDS Setup, TLAPS

\* A trial has the radio from the association to its outcome.
attempting == radio \in {"Joining", "Probing", "Saving"}

\* Whoever has read a form has one.
Named ==
  /\ try \/ attempting \/ trial = "BrokerFailed" => submitted \in Forms
  /\ attempting => trying \in Forms
  /\ \A s \in Slots : slot[s] = "Keeps" => kept[s] \in Forms

\* A connection that is still to send its page, or to restart after an erase, has the
\* lock, and no other has it.
LockHeld == \A s \in Slots : slot[s] \in {"Kept", "NotKept", "Erased"} => lock = s

\* At most one trial is asked for or runs, it is the one of the form held, and the page
\* says so: unless a keep overruled it.
OneTrial ==
  ~overruled => /\ try \/ attempting => trial = "Testing"
                /\ attempting => ~try /\ trying = submitted

\* Whatever may be saved has joined: what Save anyway offers, what a connection waits to
\* keep, and what the radio holds once it is on the network.
Joined ==
  ~overruled => /\ trial = "BrokerFailed" => submitted \in joined
                /\ \A s \in Slots : slot[s] = "Keeps" => kept[s] \in joined
                /\ radio \in {"Probing", "Saving"} => trying \in joined

\* A unit in service has no setup.
Quiet ==
  mode = "Configured" =>
    /\ trial = "Idle" /\ ~try /\ radio = "Scanning"
    /\ \A s \in Slots : slot[s] = "Free"

SetupInv ==
  /\ TypeOK /\ Named /\ LockHeld /\ OneTrial /\ Joined /\ Quiet
  /\ OnlyJoinedSaved /\ OutcomeIsOfSubmitted /\ ErasedStays
-----------------------------------------------------------------------------
\* A unit as it comes from the bench keeps the invariant.
LEMMA InitSetup == Init => SetupInv
BY SetupAssumption
  DEF Init, SetupInv, TypeOK, Named, LockHeld, OneTrial, Joined, Quiet, OnlyJoinedSaved,
      OutcomeIsOfSubmitted, ErasedStays, Trials, attempting

\* A boot restores it: the record left in flash has joined, and nothing else is kept.
LEMMA BootSetup ==
  ASSUME SetupInv, Boot
  PROVE  SetupInv'
<1> USE DEF Boot
<1>1. TypeOK' /\ Named' /\ LockHeld' /\ OneTrial' /\ Joined' /\ Quiet'
  BY SetupAssumption
    DEF SetupInv, TypeOK, Trials, Named, LockHeld, OneTrial, Joined, Quiet, attempting
<1>2. OnlyJoinedSaved' /\ OutcomeIsOfSubmitted' /\ ErasedStays'
  BY SetupAssumption
    DEF SetupInv, TypeOK, OnlyJoinedSaved, OutcomeIsOfSubmitted, ErasedStays
<1> QED BY <1>1, <1>2 DEF SetupInv

\* A press of Test and save: no trial runs, so this one is the only one.
LEMMA SaveSetup ==
  ASSUME SetupInv, NEW s \in Slots, NEW f \in Forms, save(s, f)
  PROVE  SetupInv'
<1> USE DEF save, Free, may_start, station, server, history
<1>1. TypeOK' /\ Named' /\ LockHeld' /\ ErasedStays' /\ OnlyJoinedSaved' /\ Quiet'
  BY DEF SetupInv, TypeOK, Trials, Named, LockHeld, ErasedStays, OnlyJoinedSaved, Quiet,
         attempting
<1>2. OneTrial' /\ Joined' /\ OutcomeIsOfSubmitted'
  BY DEF SetupInv, OneTrial, Joined, OutcomeIsOfSubmitted, attempting
<1> QED BY <1>1, <1>2 DEF SetupInv

\* The record a connection keeps is one whose Wi-Fi joined, and its write waits for the
\* lock a factory reset holds.
LEMMA KeepWriteSetup ==
  ASSUME SetupInv, mode = "Setup", NEW s \in Slots, NEW f \in Forms,
         ~overruled => f \in joined,
         slot[s] \in {"Free", "Keeps"}, keep_write(s, f)
  PROVE  SetupInv'
<1> USE DEF keep_write, Refused, station
<1>1. PICK to \in {"Kept", "NotKept"} : slot' = [slot EXCEPT ![s] = to]
  OBVIOUS
<1>2. /\ slot \in [Slots -> {"Free", "Keeps", "Kept", "NotKept", "Erases", "Erased", "Restarts"}]
      /\ kept \in [Slots -> Forms \cup {None}]
  BY DEF SetupInv, TypeOK
<1>3. \A t \in Slots : slot[t] \notin {"Kept", "NotKept", "Erased"}
  BY SetupAssumption DEF SetupInv, LockHeld
<1>4. /\ slot'[s] = to
      /\ \A t \in Slots \ {s} : slot'[t] = slot[t] /\ kept'[t] = kept[t]
  BY <1>1, <1>2
<1>5. TypeOK'
  <2>1. overruled' \in BOOLEAN
    BY DEF SetupInv, TypeOK
  <2>2. slot' \in [Slots -> {"Free", "Keeps", "Kept", "NotKept", "Erases", "Erased", "Restarts"}]
    BY <1>1, <1>2
  <2>3. kept' \in [Slots -> Forms \cup {None}]
    BY <1>2
  <2>4. trial' \in Trials /\ flash' \in Forms \cup {None}
    BY DEF SetupInv, TypeOK, Trials
  <2> QED BY <2>1, <2>2, <2>3, <2>4 DEF SetupInv, TypeOK
<1>6. Named' /\ LockHeld' /\ ErasedStays' /\ Quiet'
  BY <1>1, <1>3, <1>4
    DEF SetupInv, Named, LockHeld, ErasedStays, Quiet, attempting
<1>7. OneTrial' /\ OutcomeIsOfSubmitted'
  BY DEF SetupInv, OneTrial, OutcomeIsOfSubmitted, attempting
<1>8. Joined'
  BY <1>1, <1>4 DEF SetupInv, Joined, TypeOK
<1>9. OnlyJoinedSaved'
  BY SetupAssumption DEF SetupInv, OnlyJoinedSaved, TypeOK
<1> QED BY <1>5, <1>6, <1>7, <1>8, <1>9 DEF SetupInv

\* A factory reset writes over no trial that saves, for both write under the lock.
LEMMA EraseWriteSetup ==
  ASSUME SetupInv, mode = "Setup", NEW s \in Slots,
         slot[s] \in {"Free", "Erases"}, erase_write(s)
  PROVE  SetupInv'
<1> USE DEF erase_write, Refused, shared, station, history
<1>1. PICK to \in {"Free", "Erased"} : slot' = [slot EXCEPT ![s] = to]
  OBVIOUS
<1>2. slot \in [Slots -> {"Free", "Keeps", "Kept", "NotKept", "Erases", "Erased", "Restarts"}]
  BY DEF SetupInv, TypeOK
<1>3. \A t \in Slots : slot[t] \notin {"Kept", "NotKept", "Erased"}
  BY SetupAssumption DEF SetupInv, LockHeld
<1>4. slot'[s] = to /\ \A t \in Slots \ {s} : slot'[t] = slot[t]
  BY <1>1, <1>2
<1>5. TypeOK'
  BY <1>1, <1>2 DEF SetupInv, TypeOK
<1>6. LockHeld'
  BY <1>1, <1>3, <1>4, <1>2 DEF SetupInv, LockHeld
<1>7. ErasedStays'
  BY <1>3, <1>4, <1>2 DEF ErasedStays
<1>8. Named' /\ Joined' /\ Quiet'
  BY <1>1, <1>4 DEF SetupInv, Named, Joined, Quiet, attempting
<1>9. OneTrial' /\ OutcomeIsOfSubmitted' /\ OnlyJoinedSaved'
  BY SetupAssumption
    DEF SetupInv, TypeOK, OneTrial, OutcomeIsOfSubmitted, OnlyJoinedSaved, attempting
<1> QED BY <1>5, <1>6, <1>7, <1>8, <1>9 DEF SetupInv

\* A connection that waits for the lock, and its turn when it comes.
LEMMA FormSetup ==
  ASSUME SetupInv, NEW s \in Slots, Form(s)
  PROVE  SetupInv'
<1>1. CASE \E f \in Forms : save(s, f)
  BY <1>1, SaveSetup
<1>2. CASE rescan(s)
  BY <1>2
    DEF rescan, Free, shared, station, server, history, SetupInv, TypeOK, Named, LockHeld,
        OneTrial, Joined, Quiet, OnlyJoinedSaved, OutcomeIsOfSubmitted, ErasedStays,
        attempting
<1>3. CASE keep(s)
  <2>1. /\ mode = "Setup" /\ slot[s] = "Free" /\ submitted \in Forms
        /\ ~overruled => submitted \in joined
    BY <1>3 DEF keep, Free, keepable, SetupInv, Named, Joined
  <2>2. CASE keep_write(s, submitted)
    BY <2>1, <2>2, KeepWriteSetup
  <2>3. CASE ~keep_write(s, submitted)
    <3>1. /\ slot' = [slot EXCEPT ![s] = "Keeps"] /\ kept' = [kept EXCEPT ![s] = submitted]
          /\ UNCHANGED <<mode, flash, shared, scan, station, lock, history>>
      BY <1>3, <2>3 DEF keep
    <3>2. /\ slot' \in [Slots -> {"Free", "Keeps", "Kept", "NotKept", "Erases", "Erased", "Restarts"}]
          /\ kept' \in [Slots -> Forms \cup {None}]
          /\ slot'[s] = "Keeps" /\ kept'[s] = submitted
          /\ \A t \in Slots \ {s} : slot'[t] = slot[t] /\ kept'[t] = kept[t]
      BY <2>1, <3>1 DEF SetupInv, TypeOK
    <3> USE DEF shared, station, history
    <3>3. TypeOK'
      BY <3>1, <3>2 DEF SetupInv, TypeOK
    <3>4. Named' /\ LockHeld' /\ Joined' /\ Quiet' /\ ErasedStays'
      BY <2>1, <3>1, <3>2
        DEF SetupInv, Named, LockHeld, Joined, Quiet, ErasedStays, attempting
    <3>5. OneTrial' /\ OutcomeIsOfSubmitted' /\ OnlyJoinedSaved'
      BY <3>1 DEF SetupInv, OneTrial, OutcomeIsOfSubmitted, OnlyJoinedSaved, attempting
    <3> QED BY <3>3, <3>4, <3>5 DEF SetupInv
  <2> QED BY <2>2, <2>3
<1>4. CASE erase(s)
  <2>1. mode = "Setup" /\ slot[s] = "Free"
    BY <1>4 DEF erase, Free
  <2>2. CASE erase_write(s)
    BY <2>1, <2>2, EraseWriteSetup
  <2>3. CASE ~erase_write(s)
    <3>1. /\ slot' = [slot EXCEPT ![s] = "Erases"]
          /\ UNCHANGED <<mode, flash, shared, scan, station, kept, lock, history>>
      BY <1>4, <2>3 DEF erase
    <3>2. /\ slot' \in [Slots -> {"Free", "Keeps", "Kept", "NotKept", "Erases", "Erased", "Restarts"}]
          /\ slot'[s] = "Erases" /\ \A t \in Slots \ {s} : slot'[t] = slot[t]
      BY <3>1 DEF SetupInv, TypeOK
    <3> USE DEF shared, station, history
    <3>3. TypeOK'
      BY <3>1, <3>2 DEF SetupInv, TypeOK
    <3>4. Named' /\ LockHeld' /\ Joined' /\ Quiet' /\ ErasedStays'
      BY <2>1, <3>1, <3>2
        DEF SetupInv, Named, LockHeld, Joined, Quiet, ErasedStays, attempting
    <3>5. OneTrial' /\ OutcomeIsOfSubmitted' /\ OnlyJoinedSaved'
      BY <3>1 DEF SetupInv, OneTrial, OutcomeIsOfSubmitted, OnlyJoinedSaved, attempting
    <3> QED BY <3>3, <3>4, <3>5 DEF SetupInv
  <2> QED BY <2>2, <2>3
<1>5. CASE Granted(s)
  <2>1. mode = "Setup"
    BY <1>5 DEF Granted, SetupInv, TypeOK, Quiet
  <2>2. CASE slot[s] = "Keeps" /\ keep_write(s, kept[s])
    <3>1. kept[s] \in Forms /\ (~overruled => kept[s] \in joined)
      BY <2>2 DEF SetupInv, Named, Joined
    <3> QED BY <2>1, <2>2, <3>1, KeepWriteSetup
  <2>3. CASE slot[s] = "Erases" /\ erase_write(s)
    BY <2>1, <2>3, EraseWriteSetup
  <2> QED BY <1>5, <2>2, <2>3 DEF Granted
<1>6. CASE Answered(s)
  <2>1. PICK to \in {"Restarts", "Free"} : slot' = [slot EXCEPT ![s] = to]
    BY <1>6 DEF Answered
  <2>2. /\ slot \in [Slots -> {"Free", "Keeps", "Kept", "NotKept", "Erases", "Erased", "Restarts"}]
        /\ lock = s /\ slot[s] \in {"Kept", "NotKept"} /\ mode = "Setup"
    BY <1>6 DEF Answered, SetupInv, TypeOK, LockHeld, Quiet
  <2>3. /\ slot' \in [Slots -> {"Free", "Keeps", "Kept", "NotKept", "Erases", "Erased", "Restarts"}]
        /\ slot'[s] = to /\ \A t \in Slots \ {s} : slot'[t] = slot[t]
    BY <2>1, <2>2
  <2> USE DEF Answered, shared, station, history
  <2>4. TypeOK'
    BY <1>6, <2>3 DEF SetupInv, TypeOK
  <2>5. LockHeld' /\ ErasedStays'
    BY <1>6, <2>2, <2>3 DEF SetupInv, LockHeld, ErasedStays
  <2>6. Named' /\ Joined' /\ Quiet'
    BY <1>6, <2>2, <2>3 DEF SetupInv, Named, Joined, Quiet, attempting
  <2>7. OneTrial' /\ OutcomeIsOfSubmitted' /\ OnlyJoinedSaved'
    BY <1>6 DEF SetupInv, OneTrial, OutcomeIsOfSubmitted, OnlyJoinedSaved, attempting
  <2> QED BY <2>4, <2>5, <2>6, <2>7 DEF SetupInv
<1>7. CASE SlotRestarts(s)
  BY <1>7, BootSetup DEF SlotRestarts
<1> QED BY <1>1, <1>2, <1>3, <1>4, <1>5, <1>6, <1>7 DEF Form

\* The trial the radio ends is the one the page shows, so that its outcome is of the
\* form held.
LEMMA OutcomeSetup ==
  ASSUME SetupInv, NEW found \in Trials \ {"Idle", "Testing"}, attempting, Outcome(found),
         found \in {"BrokerFailed", "Saved"} => trying \in joined \/ overruled,
         flash' \in Forms \cup {None},
         UNCHANGED <<mode, scan, server, lock, joined, overruled>>
  PROVE  /\ TypeOK' /\ Named' /\ LockHeld' /\ OneTrial' /\ Joined' /\ Quiet'
         /\ OutcomeIsOfSubmitted'
<1> USE DEF Outcome, server, attempting
<1>1. mode = "Setup" /\ trying \in Forms /\ (~overruled => trying = submitted /\ ~try)
  BY DEF SetupInv, TypeOK, Quiet, Named, OneTrial
<1>2. TypeOK'
  BY <1>1 DEF SetupInv, TypeOK, Trials
<1>3. LockHeld' /\ Quiet' /\ OutcomeIsOfSubmitted'
  BY <1>1 DEF SetupInv, LockHeld, Quiet, OutcomeIsOfSubmitted
<1>4. OneTrial' /\ Joined'
  BY <1>1 DEF SetupInv, OneTrial, Joined
<1>5. Named'
  BY <1>1 DEF SetupInv, Named, OneTrial
<1> QED BY <1>2, <1>3, <1>4, <1>5

\* The record of a trial is saved under the lock, after its Wi-Fi joined.
LEMMA SaveTrialSetup ==
  ASSUME SetupInv, radio \in {"Probing", "Saving"}, save_trial
  PROVE  SetupInv'
<1> USE DEF save_trial, Refused
<1>1. /\ attempting /\ trying \in Forms /\ flash' \in Forms \cup {None}
      /\ trying \in joined \/ overruled
  BY DEF attempting, SetupInv, TypeOK, Named, Joined
<1>2. \E found \in {"Saved", "NotSaved"} : Outcome(found)
  OBVIOUS
<1>3. /\ TypeOK' /\ Named' /\ LockHeld' /\ OneTrial' /\ Joined' /\ Quiet'
      /\ OutcomeIsOfSubmitted'
  BY <1>1, <1>2, OutcomeSetup DEF Trials
<1>4. OnlyJoinedSaved'
  BY <1>1, SetupAssumption DEF SetupInv, OnlyJoinedSaved
<1>5. ErasedStays'
  BY SetupAssumption DEF SetupInv, LockHeld, ErasedStays, server
<1> QED BY <1>3, <1>4, <1>5 DEF SetupInv

\* A trial that fails before it saves leaves flash alone.
LEMMA FailSetup ==
  ASSUME SetupInv, NEW found \in {"WifiFailed", "BrokerFailed"}, attempting, Outcome(found),
         found = "BrokerFailed" => trying \in joined \/ overruled,
         UNCHANGED <<mode, flash, scan, server, lock, joined, overruled>>
  PROVE  SetupInv'
<1>1. flash' \in Forms \cup {None}
  BY DEF SetupInv, TypeOK
<1>2. /\ TypeOK' /\ Named' /\ LockHeld' /\ OneTrial' /\ Joined' /\ Quiet'
      /\ OutcomeIsOfSubmitted'
  BY <1>1, OutcomeSetup DEF Trials
<1>3. OnlyJoinedSaved' /\ ErasedStays'
  BY DEF SetupInv, OnlyJoinedSaved, ErasedStays, server
<1> QED BY <1>2, <1>3 DEF SetupInv

\* The radio keeps the invariant: it takes a trial off the signal before it takes it up,
\* and adds what joined before the broker is asked.
LEMMA RadioSetup ==
  ASSUME SetupInv, Radio
  PROVE  SetupInv'
<1>1. CASE ScanStarts \/ ScanEnds
  <2> USE DEF ScanStarts, ScanEnds, shared, server, history
  <2>1. TypeOK'
    BY <1>1 DEF SetupInv, TypeOK
  <2>4. Named' /\ OneTrial'
    BY <1>1 DEF SetupInv, Named, OneTrial, attempting
  <2>2. LockHeld' /\ Joined' /\ Quiet' /\ ErasedStays'
    BY <1>1 DEF SetupInv, LockHeld, Joined, Quiet, ErasedStays
  <2>3. OnlyJoinedSaved' /\ OutcomeIsOfSubmitted'
    BY <1>1 DEF SetupInv, OnlyJoinedSaved, OutcomeIsOfSubmitted
  <2> QED BY <2>1, <2>2, <2>3, <2>4 DEF SetupInv
<1>2. CASE TrialStarts
  <2> USE DEF TrialStarts, server, history
  <2>1. TypeOK' /\ Named' /\ OneTrial'
    BY <1>2 DEF SetupInv, TypeOK, Named, OneTrial, attempting
  <2>2. LockHeld' /\ Joined' /\ Quiet' /\ ErasedStays'
    BY <1>2 DEF SetupInv, LockHeld, Joined, Quiet, ErasedStays
  <2>3. OnlyJoinedSaved' /\ OutcomeIsOfSubmitted'
    BY <1>2 DEF SetupInv, OnlyJoinedSaved, OutcomeIsOfSubmitted
  <2> QED BY <2>1, <2>2, <2>3 DEF SetupInv
<1>3. CASE WifiFails
  <2>1. attempting
    BY <1>3 DEF WifiFails, attempting
  <2> QED BY <1>3, <2>1, FailSetup DEF WifiFails
<1>4. CASE WifiJoins
  BY <1>4
    DEF WifiJoins, shared, server, history, SetupInv, TypeOK, Named, LockHeld, OneTrial,
        Joined, Quiet, OnlyJoinedSaved, OutcomeIsOfSubmitted, ErasedStays, attempting
<1>5. CASE BrokerFails
  <2>1. attempting /\ (trying \in joined \/ overruled)
    BY <1>5 DEF BrokerFails, attempting, SetupInv, Joined
  <2> QED BY <1>5, <2>1, FailSetup DEF BrokerFails
<1>6. CASE BrokerAccepts
  <2>1. CASE save_trial
    BY <1>6, <2>1, SaveTrialSetup DEF BrokerAccepts
  <2>2. CASE ~save_trial
    BY <1>6, <2>2
      DEF BrokerAccepts, shared, server, history, SetupInv, TypeOK, Named, LockHeld,
          OneTrial, Joined, Quiet, OnlyJoinedSaved, OutcomeIsOfSubmitted, ErasedStays,
          attempting
  <2> QED BY <2>1, <2>2
<1>7. CASE TrialSaves
  BY <1>7, SaveTrialSetup DEF TrialSaves
<1>8. CASE RadioRestarts
  BY <1>8, BootSetup DEF RadioRestarts
<1> QED BY <1>1, <1>2, <1>3, <1>4, <1>5, <1>6, <1>7, <1>8 DEF Radio

\* Every step keeps the invariant.
LEMMA NextSetup == SetupInv /\ [Next]_vars => SetupInv'
<1> SUFFICES ASSUME SetupInv, [Next]_vars PROVE SetupInv'
  OBVIOUS
<1>1. CASE \E s \in Slots : Form(s)
  BY <1>1, FormSetup
<1>2. CASE Radio
  BY <1>2, RadioSetup
<1>3. CASE Forget
  BY <1>3, SetupAssumption
    DEF Forget, shared, station, server, SetupInv, TypeOK, Named, LockHeld, OneTrial,
        Joined, Quiet, OnlyJoinedSaved, OutcomeIsOfSubmitted, ErasedStays, attempting
<1>4. CASE PowerCut
  BY <1>4, BootSetup DEF PowerCut
<1>5. CASE UNCHANGED vars
  BY <1>5
    DEF vars, shared, station, server, history, SetupInv, TypeOK, Named, LockHeld,
        OneTrial, Joined, Quiet, OnlyJoinedSaved, OutcomeIsOfSubmitted, ErasedStays,
        attempting
<1> QED BY <1>1, <1>2, <1>3, <1>4, <1>5 DEF Next

LEMMA AlwaysSetup == Spec => []SetupInv
BY InitSetup, NextSetup, PTL DEF Spec
-----------------------------------------------------------------------------
\* The states of setup mode are the ones its variables are declared for, for any
\* networks and any number of connections.
THEOREM TypeCorrect == Spec => []TypeOK
<1>1. SetupInv => TypeOK
  BY DEF SetupInv
<1> QED BY <1>1, AlwaysSetup, PTL

\* Only a network whose Wi-Fi joined is ever in flash, by a trial or by Save anyway
\* (setup.rs keep, trial.rs keepable): unless a keep that flash refused put its outcome
\* over a trial that was running.
THEOREM OnlyJoined == Spec => []OnlyJoinedSaved
<1>1. SetupInv => OnlyJoinedSaved
  BY DEF SetupInv
<1> QED BY <1>1, AlwaysSetup, PTL

\* An outcome on the page is of the network the form holds (setup.rs save, run), with
\* the same exception.
THEOREM OutcomeOfSubmitted == Spec => []OutcomeIsOfSubmitted
<1>1. SetupInv => OutcomeIsOfSubmitted
  BY DEF SetupInv
<1> QED BY <1>1, AlwaysSetup, PTL

\* No write that waited gets in between a factory reset and its restart (setup.rs erase
\* holds its guard to the end).
THEOREM ErasedUntilRestart == Spec => []ErasedStays
<1>1. SetupInv => ErasedStays
  BY DEF SetupInv
<1> QED BY <1>1, AlwaysSetup, PTL
=============================================================================

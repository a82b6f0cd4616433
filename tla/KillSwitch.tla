----------------------------- MODULE KillSwitch -----------------------------
(***************************************************************************)
(* KillSwitchManager (packages/agent/daemon/kill_switch.py): the halt in   *)
(* force, the history of halts in memory and in halt_history.json, and the *)
(* manual way out: acknowledge with an approval code, wait for the         *)
(* cooldown, reset.  Every operation holds one RLock from end to end, so   *)
(* each is one action; a crash can hit any of them at the file write.      *)
(*                                                                         *)
(* While the switch is triggered, _current_halt is the last event of       *)
(* _halt_history (the same object), so it is not a variable of its own.    *)
(***************************************************************************)
EXTENDS Naturals, Sequences

CONSTANTS
    Requests,      \* the [sev, act] pairs trigger() is called with
    Cooldown,      \* config.cooldown_seconds, in ticks
    ManualReset,   \* config.require_manual_reset, True by default
    MaxHistory,    \* MAX_HALT_HISTORY
    MaxHalts,      \* bound: number of halts explored
    StorageFaults  \* whether a write of the history file may fail or be torn

HaltSeverity == {"critical", "high", "medium", "low"}
HaltAction == {"halt_only", "cancel_orders", "flatten_local",
               "flatten_emergency"}
Request == [sev : HaltSeverity, act : HaltAction]

ASSUME RequestsAssumption == Requests \subseteq Request
ASSUME BoundsAssumption == /\ Cooldown \in Nat
                           /\ MaxHistory \in Nat \ {0}
                           /\ MaxHalts \in Nat
ASSUME FaultsAssumption == StorageFaults \in BOOLEAN
ASSUME ResetAssumption == ManualReset \in BOOLEAN

VARIABLES
    triggered,  \* _triggered
    hist,       \* _halt_history
    file,       \* the events of halt_history.json that can be parsed
    age,        \* ticks since _last_trigger_time, counted up to Cooldown
    halts,      \* history: number of halts so far
    asked,      \* history: requests made since the switch was triggered
    sound       \* history: no write of the file has failed or been torn

switchVars == <<triggered, hist, file, age, halts, asked, sound>>

\* HaltEvent.  ack stands for acknowledged_by, code for
\* recovery_approval_code, rec for the recovery; the hash and the context of
\* a halt are left out.
HaltEvent == [id : Nat, sev : HaltSeverity, act : HaltAction,
              ack : BOOLEAN, code : BOOLEAN, rec : BOOLEAN]

SwitchTypeOK ==
    /\ triggered \in BOOLEAN
    /\ hist \in Seq(HaltEvent)
    /\ file \in Seq(HaltEvent)
    /\ Len(hist) <= MaxHistory
    /\ Len(file) <= MaxHistory
    /\ age \in 0..Cooldown
    /\ halts \in 0..MaxHalts
    /\ asked \subseteq Requests
    /\ sound \in BOOLEAN
    /\ triggered => hist # <<>>

SwitchInit ==
    /\ triggered = FALSE
    /\ hist = <<>>
    /\ file = <<>>
    /\ age = 0
    /\ halts = 0
    /\ asked = {}
    /\ sound = TRUE

current_halt == hist[Len(hist)]

-----------------------------------------------------------------------------
(* _save_history and _load_history.                                         *)

\* The file is opened for writing and so emptied before the JSON goes out.
\* An exception is swallowed: the old file, or nothing readable, is left.
Save(h) == \/ file' = h /\ UNCHANGED sound
           \/ StorageFaults /\ file' \in {file, <<>>} /\ sound' = FALSE

\* The approval code is not among the fields read back.
Loaded(h) == [i \in DOMAIN h |-> [h[i] EXCEPT !.code = FALSE]]

-----------------------------------------------------------------------------
\* Mutant: any later request replaces the reason.
MoreSevereAlways(sev, than) == TRUE

\* reason.severity.value < current.severity.value: the words are compared.
MoreSevere(sev, than) ==
    LET place == [critical |-> 1, high |-> 2, low |-> 3, medium |-> 4]
    IN place[sev] < place[than]

\* Mutant: the oldest halts are kept.
TrimOldest(h) == IF Len(h) > MaxHistory THEN SubSeq(h, 1, MaxHistory) ELSE h

\* Mutant: the history is not trimmed.
TrimNever(h) == h

\* The last MAX_HALT_HISTORY events.
Trim(h) == IF Len(h) > MaxHistory THEN Tail(h) ELSE h

NewEvent(r) == [id |-> halts + 1, sev |-> r.sev, act |-> r.act,
                ack |-> FALSE, code |-> FALSE, rec |-> FALSE]

\* A first trigger carries out its action and is recorded.
TriggerFirst(r) ==
    /\ ~triggered
    /\ halts < MaxHalts
    /\ halts' = halts + 1
    /\ triggered' = TRUE
    /\ age' = 0
    /\ hist' = Trim(Append(hist, NewEvent(r)))
    /\ Save(hist')
    /\ asked' = {r}

\* A later one at most replaces the reason, in memory.
TriggerAgain(r) ==
    /\ triggered
    /\ hist' = IF MoreSevere(r.sev, current_halt.sev)
               THEN [hist EXCEPT ![Len(hist)].sev = r.sev]
               ELSE hist
    /\ asked' = asked \cup {r}
    /\ UNCHANGED <<triggered, file, age, halts, sound>>

trigger(r) == TriggerFirst(r) \/ TriggerAgain(r)

\* With a code of the right form; any other returns False.
acknowledge ==
    /\ triggered
    /\ hist' = [hist EXCEPT ![Len(hist)].ack = TRUE,
                            ![Len(hist)].code = TRUE]
    /\ Save(hist')
    /\ UNCHANGED <<triggered, age, halts, asked>>

\* Mutant: reset() does not ask for the acknowledgment.
CanResetUnsigned == age = Cooldown

\* reset() does something: the halt was acknowledged, or need not be, and the
\* cooldown is over.
CanReset == (current_halt.ack \/ ~ManualReset) /\ age = Cooldown

reset ==
    /\ triggered
    /\ CanReset
    /\ hist' = [hist EXCEPT ![Len(hist)].rec = TRUE]
    /\ Save(hist')
    /\ triggered' = FALSE
    /\ asked' = {}
    /\ UNCHANGED <<age, halts>>

Tick ==
    /\ triggered
    /\ age < Cooldown
    /\ age' = age + 1
    /\ UNCHANGED <<triggered, hist, file, halts, asked, sound>>

\* The process dies, maybe while it writes the file, and a new manager loads
\* the history.  It starts untriggered.
Restart ==
    /\ \/ UNCHANGED <<file, sound>>
       \/ StorageFaults /\ file' = <<>> /\ sound' = FALSE
    /\ hist' = Loaded(file')
    /\ triggered' = FALSE
    /\ age' = 0
    /\ asked' = {}
    /\ UNCHANGED halts

SwitchNext ==
    \/ \E r \in Requests : trigger(r)
    \/ acknowledge
    \/ reset
    \/ Tick
    \/ Restart

SwitchSpec == SwitchInit /\ [][SwitchNext]_switchVars

-----------------------------------------------------------------------------
(* Properties.                                                              *)

\* Where the configuration asks for a manual reset, a halt marked recovered,
\* in memory or in the file, was acknowledged: also after failed writes,
\* restarts, trimming and changes of its reason.
RecoveredWasApproved ==
    ManualReset =>
        /\ \A i \in DOMAIN hist : hist[i].rec => hist[i].ack
        /\ \A i \in DOMAIN file : file[i].rec => file[i].ack

\* The halt in force is CRITICAL once a CRITICAL request was made, and at
\* least HIGH once a HIGH one was, in whatever order they came.
SevereStays ==
    triggered => \A r \in asked :
        /\ r.sev = "critical" => current_halt.sev = "critical"
        /\ r.sev = "high" => current_halt.sev \in {"critical", "high"}

\* Until a write of it fails or is torn, the history file is the complete
\* record of the latest halts, in order, up to MAX_HALT_HISTORY of them, across
\* restarts and overflows ("Records halt events for audit", kill_switch.py:263).
TraceIsComplete ==
    sound =>
        /\ Len(file) = IF halts < MaxHistory THEN halts ELSE MaxHistory
        /\ \A i \in DOMAIN file : file[i].id = (halts - Len(file)) + i

=============================================================================

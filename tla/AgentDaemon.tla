---------------------------- MODULE AgentDaemon ----------------------------
(***************************************************************************)
(* AgentDaemon (packages/agent/daemon/agentd.py) over its kill switch: the *)
(* lifecycle state, the stop event and the heartbeat threads that start()  *)
(* launches.  Every lifecycle operation holds the daemon's RLock from end  *)
(* to end and is one action; acknowledge_halt only takes the switch's own  *)
(* lock.  halt() is the daemon's only way to trigger the switch; the       *)
(* switch's callback sets HALTED, which halt() then sets again.            *)
(***************************************************************************)
EXTENDS KillSwitch

CONSTANT MaxStarts   \* bound: number of successful start() calls per process

ASSUME StartsAssumption == MaxStarts \in Nat

VARIABLES
    dstate,     \* DaemonState between two operations
    guarded,    \* _kill_switch was created
    stopEvent,  \* _stop_event is set
    starts,     \* number of heartbeat threads launched
    heart       \* step of each of them

daemonOnly == <<dstate, guarded, stopEvent, starts, heart>>
daemonVars == <<switchVars, daemonOnly>>

DaemonState == {"created", "idle", "running", "paused", "stopped", "halted",
                "error"}
Hearts == 1..MaxStarts

DaemonTypeOK ==
    /\ SwitchTypeOK
    /\ dstate \in DaemonState
    /\ guarded \in BOOLEAN
    /\ stopEvent \in BOOLEAN
    /\ starts \in 0..MaxStarts
    /\ heart \in [Hearts -> {"off", "check", "wait", "gone"}]

DaemonInit ==
    /\ SwitchInit
    /\ dstate = "created"
    /\ guarded = FALSE
    /\ stopEvent = FALSE
    /\ starts = 0
    /\ heart = [h \in Hearts |-> "off"]

-----------------------------------------------------------------------------
(* Lifecycle.                                                               *)

\* A component's failure may come before or after the kill switch is built.
initialize ==
    /\ dstate = "created"
    /\ \/ dstate' = "idle" /\ guarded' = TRUE
       \/ dstate' = "error" /\ guarded' \in BOOLEAN
    /\ UNCHANGED <<switchVars, stopEvent, starts, heart>>

\* From IDLE, STOPPED and PAUSED, with the kill switch (if any) untriggered;
\* a failed preflight changes nothing.
CanStart == /\ dstate \in {"idle", "stopped", "paused"}
            /\ ~(guarded /\ triggered)

\* The threads are launched; an exception of theirs or of the sandbox leaves
\* ERROR.  The stop event is not cleared.
start ==
    /\ CanStart
    /\ starts < MaxStarts
    /\ starts' = starts + 1
    /\ \/ /\ dstate' \in {"running", "error"}
          /\ heart' = [heart EXCEPT ![starts + 1] = "check"]
       \/ dstate' = "error" /\ UNCHANGED heart
    /\ UNCHANGED <<switchVars, guarded, stopEvent>>

\* An exception (sandbox, telemetry, saving the state) leaves ERROR.
stop ==
    /\ dstate \notin {"stopped", "created"}
    /\ stopEvent' = TRUE
    /\ dstate' \in {"stopped", "error"}
    /\ UNCHANGED <<switchVars, guarded, starts, heart>>

pause ==
    /\ dstate = "running"
    /\ dstate' = "paused"
    /\ UNCHANGED <<switchVars, guarded, stopEvent, starts, heart>>

resume ==
    /\ dstate = "paused"
    /\ ~(guarded /\ triggered)
    /\ dstate' = "running"
    /\ UNCHANGED <<switchVars, guarded, stopEvent, starts, heart>>

-----------------------------------------------------------------------------
(* Halting and the way back.                                                *)

\* In any state; without a kill switch only the state changes.
halt(r) ==
    /\ IF guarded THEN trigger(r) ELSE UNCHANGED switchVars
    /\ dstate' = "halted"
    /\ UNCHANGED <<guarded, stopEvent, starts, heart>>

acknowledge_halt ==
    /\ guarded
    /\ acknowledge
    /\ UNCHANGED daemonOnly

\* Mutant: the answer of the kill switch's reset() is not looked at.
ResetHaltUnchecked ==
    /\ dstate = "halted"
    /\ IF guarded /\ triggered /\ CanReset THEN reset ELSE UNCHANGED switchVars
    /\ dstate' = "idle"
    /\ UNCHANGED <<guarded, stopEvent, starts, heart>>

\* Mutant: the state is not set back.
ResetHaltStays ==
    /\ dstate = "halted"
    /\ \/ guarded /\ reset
       \/ (guarded => ~triggered) /\ UNCHANGED switchVars
    /\ UNCHANGED <<dstate, guarded, stopEvent, starts, heart>>

\* The switch resets (or there is none), and the daemon is IDLE again.  Refused
\* by the switch, or outside HALTED (where it answers True), nothing changes.
reset_halt ==
    /\ dstate = "halted"
    /\ \/ guarded /\ reset
       \/ (guarded => ~triggered) /\ UNCHANGED switchVars
    /\ dstate' = "idle"
    /\ UNCHANGED <<guarded, stopEvent, starts, heart>>

-----------------------------------------------------------------------------
(* _heartbeat_loop: look at the stop event, then send a heartbeat and wait. *)

\* Mutant: the loop does not look at the event.
HeartbeatCheckDeaf(h) ==
    /\ heart[h] = "check"
    /\ heart' = [heart EXCEPT ![h] = "wait"]
    /\ UNCHANGED <<switchVars, dstate, guarded, stopEvent, starts>>

HeartbeatCheck(h) ==
    /\ heart[h] = "check"
    /\ heart' = [heart EXCEPT ![h] = IF stopEvent THEN "gone" ELSE "wait"]
    /\ UNCHANGED <<switchVars, dstate, guarded, stopEvent, starts>>

HeartbeatWait(h) ==
    /\ heart[h] = "wait"
    /\ heart' = [heart EXCEPT ![h] = "check"]
    /\ UNCHANGED <<switchVars, dstate, guarded, stopEvent, starts>>

\* A new process: the daemon is created anew and the switch loads its file.
DaemonRestart ==
    /\ Restart
    /\ dstate' = "created"
    /\ guarded' = FALSE
    /\ stopEvent' = FALSE
    /\ starts' = 0
    /\ heart' = [h \in Hearts |-> "off"]

Heartbeat == \E h \in Hearts : HeartbeatCheck(h) \/ HeartbeatWait(h)

Lifecycle == initialize \/ start \/ stop \/ pause \/ resume

DaemonNext ==
    \/ Lifecycle
    \/ \E r \in Requests : halt(r)
    \/ acknowledge_halt
    \/ reset_halt
    \/ Tick /\ UNCHANGED daemonOnly
    \/ Heartbeat
    \/ DaemonRestart

DaemonSpec == DaemonInit /\ [][DaemonNext]_daemonVars

\* Threads of the process are scheduled, and a wait ends.
FairDaemonSpec ==
    /\ DaemonSpec
    /\ \A h \in Hearts :
          WF_daemonVars(HeartbeatCheck(h) \/ HeartbeatWait(h))

-----------------------------------------------------------------------------
(* Properties.                                                              *)

\* Under a triggered kill switch the daemon is down: it neither runs nor
\* waits to be started or resumed, in whatever order halts, stops, starts,
\* failures and resets come.
TriggeredIsDown == triggered => dstate \in {"halted", "stopped", "error"}

\* HALTED means that the kill switch holds the daemon, so that only an
\* acknowledged reset leads out: resetting never leaves one half behind.
HaltedIsTriggered == dstate = "halted" /\ guarded => triggered

\* Once the stop event is set, every heartbeat thread comes to its end, and
\* none outlives a stop (the thread stop() joined and the ones it did not).
StoppedHeartsEnd ==
    \A h \in Hearts :
        (stopEvent /\ heart[h] \in {"check", "wait"})
            ~> heart[h] \in {"gone", "off"}

=============================================================================

------------------------- MODULE AgentDaemon_proofs -------------------------
(***************************************************************************)
(* The kill switch keeps what it promises about severity, approval and its *)
(* record, for any set of requests, history length, cooldown and whatever  *)
(* happens to its file; and the daemon's lifecycle agrees with its switch, *)
(* for any number of starts and halts and any sequence of calls.  Every    *)
(* step of the daemon is a step of the switch or leaves it alone, so what  *)
(* is proved of the switch holds inside the daemon.                        *)
(***************************************************************************)
EXTENDS AgentDaemon, TLAPS

\* Replacing the last event of a history gives a history of the same length
\* whose other events are unchanged.
LEMMA AmendLast ==
    ASSUME NEW h \in Seq(HaltEvent), h # <<>>, NEW e \in HaltEvent
    PROVE  LET g == [h EXCEPT ![Len(h)] = e]
           IN /\ g \in Seq(HaltEvent)
              /\ Len(g) = Len(h)
              /\ g # <<>>
              /\ g[Len(g)] = e
              /\ \A i \in DOMAIN g : i \in DOMAIN h /\ (g[i] = h[i] \/ g[i] = e)
<1> DEFINE g == [h EXCEPT ![Len(h)] = e]
<1>1. Len(h) \in 1..Len(h) /\ DOMAIN h = 1..Len(h)
  OBVIOUS
<1>2. g \in [1..Len(h) -> HaltEvent]
  BY <1>1
<1>3. g \in Seq(HaltEvent) /\ Len(g) = Len(h)
  BY <1>1, <1>2
<1>4. g # <<>>
  BY <1>1, <1>3
<1>5. g[Len(g)] = e
  BY <1>1, <1>3
<1>6. \A i \in DOMAIN g : i \in DOMAIN h /\ (g[i] = h[i] \/ g[i] = e)
  BY <1>1, <1>2
<1> QED
  BY <1>3, <1>4, <1>5, <1>6

\* Recording an event and trimming: the event is the last one, and nothing
\* else is new.
LEMMA RecordLast ==
    ASSUME NEW h \in Seq(HaltEvent), Len(h) <= MaxHistory,
           NEW e \in HaltEvent
    PROVE  LET g == Trim(Append(h, e))
           IN /\ g \in Seq(HaltEvent)
              /\ Len(g) <= MaxHistory
              /\ g # <<>>
              /\ g[Len(g)] = e
              /\ \A i \in DOMAIN g :
                    g[i] = e \/ \E j \in DOMAIN h : g[i] = h[j]
<1> DEFINE a == Append(h, e)
           g == Trim(a)
<1>1. /\ a \in Seq(HaltEvent)
      /\ Len(a) = Len(h) + 1
      /\ a[Len(a)] = e
      /\ \A i \in 1..Len(h) : a[i] = h[i]
  OBVIOUS
<1>2. MaxHistory \in Nat /\ MaxHistory >= 1 /\ Len(h) \in Nat
  BY BoundsAssumption
<1>3. CASE Len(a) > MaxHistory
  <2>1. g = Tail(a)
    BY <1>3 DEF Trim
  <2>2. /\ g \in Seq(HaltEvent)
        /\ Len(g) = Len(h)
        /\ \A i \in 1..Len(h) : g[i] = a[i + 1]
    BY <1>1, <1>2, <2>1
  <2>3. Len(h) >= 1
    BY <1>1, <1>2, <1>3
  <2>4. g[Len(g)] = e
    BY <1>1, <1>2, <2>2, <2>3
  <2>5. ASSUME NEW i \in DOMAIN g
        PROVE  g[i] = e \/ \E j \in DOMAIN h : g[i] = h[j]
    <3>1. i \in 1..Len(h) /\ g[i] = a[i + 1]
      BY <2>2
    <3>2. CASE i = Len(h)
      BY <3>1, <3>2, <1>1, <1>2
    <3>3. CASE i # Len(h)
      <4>1. i + 1 \in 1..Len(h)
        BY <3>1, <3>3, <1>2
      <4>2. g[i] = h[i + 1] /\ i + 1 \in DOMAIN h
        BY <3>1, <4>1, <1>1
      <4> QED
        BY <4>2
    <3> QED
      BY <3>2, <3>3
  <2> QED
    BY <2>2, <2>3, <2>4, <2>5, <1>2
<1>4. CASE ~(Len(a) > MaxHistory)
  <2>1. g = a
    BY <1>4 DEF Trim
  <2>2. ASSUME NEW i \in DOMAIN a
        PROVE  a[i] = e \/ \E j \in DOMAIN h : a[i] = h[j]
    <3>1. i \in 1..(Len(h) + 1)
      BY <1>1
    <3>2. CASE i = Len(h) + 1
      BY <3>2, <1>1
    <3>3. CASE i # Len(h) + 1
      <4>1. i \in 1..Len(h)
        BY <3>1, <3>3, <1>2
      <4>2. a[i] = h[i] /\ i \in DOMAIN h
        BY <4>1, <1>1
      <4> QED
        BY <4>2
    <3> QED
      BY <3>2, <3>3
  <2> QED
    BY <2>1, <2>2, <1>1, <1>2, <1>4
<1> QED
  BY <1>3, <1>4

\* The comparison of words keeps CRITICAL and HIGH on top.
LEMMA WordsKeepSevere ==
    ASSUME NEW s \in HaltSeverity, NEW t \in HaltSeverity
    PROVE  /\ MoreSevere(s, "critical") = FALSE
           /\ t # "critical" => MoreSevere("critical", t)
           /\ MoreSevere(s, "high") => s = "critical"
           /\ t \notin {"critical", "high"} => MoreSevere("high", t)
  BY DEF HaltSeverity, MoreSevere

-----------------------------------------------------------------------------
(* The inductive invariant.                                                 *)

\* No event of a history is recovered without an acknowledgment, where one is
\* asked for.
Approved(h) == ManualReset => \A i \in DOMAIN h : h[i].rec => h[i].ack

SwitchInv == SwitchTypeOK /\ RecoveredWasApproved /\ SevereStays

\* What a step has to establish of the histories for the first two conjuncts.
HistoryOK(h) == /\ h \in Seq(HaltEvent)
                /\ Len(h) <= MaxHistory
                /\ Approved(h)

LEMMA LoadKeeps ==
    ASSUME NEW h, HistoryOK(h)
    PROVE  HistoryOK(Loaded(h))
<1> DEFINE g == Loaded(h)
<1>1. h \in [1..Len(h) -> HaltEvent] /\ Len(h) \in Nat /\ DOMAIN h = 1..Len(h)
  BY DEF HistoryOK
<1>2. \A i \in 1..Len(h) : g[i] \in HaltEvent
  BY <1>1 DEF Loaded, HaltEvent
<1>3. DOMAIN g = 1..Len(h) /\ g = [i \in 1..Len(h) |-> [h[i] EXCEPT !.code = FALSE]]
  BY <1>1 DEF Loaded
<1>4. g \in Seq(HaltEvent) /\ Len(g) = Len(h)
  BY <1>1, <1>2, <1>3
<1>5. Approved(g)
  <2> SUFFICES ASSUME ManualReset, NEW i \in DOMAIN g, g[i].rec PROVE g[i].ack
    BY DEF Approved
  <2>1. i \in DOMAIN h /\ h[i] \in HaltEvent
    BY <1>1, <1>3
  <2>2. g[i].rec = h[i].rec /\ g[i].ack = h[i].ack
    BY <2>1, <1>3 DEF HaltEvent
  <2> QED
    BY <2>1, <2>2 DEF HistoryOK, Approved
<1> QED
  BY <1>4, <1>5 DEF HistoryOK

LEMMA EmptyOK == HistoryOK(<<>>)
  BY BoundsAssumption DEF HistoryOK, Approved

\* Whatever becomes of a write, the file holds a good history.
LEMMA SaveKeeps ==
    ASSUME NEW h, HistoryOK(h), HistoryOK(file), Save(h)
    PROVE  HistoryOK(file')
  BY EmptyOK DEF Save

\* A write that leaves the storage sound has written the history.
LEMMA SaveSound ==
    ASSUME NEW h, sound \in BOOLEAN, Save(h)
    PROVE  sound' \in BOOLEAN /\ (sound' => sound /\ file' = h)
<1>1. CASE file' = h /\ sound' = sound
  BY <1>1
<1>2. CASE sound' = FALSE
  BY <1>2
<1> QED
  BY <1>1, <1>2 DEF Save

\* Amending the last event keeps a history good if the event is good.
LEMMA AmendKeeps ==
    ASSUME NEW h, HistoryOK(h), h # <<>>,
           NEW e \in HaltEvent, ManualReset /\ e.rec => e.ack
    PROVE  HistoryOK([h EXCEPT ![Len(h)] = e])
<1> DEFINE g == [h EXCEPT ![Len(h)] = e]
<1>1. /\ g \in Seq(HaltEvent)
      /\ Len(g) = Len(h)
      /\ \A i \in DOMAIN g : i \in DOMAIN h /\ (g[i] = h[i] \/ g[i] = e)
  BY AmendLast DEF HistoryOK
<1>2. Approved(g)
  BY <1>1 DEF HistoryOK, Approved
<1> QED
  BY <1>1, <1>2 DEF HistoryOK

LEMMA InitSwitch == SwitchInit => SwitchInv
<1> SUFFICES ASSUME SwitchInit PROVE SwitchInv
  OBVIOUS
<1>1. HistoryOK(hist) /\ HistoryOK(file)
  BY EmptyOK DEF SwitchInit
<1>2. ~triggered /\ triggered \in BOOLEAN
  BY DEF SwitchInit
<1>3. age \in 0..Cooldown /\ halts \in 0..MaxHalts
  BY BoundsAssumption DEF SwitchInit
<1>4. asked \subseteq Requests /\ sound \in BOOLEAN
  BY DEF SwitchInit
<1> QED
  BY <1>1, <1>2, <1>3, <1>4 DEF SwitchInv, SwitchTypeOK, HistoryOK, Approved,
     RecoveredWasApproved, SevereStays

\* The invariant says that both histories are good.
LEMMA InvHistories ==
    SwitchInv => HistoryOK(hist) /\ HistoryOK(file)
  BY DEF SwitchInv, SwitchTypeOK, RecoveredWasApproved, HistoryOK, Approved

\* The last event of a triggered switch is an event.
LEMMA CurrentIsEvent ==
    ASSUME SwitchTypeOK, triggered
    PROVE  current_halt \in HaltEvent
<1>1. Len(hist) \in 1..Len(hist)
  BY DEF SwitchTypeOK
<1> QED
  BY <1>1 DEF SwitchTypeOK, current_halt

LEMMA FirstKeeps ==
    ASSUME SwitchInv, NEW r \in Requests, TriggerFirst(r)
    PROVE  SwitchInv'
<1> DEFINE e == NewEvent(r)
<1>1. e \in HaltEvent /\ ~e.rec /\ e.sev = r.sev /\ r \in Request
  BY RequestsAssumption, BoundsAssumption
     DEF NewEvent, HaltEvent, Request, SwitchInv, SwitchTypeOK
<1>2. hist' = Trim(Append(hist, e)) /\ Save(hist')
  BY DEF TriggerFirst
<1>3. /\ hist' \in Seq(HaltEvent)
      /\ Len(hist') <= MaxHistory
      /\ hist' # <<>>
      /\ hist'[Len(hist')] = e
      /\ \A i \in DOMAIN hist' :
            hist'[i] = e \/ \E j \in DOMAIN hist : hist'[i] = hist[j]
  <2>1. hist \in Seq(HaltEvent) /\ Len(hist) <= MaxHistory
    BY DEF SwitchInv, SwitchTypeOK
  <2> DEFINE g == Trim(Append(hist, e))
  <2>2. e \in HaltEvent
    BY <1>1
  <2> HIDE DEF e
  <2>3. /\ g \in Seq(HaltEvent)
        /\ Len(g) <= MaxHistory
        /\ g # <<>>
        /\ g[Len(g)] = e
        /\ \A i \in DOMAIN g :
              g[i] = e \/ \E j \in DOMAIN hist : g[i] = hist[j]
    BY <2>1, <2>2, RecordLast, Zenon
  <2>4. hist' = g
    BY <1>2
  <2> HIDE DEF g
  <2> QED
    BY <2>3, <2>4, Zenon
<1>4. HistoryOK(hist')
  BY <1>1, <1>3, InvHistories DEF HistoryOK, Approved
<1>5. HistoryOK(file')
  BY <1>2, <1>4, SaveKeeps, InvHistories
<1>6. sound' \in BOOLEAN
  BY SaveSound DEF TriggerFirst, SwitchInv, SwitchTypeOK
<1>7. SwitchTypeOK'
  BY <1>3, <1>5, <1>6, BoundsAssumption DEF TriggerFirst, HistoryOK, SwitchInv, SwitchTypeOK
<1>8. SevereStays'
  BY <1>1, <1>3 DEF TriggerFirst, SevereStays, current_halt
<1> QED
  BY <1>4, <1>5, <1>7, <1>8 DEF SwitchInv, RecoveredWasApproved, HistoryOK, Approved

LEMMA AgainKeeps ==
    ASSUME SwitchInv, NEW r \in Requests, TriggerAgain(r)
    PROVE  SwitchInv'
<1> DEFINE c == current_halt
           e == [c EXCEPT !.sev = r.sev]
<1>1. c \in HaltEvent /\ hist # <<>> /\ r \in Request /\ hist \in Seq(HaltEvent)
  BY CurrentIsEvent, RequestsAssumption DEF TriggerAgain, SwitchInv, SwitchTypeOK
<1>2. e \in HaltEvent /\ e.rec = c.rec /\ e.ack = c.ack /\ e.sev = r.sev
  BY <1>1 DEF HaltEvent, Request
<1>3. ManualReset /\ c.rec => c.ack
  BY <1>1, InvHistories DEF HistoryOK, Approved, current_halt
<1>4. CASE MoreSevere(r.sev, c.sev)
  <2>1. hist' = [hist EXCEPT ![Len(hist)] = e]
    BY <1>1, <1>4 DEF TriggerAgain, current_halt
  <2>2. HistoryOK(hist')
    BY <1>1, <1>2, <1>3, <2>1, AmendKeeps, InvHistories
  <2>3. hist' # <<>> /\ hist'[Len(hist')] = e
    BY <1>1, <1>2, <2>1, AmendLast
  <2>4. SwitchTypeOK'
    BY <2>2, <2>3 DEF TriggerAgain, HistoryOK, SwitchInv, SwitchTypeOK
  <2>5. SevereStays'
    <3> SUFFICES ASSUME NEW q \in asked \cup {r}
                 PROVE  /\ q.sev = "critical" => r.sev = "critical"
                        /\ q.sev = "high" => r.sev \in {"critical", "high"}
      BY <1>2, <2>3 DEF TriggerAgain, SevereStays, current_halt
    <3>1. c.sev \in HaltSeverity /\ r.sev \in HaltSeverity
      BY <1>1 DEF HaltEvent, Request
    <3>2. CASE q = r
      BY <3>2
    <3>3. CASE q \in asked
      <4>1. /\ q.sev = "critical" => c.sev = "critical"
            /\ q.sev = "high" => c.sev \in {"critical", "high"}
        BY <3>3 DEF SwitchInv, SevereStays, TriggerAgain
      <4> QED
        BY <4>1, <3>1, <1>4, WordsKeepSevere
    <3> QED
      BY <3>2, <3>3
  <2> QED
    BY <2>2, <2>4, <2>5, InvHistories
       DEF TriggerAgain, SwitchInv, RecoveredWasApproved, HistoryOK, Approved
<1>5. CASE ~MoreSevere(r.sev, c.sev)
  <2>1. hist' = hist
    BY <1>5 DEF TriggerAgain
  <2>2. SevereStays'
    <3> SUFFICES ASSUME NEW q \in asked \cup {r}
                 PROVE  /\ q.sev = "critical" => c.sev = "critical"
                        /\ q.sev = "high" => c.sev \in {"critical", "high"}
      BY <2>1 DEF TriggerAgain, SevereStays, current_halt
    <3>1. c.sev \in HaltSeverity /\ r.sev \in HaltSeverity
      BY <1>1 DEF HaltEvent, Request
    <3>2. CASE q = r
      BY <3>1, <3>2, <1>5, WordsKeepSevere
    <3>3. CASE q \in asked
      BY <3>3 DEF SwitchInv, SevereStays, TriggerAgain
    <3> QED
      BY <3>2, <3>3
  <2>3. SwitchTypeOK' /\ RecoveredWasApproved'
    BY <2>1 DEF TriggerAgain, SwitchInv, SwitchTypeOK, RecoveredWasApproved
  <2> QED
    BY <2>2, <2>3 DEF SwitchInv
<1> QED
  BY <1>4, <1>5

LEMMA AcknowledgeKeeps ==
    ASSUME SwitchInv, acknowledge
    PROVE  SwitchInv'
<1> DEFINE c == current_halt
           e == [c EXCEPT !.ack = TRUE, !.code = TRUE]
<1>1. c \in HaltEvent /\ hist # <<>> /\ hist \in Seq(HaltEvent)
  BY CurrentIsEvent DEF acknowledge, SwitchInv, SwitchTypeOK
<1>2. e \in HaltEvent /\ e.ack /\ e.sev = c.sev
  BY <1>1 DEF HaltEvent
<1>3. Len(hist) \in 1..Len(hist) /\ DOMAIN hist = 1..Len(hist)
  BY <1>1
<1>4. hist' = [hist EXCEPT ![Len(hist)] = e]
  BY <1>1, <1>3 DEF acknowledge, current_halt
<1>5. HistoryOK(hist')
  BY <1>1, <1>2, <1>4, AmendKeeps, InvHistories
<1>6. hist' # <<>> /\ hist'[Len(hist')] = e
  BY <1>1, <1>2, <1>4, AmendLast
<1>7. HistoryOK(file')
  BY <1>5, SaveKeeps, InvHistories DEF acknowledge
<1>8. sound' \in BOOLEAN
  BY SaveSound DEF acknowledge, SwitchInv, SwitchTypeOK
<1>9. SwitchTypeOK'
  BY <1>1, <1>5, <1>6, <1>7, <1>8
  DEF acknowledge, HistoryOK, SwitchInv, SwitchTypeOK, HaltEvent
<1>10. SevereStays'
  BY <1>2, <1>6 DEF acknowledge, SwitchInv, SevereStays, current_halt
<1> QED
  BY <1>5, <1>7, <1>9, <1>10 DEF SwitchInv, RecoveredWasApproved, HistoryOK, Approved

LEMMA ResetKeeps ==
    ASSUME SwitchInv, reset
    PROVE  SwitchInv'
<1> DEFINE c == current_halt
           e == [c EXCEPT !.rec = TRUE]
<1>1. c \in HaltEvent /\ hist # <<>> /\ hist \in Seq(HaltEvent)
  BY CurrentIsEvent DEF reset, SwitchInv, SwitchTypeOK
<1>2. e \in HaltEvent /\ (ManualReset => e.ack)
  BY <1>1 DEF HaltEvent, reset, CanReset
<1>3. hist' = [hist EXCEPT ![Len(hist)] = e]
  BY <1>1 DEF reset, current_halt
<1>4. HistoryOK(hist')
  BY <1>1, <1>2, <1>3, AmendKeeps, InvHistories
<1>5. HistoryOK(file')
  BY <1>4, SaveKeeps, InvHistories DEF reset
<1>6. sound' \in BOOLEAN
  BY SaveSound DEF reset, SwitchInv, SwitchTypeOK
<1>7. SwitchTypeOK' /\ SevereStays'
  BY <1>4, <1>5, <1>6 DEF reset, HistoryOK, SwitchInv, SwitchTypeOK, SevereStays
<1> QED
  BY <1>4, <1>5, <1>7 DEF SwitchInv, RecoveredWasApproved, HistoryOK, Approved

LEMMA RestartKeeps ==
    ASSUME SwitchInv, Restart
    PROVE  SwitchInv'
<1>1. HistoryOK(file')
  BY EmptyOK, InvHistories DEF Restart
<1>2. HistoryOK(hist')
  BY <1>1, LoadKeeps DEF Restart
<1>3. ~triggered' /\ triggered' \in BOOLEAN
  BY DEF Restart
<1>4. age' \in 0..Cooldown /\ halts' \in 0..MaxHalts
  BY BoundsAssumption DEF Restart, SwitchInv, SwitchTypeOK
<1>5. asked' \subseteq Requests /\ sound' \in BOOLEAN
  BY DEF Restart, SwitchInv, SwitchTypeOK
<1>6. SwitchTypeOK' /\ SevereStays'
  BY <1>1, <1>2, <1>3, <1>4, <1>5 DEF HistoryOK, SwitchTypeOK, SevereStays
<1> QED
  BY <1>1, <1>2, <1>6 DEF SwitchInv, RecoveredWasApproved, HistoryOK, Approved

LEMMA TickKeeps ==
    ASSUME SwitchInv, Tick
    PROVE  SwitchInv'
  BY BoundsAssumption DEF Tick, SwitchInv, SwitchTypeOK,
     RecoveredWasApproved, SevereStays, current_halt

LEMMA StutterKeeps ==
    ASSUME SwitchInv, UNCHANGED switchVars
    PROVE  SwitchInv'
  BY DEF switchVars, SwitchInv, SwitchTypeOK, RecoveredWasApproved,
         SevereStays, current_halt

LEMMA SwitchStep == SwitchInv /\ [SwitchNext]_switchVars => SwitchInv'
<1> SUFFICES ASSUME SwitchInv, [SwitchNext]_switchVars PROVE SwitchInv'
  OBVIOUS
<1>1. CASE \E r \in Requests : trigger(r)
  BY <1>1, FirstKeeps, AgainKeeps DEF trigger
<1>2. CASE acknowledge
  BY <1>2, AcknowledgeKeeps
<1>3. CASE reset
  BY <1>3, ResetKeeps
<1>4. CASE Tick
  BY <1>4, TickKeeps
<1>5. CASE Restart
  BY <1>5, RestartKeeps
<1>6. CASE UNCHANGED switchVars
  BY <1>6, StutterKeeps
<1> QED
  BY <1>1, <1>2, <1>3, <1>4, <1>5, <1>6 DEF SwitchNext

LEMMA SwitchInvariant == SwitchSpec => []SwitchInv
  BY InitSwitch, SwitchStep, PTL DEF SwitchSpec

\* The state of the kill switch keeps its type, and neither history grows
\* beyond MAX_HALT_HISTORY.
THEOREM SwitchIsTyped == SwitchSpec => []SwitchTypeOK
  BY SwitchInvariant, PTL DEF SwitchInv

\* With require_manual_reset, no history, in memory or on disk, ever shows a
\* halt recovered without an acknowledgment, whatever writes fail, whenever the
\* process dies and however often the reason is replaced.
THEOREM RecoveryWasApproved == SwitchSpec => []RecoveredWasApproved
  BY SwitchInvariant, PTL DEF SwitchInv

\* trigger() never lets a weaker request displace a CRITICAL or HIGH reason,
\* and always lets a CRITICAL or HIGH one displace a weaker reason.
THEOREM SevereReasonStays == SwitchSpec => []SevereStays
  BY SwitchInvariant, PTL DEF SwitchInv

-----------------------------------------------------------------------------
(***************************************************************************)
(* The file as a record.  Until a write fails, memory and file hold        *)
(* the same halts, the latest ones in order: a history is numbered without *)
(* a gap up to the last halt, as long as the bound allows.                 *)
(***************************************************************************)
Numbered(h, n) == /\ Len(h) = IF n < MaxHistory THEN n ELSE MaxHistory
                  /\ \A i \in DOMAIN h : h[i].id = (n - Len(h)) + i

Records == Numbered(hist, halts) /\ Numbered(file, halts)

TraceInv == sound => Records

\* Amending the last event keeps the numbers if it keeps the number of that
\* event.
LEMMA AmendNumbered ==
    ASSUME NEW n \in Nat, NEW h \in Seq(HaltEvent), h # <<>>, Numbered(h, n),
           NEW e \in HaltEvent, e.id = h[Len(h)].id
    PROVE  Numbered([h EXCEPT ![Len(h)] = e], n)
<1> DEFINE g == [h EXCEPT ![Len(h)] = e]
<1>1. g \in Seq(HaltEvent) /\ Len(g) = Len(h)
  BY AmendLast
<1>2. DOMAIN g = 1..Len(h) /\ DOMAIN h = 1..Len(h)
  BY <1>1
<1>3. \A i \in 1..Len(h) : g[i].id = h[i].id
  <2>1. \A i \in 1..Len(h) : g[i] = IF i = Len(h) THEN e ELSE h[i]
    BY <1>2
  <2> QED
    BY <2>1
<1> QED
  BY <1>1, <1>2, <1>3 DEF Numbered

\* Recording the next halt, trimmed or not, keeps the numbers.
LEMMA RecordNumbered ==
    ASSUME NEW n \in Nat, NEW h \in Seq(HaltEvent), Numbered(h, n),
           NEW e \in HaltEvent, e.id = n + 1
    PROVE  Numbered(Trim(Append(h, e)), n + 1)
<1> DEFINE a == Append(h, e)
           g == Trim(a)
<1>1. /\ a \in Seq(HaltEvent)
      /\ Len(a) = Len(h) + 1 /\ Len(h) \in Nat
      /\ a[Len(h) + 1] = e
      /\ \A i \in 1..Len(h) : a[i] = h[i]
      /\ DOMAIN h = 1..Len(h) /\ DOMAIN a = 1..(Len(h) + 1)
  OBVIOUS
<1>2. MaxHistory \in Nat /\ MaxHistory >= 1
  BY BoundsAssumption
<1>3. /\ Len(h) = IF n < MaxHistory THEN n ELSE MaxHistory
      /\ \A i \in 1..Len(h) : h[i].id = (n - Len(h)) + i
  BY <1>1 DEF Numbered
<1>4. \A i \in 1..(Len(h) + 1) : a[i].id = (n - Len(h)) + i
  <2>1. a[Len(h) + 1].id = (n - Len(h)) + (Len(h) + 1)
    BY <1>1
  <2>2. \A i \in 1..Len(h) : a[i].id = (n - Len(h)) + i
    BY <1>1, <1>3
  <2>3. \A i \in 1..(Len(h) + 1) : i \in 1..Len(h) \/ i = Len(h) + 1
    BY <1>1
  <2> HIDE DEF a
  <2> QED
    BY <2>1, <2>2, <2>3
<1>5. CASE n < MaxHistory
  <2>1. g = a /\ Len(h) = n
    BY <1>1, <1>2, <1>3, <1>5 DEF Trim
  <2>2. Len(a) = IF n + 1 < MaxHistory THEN n + 1 ELSE MaxHistory
    BY <1>1, <1>2, <1>5, <2>1
  <2>3. \A i \in DOMAIN a : a[i].id = ((n + 1) - Len(a)) + i
    BY <1>1, <1>4, <2>1
  <2> QED
    BY <2>1, <2>2, <2>3 DEF Numbered
<1>6. CASE ~(n < MaxHistory)
  <2>1. Len(h) = MaxHistory /\ g = Tail(a)
    BY <1>1, <1>2, <1>3, <1>6 DEF Trim
  <2>2. /\ Len(g) = Len(h) /\ DOMAIN g = 1..Len(h)
        /\ \A i \in 1..Len(h) : g[i] = a[i + 1]
    BY <1>1, <2>1
  <2>3. Len(g) = IF n + 1 < MaxHistory THEN n + 1 ELSE MaxHistory
    BY <1>2, <1>6, <2>1, <2>2
  <2> HIDE DEF a, g
  <2>4. \A i \in 1..Len(h) : g[i].id = ((n + 1) - Len(h)) + i
    <3> SUFFICES ASSUME NEW i \in 1..Len(h)
                 PROVE  g[i].id = ((n + 1) - Len(h)) + i
      OBVIOUS
    <3>1. i + 1 \in 1..(Len(h) + 1) /\ i \in Nat
      BY <1>1
    <3>2. g[i].id = (n - Len(h)) + (i + 1)
      BY <1>4, <2>2, <3>1
    <3> QED
      BY <1>1, <3>1, <3>2
  <2>5. \A i \in DOMAIN g : g[i].id = ((n + 1) - Len(g)) + i
    BY <2>2, <2>4
  <2>6. Numbered(g, n + 1)
    BY <2>3, <2>5 DEF Numbered
  <2> QED
    BY <2>6 DEF g, a
<1> QED
  BY <1>5, <1>6

\* Loading a history keeps the numbers.
LEMMA LoadNumbered ==
    ASSUME NEW n \in Nat, NEW h \in Seq(HaltEvent), Numbered(h, n)
    PROVE  Numbered(Loaded(h), n)
<1> DEFINE g == Loaded(h)
<1>1. h \in [1..Len(h) -> HaltEvent] /\ Len(h) \in Nat /\ DOMAIN h = 1..Len(h)
  OBVIOUS
<1>2. g = [i \in 1..Len(h) |-> [h[i] EXCEPT !.code = FALSE]]
  BY <1>1 DEF Loaded
<1>3. \A i \in 1..Len(h) : g[i] \in HaltEvent /\ g[i].id = h[i].id
  <2> SUFFICES ASSUME NEW i \in 1..Len(h)
               PROVE  g[i] \in HaltEvent /\ g[i].id = h[i].id
    OBVIOUS
  <2>1. h[i] \in HaltEvent /\ g[i] = [h[i] EXCEPT !.code = FALSE]
    BY <1>1, <1>2
  <2> HIDE DEF g
  <2> QED
    BY <2>1 DEF HaltEvent
<1>4. Len(g) = Len(h) /\ DOMAIN g = 1..Len(h)
  BY <1>1, <1>2, <1>3
<1> QED
  BY <1>1, <1>3, <1>4 DEF Numbered

\* Every operation whose write succeeds keeps both histories numbered.
LEMMA TraceStep ==
    ASSUME SwitchInv, TraceInv, [SwitchNext]_switchVars
    PROVE  TraceInv'
<1> SUFFICES ASSUME sound' PROVE Records'
  BY DEF TraceInv
<1>0. /\ halts \in Nat /\ hist \in Seq(HaltEvent) /\ file \in Seq(HaltEvent)
      /\ triggered => hist # <<>> /\ current_halt \in HaltEvent
      /\ sound \in BOOLEAN
  BY BoundsAssumption, CurrentIsEvent DEF SwitchInv, SwitchTypeOK
<1>s. ASSUME sound PROVE Records
  BY <1>s DEF TraceInv
<1>1. ASSUME NEW r \in Requests, TriggerFirst(r) PROVE Records'
  <2> DEFINE e == NewEvent(r)
  <2>1. e \in HaltEvent /\ e.id = halts + 1
    BY <1>0, RequestsAssumption DEF NewEvent, HaltEvent, Request
  <2>2. hist' = Trim(Append(hist, e)) /\ file' = hist' /\ halts' = halts + 1
    BY <1>0, <1>1, SaveSound DEF TriggerFirst
  <2> HIDE DEF e
  <2>s. Records
    BY <1>0, <1>1, <1>s, SaveSound DEF TriggerFirst
  <2>3. Numbered(Trim(Append(hist, e)), halts + 1)
    BY <1>0, <2>1, <2>s, RecordNumbered DEF Records
  <2> QED
    BY <2>2, <2>3 DEF Records
<1>2. ASSUME NEW e \in HaltEvent, triggered, Records, e.id = current_halt.id,
             hist' = [hist EXCEPT ![Len(hist)] = e], halts' = halts
      PROVE  Numbered(hist', halts')
  <2>1. Numbered([hist EXCEPT ![Len(hist)] = e], halts)
    BY <1>0, <1>2, AmendNumbered DEF Records, current_halt
  <2> QED
    BY <1>2, <2>1
<1>3. ASSUME NEW r \in Requests, TriggerAgain(r) PROVE Records'
  <2>s. Records
    BY <1>3, <1>s DEF TriggerAgain
  <2>1. CASE hist' = hist
    BY <1>3, <2>1, <2>s DEF TriggerAgain, Records
  <2>2. CASE hist' # hist
    <3> DEFINE e == [current_halt EXCEPT !.sev = r.sev]
    <3>1. e \in HaltEvent /\ e.id = current_halt.id
      BY <1>0, <1>3, RequestsAssumption DEF TriggerAgain, HaltEvent, Request
    <3>2. hist' = [hist EXCEPT ![Len(hist)] = e] /\ halts' = halts /\ file' = file
      BY <1>0, <1>3, <2>2 DEF TriggerAgain, current_halt
    <3> HIDE DEF e
    <3> QED
      BY <1>2, <1>3, <2>s, <3>1, <3>2 DEF TriggerAgain, Records
  <2> QED
    BY <2>1, <2>2
<1>4. ASSUME acknowledge PROVE Records'
  <2> DEFINE e == [current_halt EXCEPT !.ack = TRUE, !.code = TRUE]
  <2>1. e \in HaltEvent /\ e.id = current_halt.id
    BY <1>0, <1>4 DEF acknowledge, HaltEvent
  <2>2. Len(hist) \in 1..Len(hist) /\ DOMAIN hist = 1..Len(hist)
    BY <1>0, <1>4 DEF acknowledge
  <2>3. hist' = [hist EXCEPT ![Len(hist)] = e] /\ halts' = halts
    BY <1>0, <1>4, <2>2 DEF acknowledge, current_halt
  <2> HIDE DEF e
  <2>4. file' = hist'
    <3>1. Save(hist')
      BY <1>4 DEF acknowledge
    <3> QED
      BY <1>0, <3>1, SaveSound
  <2>s. Records
    BY <1>0, <1>4, <1>s, SaveSound DEF acknowledge
  <2> QED
    BY <1>2, <1>4, <2>s, <2>1, <2>3, <2>4 DEF acknowledge, Records
<1>5. ASSUME reset PROVE Records'
  <2> DEFINE e == [current_halt EXCEPT !.rec = TRUE]
  <2>1. e \in HaltEvent /\ e.id = current_halt.id
    BY <1>0, <1>5 DEF reset, HaltEvent
  <2>2. hist' = [hist EXCEPT ![Len(hist)] = e] /\ halts' = halts
    BY <1>0, <1>5 DEF reset, current_halt
  <2> HIDE DEF e
  <2>3. file' = hist'
    <3>1. Save(hist')
      BY <1>5 DEF reset
    <3> QED
      BY <1>0, <3>1, SaveSound
  <2>s. Records
    BY <1>0, <1>5, <1>s, SaveSound DEF reset
  <2> QED
    BY <1>2, <1>5, <2>s, <2>1, <2>2, <2>3 DEF reset, Records
<1>6. ASSUME Restart PROVE Records'
  <2>1. file' = file /\ hist' = Loaded(file) /\ halts' = halts
    BY <1>6 DEF Restart
  <2>s. Records
    BY <1>6, <1>s DEF Restart
  <2> QED
    BY <1>0, <2>s, <2>1, LoadNumbered DEF Records
<1>7. ASSUME Tick \/ UNCHANGED switchVars PROVE Records'
  BY <1>7, <1>s DEF Tick, switchVars, Records
<1> QED
  BY <1>1, <1>3, <1>4, <1>5, <1>6, <1>7 DEF SwitchNext, trigger

\* The empty history is the record of no halts.
LEMMA TraceInit == SwitchInit => TraceInv
  BY BoundsAssumption DEF SwitchInit, TraceInv, Records, Numbered

\* Until a write fails or is torn, halt_history.json is the record of the
\* latest halts, in order and without a gap, for any MAX_HALT_HISTORY, any
\* number of halts and restarts at any point.
THEOREM FileIsTheRecord == SwitchSpec => []TraceIsComplete
<1>1. SwitchInv /\ TraceInv /\ [SwitchNext]_switchVars => TraceInv'
  BY TraceStep
<1>2. TraceInv => TraceIsComplete
  BY DEF TraceInv, Records, Numbered, TraceIsComplete
<1> QED
  BY <1>1, <1>2, TraceInit, SwitchInvariant, PTL DEF SwitchSpec

-----------------------------------------------------------------------------
(* The daemon.                                                             *)

\* What a daemon without a kill switch cannot have.
TriggeredIsGuarded == triggered => guarded

DaemonInv ==
    /\ DaemonTypeOK
    /\ TriggeredIsDown
    /\ HaltedIsTriggered
    /\ TriggeredIsGuarded

\* The daemon changes the switch by the switch's own operations only.
LEMMA DaemonDrivesSwitch ==
    ASSUME DaemonNext
    PROVE  [SwitchNext]_switchVars
<1>1. CASE Lifecycle
  BY <1>1 DEF Lifecycle, initialize, start, stop, pause, resume
<1>2. CASE \E r \in Requests : halt(r)
  BY <1>2 DEF halt, SwitchNext
<1>3. CASE acknowledge_halt
  BY <1>3 DEF acknowledge_halt, SwitchNext
<1>4. CASE reset_halt
  BY <1>4 DEF reset_halt, SwitchNext
<1>5. CASE Tick /\ UNCHANGED daemonOnly
  BY <1>5 DEF SwitchNext
<1>6. CASE Heartbeat
  BY <1>6 DEF Heartbeat, HeartbeatCheck, HeartbeatWait
<1>7. CASE DaemonRestart
  BY <1>7 DEF DaemonRestart, SwitchNext
<1> QED
  BY <1>1, <1>2, <1>3, <1>4, <1>5, <1>6, <1>7 DEF DaemonNext

LEMMA InitDaemon == DaemonInit => DaemonInv /\ SwitchInv
<1> SUFFICES ASSUME DaemonInit PROVE DaemonInv /\ SwitchInv
  OBVIOUS
<1>1. SwitchInv
  BY InitSwitch DEF DaemonInit
<1>2. DaemonTypeOK
  <2>1. starts \in 0..MaxStarts
    BY StartsAssumption DEF DaemonInit
  <2>2. heart \in [Hearts -> {"off", "check", "wait", "gone"}]
    BY DEF DaemonInit
  <2>3. dstate \in DaemonState
    BY DEF DaemonInit, DaemonState
  <2>4. /\ guarded \in BOOLEAN
        /\ stopEvent \in BOOLEAN
    BY DEF DaemonInit
  <2> QED
    BY <1>1, <2>1, <2>2, <2>3, <2>4 DEF DaemonTypeOK, SwitchInv
<1>3. TriggeredIsDown /\ HaltedIsTriggered /\ TriggeredIsGuarded
  BY DEF DaemonInit, SwitchInit, TriggeredIsDown, HaltedIsTriggered,
         TriggeredIsGuarded
<1> QED
  BY <1>1, <1>2, <1>3 DEF DaemonInv

\* The types of the daemon's own variables.
OwnTypeOK ==
    /\ dstate \in DaemonState
    /\ guarded \in BOOLEAN
    /\ stopEvent \in BOOLEAN
    /\ starts \in 0..MaxStarts
    /\ heart \in [Hearts -> {"off", "check", "wait", "gone"}]

\* The part of the invariant about state, guard and trigger.
Agree == TriggeredIsDown /\ HaltedIsTriggered /\ TriggeredIsGuarded

LEMMA DaemonStep ==
    ASSUME DaemonInv, SwitchInv, DaemonNext
    PROVE  DaemonInv'
<1>1. SwitchTypeOK'
  BY DaemonDrivesSwitch, SwitchStep DEF SwitchInv
<1> USE DEF DaemonInv, DaemonTypeOK, OwnTypeOK, Agree, TriggeredIsDown,
            HaltedIsTriggered, TriggeredIsGuarded, DaemonState
<1>2. CASE initialize
  <2>1. OwnTypeOK'
    BY <1>2 DEF initialize
  <2>2. Agree'
    BY <1>2 DEF initialize, switchVars
  <2> QED
    BY <1>1, <2>1, <2>2
<1>3. CASE start
  <2>1. starts + 1 \in Hearts /\ starts' \in 0..MaxStarts
    BY <1>3, StartsAssumption DEF start, Hearts
  <2>2. heart' \in [Hearts -> {"off", "check", "wait", "gone"}]
    BY <1>3, <2>1 DEF start
  <2>3. OwnTypeOK'
    BY <1>3, <2>1, <2>2 DEF start
  <2>4. Agree'
    BY <1>3 DEF start, CanStart, switchVars
  <2> QED
    BY <1>1, <2>3, <2>4
<1>4. CASE stop
  <2>1. OwnTypeOK'
    BY <1>4 DEF stop
  <2>2. Agree'
    BY <1>4 DEF stop, switchVars
  <2> QED
    BY <1>1, <2>1, <2>2
<1>5. CASE pause \/ resume
  <2>1. OwnTypeOK'
    BY <1>5 DEF pause, resume
  <2>2. Agree'
    BY <1>5 DEF pause, resume, switchVars
  <2> QED
    BY <1>1, <2>1, <2>2
<1>6. CASE \E r \in Requests : halt(r)
  <2>1. PICK r \in Requests : halt(r)
    BY <1>6
  <2>2. guarded => triggered'
    BY <2>1 DEF halt, trigger, TriggerFirst, TriggerAgain
  <2>3. ~guarded => triggered' = triggered
    BY <2>1 DEF halt, switchVars
  <2>4. OwnTypeOK'
    BY <2>1 DEF halt
  <2>5. Agree'
    BY <2>1, <2>2, <2>3 DEF halt
  <2> QED
    BY <1>1, <2>4, <2>5
<1>7. CASE acknowledge_halt
  BY <1>1, <1>7 DEF acknowledge_halt, acknowledge, daemonOnly
<1>8. CASE reset_halt
  <2>1. OwnTypeOK'
    BY <1>8 DEF reset_halt
  <2>2. ~triggered'
    BY <1>8 DEF reset_halt, reset, switchVars
  <2>3. Agree'
    BY <1>8, <2>2 DEF reset_halt
  <2> QED
    BY <1>1, <2>1, <2>3
<1>9. CASE Tick /\ UNCHANGED daemonOnly
  BY <1>1, <1>9 DEF Tick, daemonOnly
<1>10. CASE Heartbeat
  <2>1. heart' \in [Hearts -> {"off", "check", "wait", "gone"}]
    BY <1>10 DEF Heartbeat, HeartbeatCheck, HeartbeatWait
  <2>2. UNCHANGED <<triggered, dstate, guarded, stopEvent, starts>>
    BY <1>10 DEF Heartbeat, HeartbeatCheck, HeartbeatWait, switchVars
  <2> QED
    BY <1>1, <2>1, <2>2
<1>11. CASE DaemonRestart
  <2>1. starts' \in 0..MaxStarts
    BY <1>11, StartsAssumption DEF DaemonRestart
  <2>2. heart' \in [Hearts -> {"off", "check", "wait", "gone"}]
    BY <1>11 DEF DaemonRestart
  <2>3. OwnTypeOK'
    BY <1>11, <2>1, <2>2 DEF DaemonRestart
  <2>4. Agree'
    BY <1>11 DEF DaemonRestart, Restart
  <2> QED
    BY <1>1, <2>3, <2>4
<1> QED
  BY <1>2, <1>3, <1>4, <1>5, <1>6, <1>7, <1>8, <1>9, <1>10, <1>11
     DEF DaemonNext, Lifecycle

LEMMA DaemonInvariant == DaemonSpec => [](DaemonInv /\ SwitchInv)
<1>1. DaemonInv /\ SwitchInv /\ [DaemonNext]_daemonVars
         => (DaemonInv /\ SwitchInv)'
  <2> SUFFICES ASSUME DaemonInv, SwitchInv, [DaemonNext]_daemonVars
               PROVE  (DaemonInv /\ SwitchInv)'
    OBVIOUS
  <2>1. CASE DaemonNext
    BY <2>1, DaemonStep, DaemonDrivesSwitch, SwitchStep
  <2>2. CASE UNCHANGED daemonVars
    <3>1. UNCHANGED switchVars /\ UNCHANGED daemonOnly
      BY <2>2 DEF daemonVars
    <3>2. SwitchInv'
      BY <3>1, StutterKeeps
    <3>3. UNCHANGED triggered
      BY <3>1 DEF switchVars
    <3>4. DaemonInv'
      BY <3>1, <3>2, <3>3 DEF daemonOnly, DaemonInv, DaemonTypeOK, SwitchInv,
         TriggeredIsDown, HaltedIsTriggered, TriggeredIsGuarded
    <3> QED
      BY <3>2, <3>4
  <2> QED
    BY <2>1, <2>2
<1> QED
  BY <1>1, InitDaemon, PTL DEF DaemonSpec

\* A triggered kill switch keeps the daemon down through every sequence of
\* halts, stops, starts, failures and resets, until it is released.
THEOREM DownWhileTriggered == DaemonSpec => []TriggeredIsDown
  BY DaemonInvariant, PTL DEF DaemonInv

\* A HALTED daemon that has a kill switch is held by it.
THEOREM HeldWhileHalted == DaemonSpec => []HaltedIsTriggered
  BY DaemonInvariant, PTL DEF DaemonInv

\* What is proved of the switch alone holds inside the daemon: with
\* require_manual_reset a recovered halt was acknowledged.
THEOREM DaemonRecoveryApproved == DaemonSpec => []RecoveredWasApproved
  BY DaemonInvariant, PTL DEF SwitchInv

\* The record stays complete inside the daemon, whatever its lifecycle does.
THEOREM DaemonFileIsTheRecord == DaemonSpec => []TraceIsComplete
<1>1. SwitchInv /\ TraceInv /\ [DaemonNext]_daemonVars => TraceInv'
  <2> SUFFICES ASSUME SwitchInv, TraceInv, [DaemonNext]_daemonVars PROVE TraceInv'
    OBVIOUS
  <2>1. [SwitchNext]_switchVars
    BY DaemonDrivesSwitch DEF daemonVars
  <2> QED
    BY <2>1, TraceStep
<1>2. DaemonInit => TraceInv
  BY TraceInit DEF DaemonInit
<1>3. TraceInv => TraceIsComplete
  BY DEF TraceInv, Records, Numbered, TraceIsComplete
<1> QED
  BY <1>1, <1>2, <1>3, DaemonInvariant, PTL DEF DaemonSpec

=============================================================================

--------------------------- MODULE MonitorProofs ----------------------------
(***************************************************************************)
(* Theorems about Monitor, for any set of statuses, any length of time and *)
(* any number of events and bounces.                                       *)
(***************************************************************************)
EXTENDS Monitor, FiniteSetTheorems, TLAPS

-----------------------------------------------------------------------------
(* Uptime.                                                                 *)

\* up_since lies between the last poll that found the line down and now, and what
\* is published was the distance from it.
UptimeInv ==
  /\ now \in Nat /\ downPoll \in Nat /\ downPoll <= now
  /\ upSince # Nothing => upSince \in Nat /\ downPoll <= upSince /\ upSince <= now
  /\ pub.uptime \in Nat /\ pub.uptime <= now - downPoll
  /\ pub.line # "Up" => pub.uptime = 0

\* A poll restarts the count or leaves it, and a bounce touches neither end of it.
LEMMA UptimeStep == UptimeInv /\ [Next]_vars => UptimeInv'
<1> SUFFICES ASSUME UptimeInv, [Next]_vars PROVE UptimeInv'
  OBVIOUS
<1> USE DEF UptimeInv
<1>1. CASE Tick
  BY <1>1, BoundsAssumption DEF Tick, workerVars, ghosts
<1>2. ASSUME NEW s \in Statuses, LineChanges(s) PROVE UptimeInv'
  BY <1>2 DEF LineChanges, workerVars, ghosts
<1>3. CASE Poll
  <2>1. upSince' = UpSince(truth) /\ now' = now
    BY <1>3 DEF Poll
  <2>2. downPoll' = (IF truth = "Up" THEN downPoll ELSE now)
    BY <1>3 DEF Poll
  <2>3. /\ pub'.line = truth
        /\ pub'.uptime = (IF UpSince(truth) = Nothing THEN 0 ELSE now - UpSince(truth))
    BY <1>3 DEF Poll
  <2>4. CASE truth = "Up"
    <3>1. UpSince(truth) \in Nat /\ downPoll <= UpSince(truth) /\ UpSince(truth) <= now
      BY <2>4 DEF UpSince
    <3>2. UpSince(truth) # Nothing
      BY <3>1, NothingAssumption
    <3> QED  BY <2>1, <2>2, <2>3, <2>4, <3>1, <3>2
  <2>5. CASE truth # "Up"
    <3>1. UpSince(truth) = Nothing
      BY <2>5 DEF UpSince
    <3> QED  BY <2>1, <2>2, <2>3, <2>5, <3>1
  <2> QED  BY <2>4, <2>5
<1>4. ASSUME NEW m \in Modes, Reload(m) PROVE UptimeInv'
  <2>1. pub'.uptime = pub.uptime /\ pub'.line = pub.line
    BY <1>4 DEF Reload
  <2> QED  BY <1>4, <2>1 DEF Reload
<1>5. CASE Restart
  BY <1>5 DEF Restart
<1>6. ASSUME NEW x \in scripts, ScriptActs(x) PROVE UptimeInv'
  BY <1>6 DEF ScriptActs, workerVars, ghosts
<1>7. CASE UNCHANGED vars
  BY <1>7 DEF vars, workerVars, ghosts
<1> QED  BY <1>1, <1>2, <1>3, <1>4, <1>5, <1>6, <1>7 DEF Next

\* The uptime that STATUS and ubus show never counts time before a poll that found
\* the line down: the worker's up_since is reset by every such poll.
THEOREM UptimeCorrect == Spec => []UptimeCounts
<1>1. Init => UptimeInv
  BY NothingAssumption DEF Init, UptimeInv
<1>2. UptimeInv => UptimeCounts
  <2> SUFFICES ASSUME UptimeInv, NEW v \in {Snapshot, Metrics}
               PROVE  v.uptime <= now - downPoll /\ (~v.up => v.uptime = 0)
    BY DEF UptimeCounts
  <2>1. CASE pub.line = Nothing
    <3>1. v.uptime = 0
      BY <2>1 DEF Snapshot, Metrics
    <3> QED  BY <3>1 DEF UptimeInv
  <2>2. CASE pub.line # Nothing
    <3>1. v.uptime = pub.uptime /\ v.up = Lstate(pub.line).up
      BY <2>2 DEF Snapshot, Metrics
    <3>2. pub.line = "Up" => Lstate(pub.line).up
      BY Zenon DEF Lstate
    <3> QED  BY <3>1, <3>2 DEF UptimeInv
  <2> QED  BY <2>1, <2>2
<1>3. UptimeInv /\ [Next]_vars => UptimeInv'
  BY UptimeStep
<1> QED  BY <1>1, <1>2, <1>3, PTL DEF Spec

-----------------------------------------------------------------------------
(* TC-layer events.                                                        *)

\* tc_emitted means that the mode in use was the last to be announced.
TcInv ==
  /\ tcEmitted \in BOOLEAN /\ sawDown \in BOOLEAN
  /\ tcEmitted => lastTc = xfer
  /\ TcAnnounced

\* The mode in use has been announced to the TC-layer hooks whenever the line is
\* seen up and a poll since the last bounce saw it down.
THEOREM TcCorrect == Spec => []TcAnnounced
<1>1. Init => TcInv
  BY NothingAssumption DEF Init, TcInv, TcAnnounced
<1>2. TcInv /\ [Next]_vars => TcInv'
  <2> SUFFICES ASSUME TcInv, [Next]_vars PROVE TcInv'
    OBVIOUS
  <2> USE DEF TcInv, TcAnnounced
  <2>1. CASE Tick
    BY <2>1 DEF Tick, workerVars, ghosts
  <2>2. ASSUME NEW s \in Statuses, LineChanges(s) PROVE TcInv'
    BY <2>2 DEF LineChanges, workerVars, ghosts
  <2>3. CASE Poll
    <3> DEFINE s == truth
    <3>1. /\ lastStatus' = s /\ xfer' = xfer
          /\ tcEmitted' = (tcEmitted \/ TcDue(s))
          /\ sawDown' = (sawDown \/ s # "Up")
          /\ lastTc' = (IF TcDue(s) THEN xfer ELSE lastTc)
      BY <2>3 DEF Poll
    <3>2. TcDue(s) \in BOOLEAN
      BY DEF TcDue, Transition
    <3>3. CASE s = "Up" /\ lastStatus # "Up"
      BY <3>1, <3>2, <3>3 DEF TcDue, Transition
    <3>4. CASE s = "Up" /\ lastStatus = "Up"
      BY <3>1, <3>2, <3>4 DEF TcDue, Transition
    <3>5. CASE s # "Up"
      BY <3>1, <3>2, <3>5 DEF TcDue, Transition
    <3> QED  BY <3>3, <3>4, <3>5
  <2>4. ASSUME NEW m \in Modes, Reload(m) PROVE TcInv'
    BY <2>4 DEF Reload
  <2>5. CASE Restart
    BY <2>5 DEF Restart
  <2>6. ASSUME NEW x \in scripts, ScriptActs(x) PROVE TcInv'
    BY <2>6 DEF ScriptActs, workerVars, ghosts
  <2>7. CASE UNCHANGED vars
    BY <2>7 DEF vars, workerVars, ghosts
  <2> QED  BY <2>1, <2>2, <2>3, <2>4, <2>5, <2>6, <2>7 DEF Next
<1>3. TcInv => TcAnnounced
  BY DEF TcInv
<1> QED  BY <1>1, <1>2, <1>3, PTL DEF Spec

-----------------------------------------------------------------------------
(* The LED.                                                                *)

\* The event of the last poll and those of the running line scripts are in the
\* batch; once no line script is running, one of the batch has set the LED.
LedInv ==
  /\ batch \subseteq LineEvents
  /\ lastStatus # Nothing => EventOf(lastStatus) \in batch
  /\ \A x \in LineScripts : x.event \in batch
  /\ (LineScripts = {} /\ lastStatus # Nothing) => \E e \in batch : led = LedMode(e)

\* link_status_to_event has events for values, and the LED script makes of them
\* what the table at its head says.
LEMMA EventFacts ==
  ASSUME NEW s
  PROVE  EventOf(s) \in LineEvents /\ LedMode(EventOf(s)) = LedFor(s)
<1>1. CASE s = "Up"
  BY <1>1, Zenon DEF EventOf, LedMode, LedFor, LineEvents
<1>2. CASE s = "Initializing"
  BY <1>2, Zenon DEF EventOf, LedMode, LedFor, LineEvents
<1>3. CASE s = "EstablishingLink"
  BY <1>3, Zenon DEF EventOf, LedMode, LedFor, LineEvents
<1>4. CASE s \notin {"Up", "Initializing", "EstablishingLink"}
  <2>1. s # "Up" /\ s # "Initializing" /\ s # "EstablishingLink"
    BY <1>4
  <2>2. EventOf(s) = "DOWN"
    BY <2>1, Zenon DEF EventOf
  <2>3. LedMode("DOWN") = "off"
    BY Zenon DEF LedMode
  <2>4. LedFor(s) = "off"
    BY <2>1 DEF LedFor
  <2> QED  BY <2>2, <2>3, <2>4 DEF LineEvents
<1> QED  BY <1>1, <1>2, <1>3, <1>4

\* A poll that makes a transition starts a line script, alone in a new batch or
\* as one more of the present one.
LEMMA LedPoll == ASSUME LedInv, Poll PROVE LedInv'
<1> DEFINE s == truth
           line == [id |-> emitted, kind |-> "line", event |-> EventOf(s)]
<1>1. lastStatus' = s /\ led' = led
  BY DEF Poll
<1>2. scripts' = scripts \cup NewScripts(s)
  BY DEF Poll
<1>3. CASE ~Transition(s)
  <2>1. NewScripts(s) = {} /\ batch' = batch
    BY <1>3 DEF NewScripts, TcDue, Poll
  <2> QED  BY <1>1, <1>2, <1>3, <2>1 DEF LedInv, LineScripts, Transition
<1>4. CASE Transition(s)
  <2>1. batch' = {EventOf(s)} \cup (IF LineScripts = {} THEN {} ELSE batch)
    BY <1>4 DEF Poll
  <2>2. line \in LineScripts'
    BY <1>2, <1>4 DEF NewScripts, LineScripts
  <2>3. \A x \in LineScripts' : x \in LineScripts \/ x = line
    BY <1>2, <1>4 DEF NewScripts, LineScripts
  <2>4. \A x \in LineScripts' : x.event \in batch'
    BY <2>1, <2>3 DEF LedInv
  <2>5. EventOf(s) \in batch' /\ batch' \subseteq LineEvents
    BY <2>1, EventFacts DEF LedInv
  <2> QED  BY <1>1, <2>2, <2>4, <2>5 DEF LedInv
<1> QED  BY <1>3, <1>4

LEMMA LedStep == LedInv /\ [Next]_vars => LedInv'
<1> SUFFICES ASSUME LedInv, [Next]_vars PROVE LedInv'
  OBVIOUS
<1>1. CASE Tick
  BY <1>1 DEF Tick, workerVars, ghosts, LedInv, LineScripts
<1>2. ASSUME NEW s \in Statuses, LineChanges(s) PROVE LedInv'
  BY <1>2 DEF LineChanges, workerVars, ghosts, LedInv, LineScripts
<1>3. CASE Poll
  BY <1>3, LedPoll
<1>4. ASSUME NEW m \in Modes, Reload(m) PROVE LedInv'
  BY <1>4 DEF Reload, LedInv, LineScripts
<1>5. CASE Restart
  BY <1>5 DEF Restart, LedInv, LineScripts
<1>6. ASSUME NEW x \in scripts, ScriptActs(x) PROVE LedInv'
  <2>1. batch' = batch /\ lastStatus' = lastStatus /\ LineScripts' \subseteq LineScripts
    BY <1>6 DEF ScriptActs, workerVars, ghosts, LineScripts
  <2>2. CASE x.kind = "line"
    <3>1. led' = LedMode(x.event) /\ x \in LineScripts
      BY <1>6, <2>2 DEF ScriptActs, LineScripts
    <3> QED  BY <2>1, <3>1 DEF LedInv
  <2>3. CASE x.kind # "line"
    <3>1. led' = led /\ LineScripts' = LineScripts
      BY <1>6, <2>3 DEF ScriptActs, LineScripts
    <3> QED  BY <2>1, <3>1 DEF LedInv
  <2> QED  BY <2>2, <2>3
<1>7. CASE UNCHANGED vars
  BY <1>7 DEF vars, workerVars, ghosts, LedInv, LineScripts
<1> QED  BY <1>1, <1>2, <1>3, <1>4, <1>5, <1>6, <1>7 DEF Next

\* When no line script is running the LED shows what a poll of the last batch
\* saw, and what the last poll saw if the batch has one event only: the scripts
\* may run in any order.
THEOREM LedCorrect == Spec => []LedSettles
<1>1. Init => LedInv
  BY DEF Init, LedInv, LineScripts, LineEvents
<1>2. LedInv => LedSettles
  <2> SUFFICES ASSUME LedInv, LineScripts = {}, lastStatus # Nothing
               PROVE  /\ LedFor(lastStatus) \in {LedMode(e) : e \in batch}
                      /\ led \in {LedMode(e) : e \in batch}
                      /\ Cardinality(batch) = 1 => led = LedFor(lastStatus)
    BY DEF LedSettles
  <2>1. EventOf(lastStatus) \in batch /\ LedMode(EventOf(lastStatus)) = LedFor(lastStatus)
    BY EventFacts DEF LedInv
  <2>2. PICK e \in batch : led = LedMode(e)
    BY DEF LedInv
  <2>3. Cardinality(batch) = 1 => e = EventOf(lastStatus)
    <3>1. IsFiniteSet(LineEvents)
      <4>1. IsFiniteSet({"UP"} \cup {"TRAINING"})
        BY FS_Singleton, FS_AddElement
      <4>2. IsFiniteSet(({"UP"} \cup {"TRAINING"}) \cup {"HANDSHAKE"})
        BY <4>1, FS_AddElement
      <4>3. IsFiniteSet((({"UP"} \cup {"TRAINING"}) \cup {"HANDSHAKE"}) \cup {"DOWN"})
        BY <4>2, FS_AddElement
      <4>4. LineEvents = (({"UP"} \cup {"TRAINING"}) \cup {"HANDSHAKE"}) \cup {"DOWN"}
        BY DEF LineEvents
      <4> QED  BY <4>3, <4>4
    <3>2. IsFiniteSet(batch)
      BY <3>1, FS_Subset DEF LedInv
    <3>3. Cardinality(batch) = 1 => \E y : batch = {y}
      BY <3>2, FS_Singleton
    <3> QED  BY <3>3, <2>1, <2>2
  <2> QED  BY <2>1, <2>2, <2>3
<1>3. LedInv /\ [Next]_vars => LedInv'
  BY LedStep
<1> QED  BY <1>1, <1>2, <1>3, PTL DEF Spec
=============================================================================

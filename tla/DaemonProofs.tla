---------------------------- MODULE DaemonProofs -----------------------------
(***************************************************************************)
(* Theorems about Daemon, for any clients, configurations and statuses and *)
(* any number of stimuli.                                                  *)
(***************************************************************************)
EXTENDS Daemon, TLAPS

Messages == {Reload, Restart} \cup {Upgrade(c) : c \in Clients}

\* m is one of the elements of q.
Has(q, m) == \E i \in DOMAIN q : q[i] = m

-----------------------------------------------------------------------------
(* Channels.                                                               *)

\* A message put at the end of a channel is in it, with those that were there.
LEMMA AppendHas ==
  ASSUME NEW S, NEW q \in Seq(S), NEW m \in S, NEW x
  PROVE  /\ Append(q, m) \in Seq(S)
         /\ Has(Append(q, m), x) <=> Has(q, x) \/ x = m
<1>1. /\ Append(q, m) \in Seq(S) /\ DOMAIN q = 1 .. Len(q) /\ Len(q) \in Nat
      /\ DOMAIN Append(q, m) = 1 .. Len(q) + 1
      /\ \A i \in 1 .. Len(q) : Append(q, m)[i] = q[i]
      /\ Append(q, m)[Len(q) + 1] = m
  OBVIOUS
<1>2. Has(q, x) => Has(Append(q, m), x)
  BY <1>1 DEF Has
<1>3. x = m => Has(Append(q, m), x)
  BY <1>1 DEF Has
<1>4. Has(Append(q, m), x) => Has(q, x) \/ x = m
  <2> SUFFICES ASSUME NEW i \in 1 .. Len(q) + 1, Append(q, m)[i] = x
               PROVE  Has(q, x) \/ x = m
    BY <1>1 DEF Has
  <2>1. CASE i = Len(q) + 1
    BY <1>1, <2>1
  <2>2. CASE i # Len(q) + 1
    <3>1. i \in 1 .. Len(q)
      BY <1>1, <2>2
    <3> QED  BY <1>1, <3>1 DEF Has
  <2> QED  BY <2>1, <2>2
<1> QED  BY <1>1, <1>2, <1>3, <1>4

\* What is in a channel is its first message or one of the others.
LEMMA TailHas ==
  ASSUME NEW S, NEW q \in Seq(S), q # <<>>, NEW x
  PROVE  /\ Head(q) \in S /\ Tail(q) \in Seq(S)
         /\ Has(q, x) <=> Head(q) = x \/ Has(Tail(q), x)
<1>1. /\ Head(q) \in S /\ Tail(q) \in Seq(S) /\ Head(q) = q[1]
      /\ Len(q) \in Nat /\ Len(q) >= 1
      /\ DOMAIN q = 1 .. Len(q) /\ DOMAIN Tail(q) = 1 .. Len(q) - 1
      /\ \A i \in 1 .. Len(q) - 1 : Tail(q)[i] = q[i + 1]
  OBVIOUS
<1>2. Head(q) = x => Has(q, x)
  BY <1>1 DEF Has
<1>3. Has(Tail(q), x) => Has(q, x)
  <2> SUFFICES ASSUME NEW i \in 1 .. Len(q) - 1, Tail(q)[i] = x PROVE Has(q, x)
    BY <1>1 DEF Has
  <2>1. i + 1 \in 1 .. Len(q) /\ q[i + 1] = x
    BY <1>1
  <2> QED  BY <1>1, <2>1 DEF Has
<1>4. Has(q, x) => Head(q) = x \/ Has(Tail(q), x)
  <2> SUFFICES ASSUME NEW i \in 1 .. Len(q), q[i] = x
               PROVE  Head(q) = x \/ Has(Tail(q), x)
    BY <1>1 DEF Has
  <2>1. CASE i = 1
    BY <1>1, <2>1
  <2>2. CASE i # 1
    <3>1. i - 1 \in 1 .. Len(q) - 1 /\ Tail(q)[i - 1] = q[i]
      BY <1>1, <2>2
    <3> QED  BY <1>1, <3>1 DEF Has
  <2> QED  BY <2>1, <2>2
<1> QED  BY <1>1, <1>2, <1>3, <1>4

\* The three kinds of messages differ, and those of two clients do.
LEMMA MessageKinds ==
  /\ Reload \in Messages /\ Restart \in Messages /\ Reload # Restart
  /\ \A c \in Clients : /\ Upgrade(c) \in Messages /\ Upgrade(c).kind = "firmware"
                        /\ Upgrade(c).client = c
                        /\ Upgrade(c) # Reload /\ Upgrade(c) # Restart
  /\ \A m \in Messages : m.kind = "firmware" => \E c \in Clients : m = Upgrade(c)
  /\ \A m \in Messages : m.kind = "firmware" => m # Reload /\ m # Restart
<1>1. Reload.kind = "reload" /\ Restart.kind = "restart"
  BY DEF Reload, Restart
<1>2. \A c \in Clients : Upgrade(c).kind = "firmware" /\ Upgrade(c).client = c
  BY DEF Upgrade
<1>3. Reload # Restart
  BY <1>1
<1>4. \A c \in Clients : Upgrade(c) # Reload /\ Upgrade(c) # Restart
  BY <1>1, <1>2
<1>5. ASSUME NEW m \in Messages, m.kind = "firmware"
      PROVE  m # Reload /\ m # Restart /\ \E c \in Clients : m = Upgrade(c)
  BY <1>1, <1>5 DEF Messages
<1> QED  BY <1>2, <1>3, <1>4, <1>5 DEF Messages

-----------------------------------------------------------------------------
(* Types, as far as the other invariants need them.                        *)

DaemonType ==
  /\ cfg \in Configs /\ uci \in Configs
  /\ chan \in Seq(Messages)
  /\ reply \in [Clients -> Seq({"progress", "done", "failed"})]
  /\ cpc \in [Clients -> {"absent", "check", "load", "send", "stream", "done"}]
  /\ wpc \in {"top", "recv", "down", "up", "fw", "tell", "poll", "final", "gone"}
  /\ wpc \in {"down", "up"} => /\ job.new \in Configs /\ job.kind \in {"reload", "restart"}
                               /\ job.kind = "restart" => job.new = cfg
  /\ wpc \in {"fw", "tell"} => \E c \in Clients : job = Upgrade(c)
  /\ wpc = "tell" => fw \in {"done", "failed"}

\* Messages put on and taken from the channel are of the three kinds.
LEMMA SendType ==
  ASSUME NEW q \in Seq(Messages), NEW m \in Messages
  PROVE  Send(q, m) \in Seq(Messages)
BY AppendHas DEF Send

\* Every step keeps the types.
LEMMA TypeStep == DaemonType /\ [Next]_vars => DaemonType'
<1> SUFFICES ASSUME DaemonType, [Next]_vars PROVE DaemonType'
  OBVIOUS
<1> USE DEF DaemonType, mainVars, flagVars, workerVars, boardVars, clientVars, eventVars, userVars
<1>1. CASE Outside
  BY <1>1 DEF Outside, EditUci, Sighup, Sigterm
<1>2. CASE MainStep
  <2>1. CASE MainForward
    BY <2>1, SendType, MessageKinds DEF MainForward
  <2> QED  BY <1>2, <2>1 DEF MainStep, MainServeNothing, MainShutdown, MainWait, MainCleanup
<1>3. CASE MainServes
  <2>1. CASE MainServeReload
    BY <2>1, SendType, MessageKinds DEF MainServeReload
  <2>2. CASE MainServeRestart
    BY <2>2, SendType, MessageKinds DEF MainServeRestart
  <2>3. CASE MainServeStop
    BY <2>3 DEF MainServeStop
  <2>4. ASSUME NEW c \in Clients, MainServeFirmware(c) PROVE DaemonType'
    BY <2>4 DEF MainServeFirmware
  <2> QED  BY <1>3, <2>1, <2>2, <2>3, <2>4 DEF MainServes
<1>4. CASE WorkerStep
  <2>1. CASE WorkerTop \/ WorkerIdle \/ WorkerPollNothing
    BY <2>1 DEF WorkerTop, WorkerIdle, WorkerPollNothing
  <2>2. ASSUME NEW b \in BOOLEAN, WorkerReload(b) PROVE DaemonType'
    <3>1. Tail(chan) \in Seq(Messages)
      BY <2>2, TailHas DEF WorkerReload
    <3>2. CASE wpc' = "down" /\ job' = [kind |-> "reload", new |-> uci]
      BY <2>2, <3>1, <3>2 DEF WorkerReload
    <3>3. CASE wpc' = "poll"
      BY <2>2, <3>1, <3>3 DEF WorkerReload
    <3> QED  BY <2>2, <3>2, <3>3 DEF WorkerReload
  <2>3. CASE WorkerRestart
    BY <2>3, TailHas DEF WorkerRestart
  <2>4. CASE WorkerLineDown
    BY <2>4 DEF WorkerLineDown
  <2>5. ASSUME NEW b \in BOOLEAN, WorkerLineUp(b) PROVE DaemonType'
    BY <2>5 DEF WorkerLineUp, CfgAfterBounce
  <2>6. ASSUME NEW b \in BOOLEAN, WorkerFinal(b) PROVE DaemonType'
    BY <2>6 DEF WorkerFinal
  <2>7. CASE WorkerFwBegin
    <3>1. Tail(chan) \in Seq(Messages) /\ Head(chan) \in Messages /\ Head(chan).kind = "firmware"
      BY <2>7, TailHas DEF WorkerFwBegin
    <3>2. \E c \in Clients : job' = Upgrade(c)
      BY <2>7, <3>1, MessageKinds DEF WorkerFwBegin
    <3> QED  BY <2>7, <3>1, <3>2 DEF WorkerFwBegin
  <2>8. CASE WorkerFwProgress
    BY <2>8, AppendHas DEF WorkerFwProgress
  <2>9. CASE WorkerFwTell
    <3>1. PICK c \in Clients : job = Upgrade(c)
      BY <2>9 DEF WorkerFwTell
    <3>2. job.client = c /\ fw \in {"done", "failed"}
      BY <2>9, <3>1, MessageKinds DEF WorkerFwTell
    <3>3. Append(reply[c], fw) \in Seq({"progress", "done", "failed"})
      BY <3>2, AppendHas
    <3> QED  BY <2>9, <3>2, <3>3 DEF WorkerFwTell, Tell
  <2>10. ASSUME NEW res \in {"done", "failed"}, WorkerFwEnd(res) PROVE DaemonType'
    BY <2>10 DEF WorkerFwEnd
  <2>11. ASSUME NEW s \in Statuses, WorkerPoll(s) PROVE DaemonType'
    BY <2>11 DEF WorkerPoll
  <2>12. CASE WorkerFwAbort
    BY <2>12 DEF WorkerFwAbort
  <2> QED  BY <1>4, <2>1, <2>2, <2>3, <2>4, <2>5, <2>6, <2>7, <2>8, <2>9, <2>10, <2>11, <2>12
           DEF WorkerStep
<1>5. ASSUME NEW c \in Clients, ClientStep(c) PROVE DaemonType'
  <2>1. CASE ClientCheck(c)
    BY <2>1 DEF ClientCheck, ClientEnds
  <2>2. CASE ClientSend(c)
    BY <2>2, SendType, MessageKinds DEF ClientSend, ClientEnds
  <2>3. CASE ClientEof(c)
    BY <2>3 DEF ClientEof, ClientEnds
  <2>4. ASSUME NEW b \in BOOLEAN, ClientLoad(c, b) PROVE DaemonType'
    BY <2>4 DEF ClientLoad, ClientEnds
  <2>5. ASSUME NEW b \in BOOLEAN, ClientStream(c, b) PROVE DaemonType'
    BY <2>5, TailHas DEF ClientStream, ClientEnds
  <2> QED  BY <1>5, <2>1, <2>2, <2>3, <2>4, <2>5 DEF ClientStep
<1>6. CASE UNCHANGED vars
  BY <1>6 DEF vars
<1> HIDE DEF DaemonType
<1> QED  BY <1>1, <1>2, <1>3, <1>4, <1>5, <1>6 DEF Next

\* The threads keep their state well typed.
LEMMA TypeInvariant == Spec => []DaemonType
<1>1. Init => DaemonType
  BY DEF Init, DaemonType
<1> QED  BY <1>1, TypeStep, PTL DEF Spec

-----------------------------------------------------------------------------
(* Reloads.                                                                *)

\* The configuration the worker has, or will have when the bounce under way is over.
Target == IF wpc \in {"down", "up"} THEN job.new ELSE cfg

\* When no reload is ahead of the worker and one was asked for since UCI changed, the
\* configuration the worker will have is the one in UCI.
ReloadInv ==
  (asked /\ ~reloadFlag /\ ~Has(chan, Reload) /\ wpc # "gone") => ~ConfigChanged(Target, uci)

\* A step that leaves the reloads, UCI and the target alone.
LEMMA ReloadFrame ==
  ASSUME ReloadInv, asked' = asked, reloadFlag' = reloadFlag, uci' = uci,
         Has(chan', Reload) <=> Has(chan, Reload), wpc' # "gone" => wpc # "gone" /\ Target' = Target
  PROVE  ReloadInv'
BY DEF ReloadInv

\* A reload is handed from the handler to the flag, to the channel and to the worker
\* without being lost.
LEMMA ReloadStep == DaemonType /\ ReloadInv /\ [Next]_vars => ReloadInv'
<1> SUFFICES ASSUME DaemonType, ReloadInv, [Next]_vars PROVE ReloadInv'
  OBVIOUS
<1> USE DEF mainVars, flagVars, workerVars, boardVars, clientVars, eventVars, userVars
<1>0. /\ chan \in Seq(Messages)
      /\ wpc \in {"down", "up"} /\ job.kind = "restart" => job.new = cfg
  BY DEF DaemonType
<1>1. CASE Outside
  BY <1>1 DEF Outside, EditUci, Sighup, Sigterm, ReloadInv, Target
<1>2. CASE MainStep
  <2>1. CASE MainForward
    <3>1. reloadFlag' = FALSE /\ UNCHANGED <<wpc, job, cfg, uci, asked>>
      BY <2>1 DEF MainForward
    <3>2. CASE reloadFlag
      <4>1. wpc # "gone" => Has(chan', Reload)
        BY <1>0, <2>1, <3>2, AppendHas, MessageKinds DEF MainForward, Send
      <4> QED  BY <3>1, <4>1 DEF ReloadInv, Target
    <3>3. CASE ~reloadFlag
      BY <2>1, <3>1, <3>3 DEF MainForward, ReloadInv, Target
    <3> QED  BY <3>2, <3>3
  <2> QED  BY <1>2, <2>1
             DEF MainStep, MainServeNothing, MainShutdown, MainWait, MainCleanup, ReloadInv, Target
<1>3. CASE MainServes
  <2>1. CASE MainServeReload
    <3>1. wpc # "gone" => Has(chan', Reload)
      BY <1>0, <2>1, AppendHas, MessageKinds DEF MainServeReload, Send
    <3>2. wpc' = wpc
      BY <2>1 DEF MainServeReload
    <3> QED  BY <3>1, <3>2 DEF ReloadInv
  <2>2. CASE MainServeRestart
    <3>1. Has(chan', Reload) <=> Has(chan, Reload)
      BY <1>0, <2>2, AppendHas, MessageKinds DEF MainServeRestart, Send
    <3> QED  BY <2>2, <3>1, ReloadFrame DEF MainServeRestart, Target
  <2>3. CASE MainServeStop
    BY <2>3 DEF MainServeStop, ReloadInv, Target
  <2>4. ASSUME NEW c \in Clients, MainServeFirmware(c) PROVE ReloadInv'
    BY <2>4 DEF MainServeFirmware, ReloadInv, Target
  <2> QED  BY <1>3, <2>1, <2>2, <2>3, <2>4 DEF MainServes
<1>4. CASE WorkerStep
  <2>1. CASE WorkerTop \/ WorkerIdle \/ WorkerPollNothing
    BY <2>1, ReloadFrame DEF WorkerTop, WorkerIdle, WorkerPollNothing, Target
  <2>2. ASSUME NEW b \in BOOLEAN, WorkerReload(b) PROVE ReloadInv'
    <3>1. UNCHANGED <<uci, cfg>> /\ wpc' \in {"down", "poll"}
      BY <2>2 DEF WorkerReload
    <3>2. CASE ~b
      <4>1. ~asked'
        BY <2>2, <3>2 DEF WorkerReload
      <4> QED  BY <4>1 DEF ReloadInv
    <3>3. CASE b /\ ConfigChanged(cfg, uci)
      <4>1. wpc' = "down" /\ job' = [kind |-> "reload", new |-> uci]
        BY <2>2, <3>3 DEF WorkerReload
      <4>2. Target' = uci
        BY <4>1 DEF Target
      <4> QED  BY <3>1, <4>2 DEF ReloadInv, ConfigChanged
    <3>4. CASE b /\ ~ConfigChanged(cfg, uci)
      <4>1. wpc' = "poll"
        BY <2>2, <3>4 DEF WorkerReload
      <4>2. Target' = cfg
        BY <3>1, <4>1 DEF Target
      <4> QED  BY <3>1, <3>4, <4>2 DEF ReloadInv
    <3> QED  BY <3>2, <3>3, <3>4
  <2>3. CASE WorkerRestart
    <3>1. Has(chan', Reload) <=> Has(chan, Reload)
      BY <1>0, <2>3, TailHas, MessageKinds DEF WorkerRestart
    <3> QED  BY <2>3, <3>1, ReloadFrame DEF WorkerRestart, Target
  <2>4. CASE WorkerLineDown
    BY <2>4, ReloadFrame DEF WorkerLineDown, Target
  <2>5. ASSUME NEW b \in BOOLEAN, WorkerLineUp(b) PROVE ReloadInv'
    <3>1. /\ UNCHANGED <<asked, reloadFlag, uci, chan>>
          /\ cfg' = job.new /\ wpc = "up" /\ wpc' = "poll"
      BY <2>5 DEF WorkerLineUp, CfgAfterBounce
    <3> QED  BY <3>1, ReloadFrame DEF Target
  <2>6. ASSUME NEW b \in BOOLEAN, WorkerFinal(b) PROVE ReloadInv'
    <3>1. wpc' = "gone"
      BY <2>6 DEF WorkerFinal
    <3> QED  BY <3>1 DEF ReloadInv
  <2>7. CASE WorkerFwBegin
    <3>1. Head(chan) # Reload /\ chan # <<>> /\ chan' = Tail(chan)
      BY <1>0, <2>7, TailHas, MessageKinds DEF WorkerFwBegin
    <3>2. Has(chan', Reload) <=> Has(chan, Reload)
      BY <1>0, <3>1, TailHas
    <3> QED  BY <2>7, <3>2, ReloadFrame DEF WorkerFwBegin, Target
  <2>8. CASE WorkerFwProgress \/ WorkerFwTell
    BY <2>8, ReloadFrame DEF WorkerFwProgress, WorkerFwTell, Target
  <2>9. ASSUME NEW res \in {"done", "failed"}, WorkerFwEnd(res) PROVE ReloadInv'
    BY <2>9, ReloadFrame DEF WorkerFwEnd, Target
  <2>10. ASSUME NEW s \in Statuses, WorkerPoll(s) PROVE ReloadInv'
    BY <2>10, ReloadFrame DEF WorkerPoll, Target
  <2>11. CASE WorkerFwAbort
    BY <2>11, ReloadFrame DEF WorkerFwAbort, Target
  <2> QED  BY <1>4, <2>1, <2>2, <2>3, <2>4, <2>5, <2>6, <2>7, <2>8, <2>9, <2>10, <2>11
           DEF WorkerStep
<1>5. ASSUME NEW c \in Clients, ClientStep(c) PROVE ReloadInv'
  <2>1. CASE ClientSend(c)
    <3>1. Has(chan', Reload) <=> Has(chan, Reload)
      BY <1>0, <2>1, AppendHas, MessageKinds DEF ClientSend, Send
    <3> QED  BY <2>1, <3>1, ReloadFrame DEF ClientSend, Target
  <2>2. CASE ClientCheck(c) \/ ClientEof(c)
    BY <2>2, ReloadFrame DEF ClientCheck, ClientEof, Target
  <2>3. ASSUME NEW b \in BOOLEAN, ClientLoad(c, b) \/ ClientStream(c, b) PROVE ReloadInv'
    BY <2>3, ReloadFrame DEF ClientLoad, ClientStream, Target
  <2> QED  BY <1>5, <2>1, <2>2, <2>3 DEF ClientStep
<1>6. CASE UNCHANGED vars
  BY <1>6, ReloadFrame DEF vars, Target
<1> QED  BY <1>1, <1>2, <1>3, <1>4, <1>5, <1>6 DEF Next

\* No reload is lost between signal handler, flag, channel and worker: when none is
\* under way, the worker runs the compared settings of UCI.
THEOREM ReloadCorrect == Spec => []ReloadNotLost
<1>1. Init => ReloadInv
  BY DEF Init, ReloadInv
<1>2. DaemonType /\ ReloadInv => ReloadNotLost
  <2> SUFFICES ASSUME DaemonType, ReloadInv, asked, ~ReloadPending, wpc # "gone"
               PROVE  ~ConfigChanged(cfg, uci)
    BY DEF ReloadNotLost
  <2>1. ~reloadFlag /\ ~Has(chan, Reload)
    BY DEF ReloadPending, Has
  <2>2. Target = cfg
    BY DEF ReloadPending, Target, DaemonType
  <2> QED  BY <2>1, <2>2 DEF ReloadInv
<1> QED  BY <1>1, <1>2, TypeInvariant, ReloadStep, PTL DEF Spec

-----------------------------------------------------------------------------
(* The line.                                                               *)

\* What the worker's last calls left on the board, and when the worker and the
\* control thread are past their loops.
LineInv ==
  /\ BoardMatchesCfg
  /\ final # "none" <=> wpc = "gone"
  /\ final = "ok" => board = Nothing
  /\ mpc \in {"cleanup", "exited"} /\ ~abandoned => wpc = "gone"

\* Bounces, upgrades and the final line_config_down keep what the worker believes and
\* what the board runs together.
LEMMA LineStep == DaemonType /\ LineInv /\ [Next]_vars => LineInv'
<1> SUFFICES ASSUME DaemonType, LineInv, [Next]_vars PROVE LineInv'
  OBVIOUS
<1> USE DEF mainVars, flagVars, workerVars, boardVars, clientVars, eventVars, userVars,
            LineInv, BoardMatchesCfg
<1>1. CASE Outside
  BY <1>1 DEF Outside, EditUci, Sighup, Sigterm
<1>2. CASE MainStep
  <2>1. CASE MainForward \/ MainServeNothing \/ MainShutdown
    BY <2>1 DEF MainForward, MainServeNothing, MainShutdown
  <2>2. CASE MainWait
    <3>1. /\ UNCHANGED <<upOk, wpc, board, cfg, final>>
          /\ abandoned' = ~(wpc = "gone")
      BY <2>2 DEF MainWait, WorkerDone
    <3> QED  BY <3>1
  <2>3. CASE MainCleanup
    BY <2>3 DEF MainCleanup
  <2> QED  BY <1>2, <2>1, <2>2, <2>3 DEF MainStep
<1>3. CASE MainServes
  BY <1>3 DEF MainServes, MainServeReload, MainServeRestart, MainServeStop, MainServeFirmware
<1>4. CASE WorkerStep
  <2>1. CASE WorkerTop \/ WorkerIdle \/ WorkerPollNothing
    BY <2>1 DEF WorkerTop, WorkerIdle, WorkerPollNothing
  <2>2. ASSUME NEW b \in BOOLEAN, WorkerReload(b) PROVE LineInv'
    BY <2>2 DEF WorkerReload
  <2>3. CASE WorkerRestart
    BY <2>3 DEF WorkerRestart
  <2>4. CASE WorkerLineDown
    BY <2>4 DEF WorkerLineDown
  <2>5. ASSUME NEW b \in BOOLEAN, WorkerLineUp(b) PROVE LineInv'
    <3>1. /\ wpc = "up" /\ wpc' = "poll" /\ upOk' = b /\ cfg' = job.new
          /\ UNCHANGED <<final, mpc, abandoned>>
          /\ b => board' = Wire(job.new)
      BY <2>5 DEF WorkerLineUp, CfgAfterBounce
    <3> QED  BY <3>1
  <2>6. ASSUME NEW b \in BOOLEAN, WorkerFinal(b) PROVE LineInv'
    BY <2>6 DEF WorkerFinal
  <2>7. CASE WorkerFwBegin \/ WorkerFwProgress \/ WorkerFwTell
    BY <2>7 DEF WorkerFwBegin, WorkerFwProgress, WorkerFwTell
  <2>8. ASSUME NEW res \in {"done", "failed"}, WorkerFwEnd(res) PROVE LineInv'
    BY <2>8 DEF WorkerFwEnd
  <2>9. ASSUME NEW s \in Statuses, WorkerPoll(s) PROVE LineInv'
    BY <2>9 DEF WorkerPoll
  <2>10. CASE WorkerFwAbort
    BY <2>10 DEF WorkerFwAbort
  <2> QED  BY <1>4, <2>1, <2>2, <2>3, <2>4, <2>5, <2>6, <2>7, <2>8, <2>9, <2>10 DEF WorkerStep
<1>5. ASSUME NEW c \in Clients, ClientStep(c) PROVE LineInv'
  BY <1>5 DEF ClientStep, ClientCheck, ClientSend, ClientEof, ClientLoad, ClientStream
<1>6. CASE UNCHANGED vars
  BY <1>6 DEF vars
<1> QED  BY <1>1, <1>2, <1>3, <1>4, <1>5, <1>6 DEF Next

\* In every state, what the worker believes and what the board runs fit together.
LEMMA LineInvariant == Spec => []LineInv
<1>1. Init => LineInv
  BY DEF Init, LineInv, BoardMatchesCfg
<1> QED  BY <1>1, TypeInvariant, LineStep, PTL DEF Spec

\* While the last line_config_up succeeded and no upgrade came after it, the board
\* runs the settings of the worker's configuration.
THEOREM BoardCorrect == Spec => []BoardMatchesCfg
<1>1. LineInv => BoardMatchesCfg
  BY DEF LineInv
<1> QED  BY <1>1, LineInvariant, PTL

\* A daemon that exits without having given up on its worker has sent the final
\* line_config_down, and the line is down if that was answered.
THEOREM CleanExitCorrect == Spec => []CleanExitLineDown
<1>1. LineInv => CleanExitLineDown
  BY DEF LineInv, CleanExitLineDown
<1> QED  BY <1>1, LineInvariant, PTL

-----------------------------------------------------------------------------
(* Firmware clients.                                                       *)

\* A reply channel holds the end of an upgrade.
Ended(q) == Has(q, "done") \/ Has(q, "failed")

\* Where the request of client c is.
InHand(c) == Has(chan, Upgrade(c)) \/ Serving(c) \/ wpc = "gone" \/ Ended(reply[c])

\* NoClientForgotten in these terms.
ClientInv == \A c \in Clients : cpc[c] = "stream" => InHand(c)

\* The two say the same.
LEMMA ClientMeaning == ClientInv <=> NoClientForgotten
<1>1. \A q : Ended(q) <=> \E i \in DOMAIN q : q[i] \in {"done", "failed"}
  BY DEF Ended, Has
<1>2. \A c \in Clients : Queued(c) <=> Has(chan, Upgrade(c))
  BY DEF Queued, Has
<1> QED  BY <1>1, <1>2 DEF ClientInv, NoClientForgotten, InHand

\* What is appended to a reply channel, and what is taken from it.
LEMMA EndedFacts ==
  ASSUME NEW q \in Seq({"progress", "done", "failed"})
  PROVE  /\ \A m \in {"progress", "done", "failed"} :
              Ended(Append(q, m)) <=> Ended(q) \/ m \in {"done", "failed"}
         /\ q # <<>> => (Ended(q) <=> Head(q) \in {"done", "failed"} \/ Ended(Tail(q)))
<1> DEFINE S == {"progress", "done", "failed"}
<1>1. ASSUME NEW m \in S
      PROVE  Ended(Append(q, m)) <=> Ended(q) \/ m \in {"done", "failed"}
  <2>1. /\ Has(Append(q, m), "done") <=> Has(q, "done") \/ "done" = m
        /\ Has(Append(q, m), "failed") <=> Has(q, "failed") \/ "failed" = m
    BY AppendHas
  <2> QED  BY <2>1 DEF Ended
<1>2. ASSUME q # <<>>
      PROVE  Ended(q) <=> Head(q) \in {"done", "failed"} \/ Ended(Tail(q))
  <2>1. /\ Has(q, "done") <=> Head(q) = "done" \/ Has(Tail(q), "done")
        /\ Has(q, "failed") <=> Head(q) = "failed" \/ Has(Tail(q), "failed")
    BY <1>2, TailHas
  <2> QED  BY <2>1 DEF Ended
<1> QED  BY <1>1, <1>2

\* A request handed to the worker stays queued, in service or answered until the client
\* reads its answer, the client leaves, or the worker is gone.
LEMMA ClientInvStep == DaemonType /\ ClientInv /\ [Next]_vars => ClientInv'
<1> SUFFICES ASSUME DaemonType, ClientInv, [Next]_vars PROVE ClientInv'
  OBVIOUS
<1> USE DEF mainVars, flagVars, workerVars, boardVars, clientVars, eventVars, userVars
<1>0. /\ chan \in Seq(Messages)
      /\ reply \in [Clients -> Seq({"progress", "done", "failed"})]
      /\ cpc \in [Clients -> {"absent", "check", "load", "send", "stream", "done"}]
      /\ wpc \in {"fw", "tell"} => \E c \in Clients : job = Upgrade(c)
      /\ wpc = "tell" => fw \in {"done", "failed"}
  BY DEF DaemonType
<1>a. ASSUME UNCHANGED <<chan, job, reply>>, wpc' = wpc \/ (wpc \notin {"fw", "tell", "gone"}),
             \A c \in Clients : cpc'[c] = "stream" => cpc[c] = "stream"
      PROVE  ClientInv'
  BY <1>a DEF ClientInv, InHand, Serving
<1>b. ASSUME NEW m \in Messages, chan' = Send(chan, m), UNCHANGED <<wpc, job, reply, cpc>>
      PROVE  ClientInv'
  <2>1. \A x : Has(chan, x) => Has(chan', x)
    BY <1>0, <1>b, AppendHas DEF Send
  <2> QED  BY <1>b, <2>1 DEF ClientInv, InHand, Serving
<1>c. ASSUME chan # <<>>, chan' = Tail(chan), UNCHANGED <<reply, cpc>>,
             wpc = "recv", Head(chan) \in {Reload, Restart} \/ (wpc' = "fw" /\ job' = Head(chan))
      PROVE  ClientInv'
  <2> SUFFICES ASSUME NEW c \in Clients, InHand(c) PROVE InHand(c)'
    BY <1>c DEF ClientInv
  <2>1. CASE Has(chan, Upgrade(c))
    <3>1. Head(chan) = Upgrade(c) \/ Has(chan', Upgrade(c))
      BY <1>0, <1>c, <2>1, TailHas
    <3>2. Head(chan) = Upgrade(c) => wpc' = "fw" /\ job' = Upgrade(c)
      BY <1>c, MessageKinds
    <3> QED  BY <3>1, <3>2 DEF InHand, Serving
  <2>2. CASE ~Has(chan, Upgrade(c))
    BY <1>c, <2>2 DEF InHand, Serving
  <2> QED  BY <2>1, <2>2
<1>1. CASE Outside
  BY <1>1, <1>a DEF Outside, EditUci, Sighup, Sigterm
<1>2. CASE MainStep
  <2>1. CASE MainForward
    <3>1. CASE reloadFlag
      BY <1>b, <2>1, <3>1, MessageKinds DEF MainForward
    <3>2. CASE ~reloadFlag
      BY <1>a, <2>1, <3>2 DEF MainForward
    <3> QED  BY <3>1, <3>2
  <2> QED  BY <1>2, <1>a, <2>1 DEF MainStep, MainServeNothing, MainShutdown, MainWait, MainCleanup
<1>3. CASE MainServes
  <2>1. CASE MainServeReload
    BY <1>b, <2>1, MessageKinds DEF MainServeReload
  <2>2. CASE MainServeRestart
    BY <1>b, <2>2, MessageKinds DEF MainServeRestart
  <2>3. CASE MainServeStop
    BY <1>a, <2>3 DEF MainServeStop
  <2>4. ASSUME NEW c \in Clients, MainServeFirmware(c) PROVE ClientInv'
    BY <1>0, <1>a, <2>4 DEF MainServeFirmware
  <2> QED  BY <1>3, <2>1, <2>2, <2>3, <2>4 DEF MainServes
<1>4. CASE WorkerStep
  <2>1. CASE WorkerTop \/ WorkerIdle \/ WorkerPollNothing \/ WorkerLineDown
    BY <1>a, <2>1 DEF WorkerTop, WorkerIdle, WorkerPollNothing, WorkerLineDown
  <2>2. ASSUME NEW b \in BOOLEAN, WorkerReload(b) PROVE ClientInv'
    <3>1. chan # <<>> /\ chan' = Tail(chan) /\ Head(chan) = Reload /\ wpc = "recv"
      BY <2>2 DEF WorkerReload
    <3>2. UNCHANGED <<reply, cpc>>
      BY <2>2 DEF WorkerReload
    <3> QED  BY <1>c, <3>1, <3>2
  <2>3. CASE WorkerRestart
    BY <1>c, <2>3 DEF WorkerRestart
  <2>4. ASSUME NEW b \in BOOLEAN, WorkerLineUp(b) PROVE ClientInv'
    <3>1. wpc = "up" /\ UNCHANGED <<chan, reply, cpc>>
      BY <2>4 DEF WorkerLineUp
    <3> QED  BY <3>1 DEF ClientInv, InHand, Serving
  <2>5. ASSUME NEW b \in BOOLEAN, WorkerFinal(b) PROVE ClientInv'
    <3>1. wpc' = "gone"
      BY <2>5 DEF WorkerFinal
    <3> QED  BY <3>1 DEF ClientInv, InHand
  <2>6. CASE WorkerFwBegin
    BY <1>c, <2>6 DEF WorkerFwBegin
  <2>7. CASE WorkerFwProgress
    <3>1. PICK j \in Clients : job = Upgrade(j)
      BY <1>0, <2>7 DEF WorkerFwProgress
    <3>2. /\ UNCHANGED <<chan, wpc, job, cpc>>
          /\ reply' = [reply EXCEPT ![j] = IF cpc[j] = "stream" THEN Append(@, "progress") ELSE @]
      BY <2>7, <3>1, MessageKinds DEF WorkerFwProgress
    <3>3. \A c \in Clients : Ended(reply[c]) => Ended(reply'[c])
      BY <1>0, <3>2, EndedFacts
    <3> QED  BY <3>2, <3>3 DEF ClientInv, InHand, Serving
  <2>8. CASE WorkerFwTell
    <3>1. PICK j \in Clients : job = Upgrade(j)
      BY <1>0, <2>8 DEF WorkerFwTell
    <3>2. /\ UNCHANGED <<chan, cpc>> /\ wpc = "tell"
          /\ reply' = [reply EXCEPT ![j] = IF cpc[j] = "stream" THEN Append(@, fw) ELSE @]
      BY <2>8, <3>1, MessageKinds DEF WorkerFwTell, Tell
    <3>3. \A c \in Clients : Ended(reply[c]) => Ended(reply'[c])
      BY <1>0, <3>2, EndedFacts
    <3>4. cpc[j] = "stream" => Ended(reply'[j])
      BY <1>0, <3>2, EndedFacts
    <3>5. \A c \in Clients : Serving(c) => c = j
      BY <3>1, MessageKinds DEF Serving
    <3> QED  BY <3>2, <3>3, <3>4, <3>5 DEF ClientInv, InHand
  <2>9. ASSUME NEW res \in {"done", "failed"}, WorkerFwEnd(res) PROVE ClientInv'
    BY <2>9 DEF WorkerFwEnd, ClientInv, InHand, Serving
  <2>10. ASSUME NEW s \in Statuses, WorkerPoll(s) PROVE ClientInv'
    BY <1>a, <2>10 DEF WorkerPoll
  <2>11. CASE WorkerFwAbort
    BY <1>a, <2>11 DEF WorkerFwAbort
  <2> QED  BY <1>4, <2>1, <2>2, <2>3, <2>4, <2>5, <2>6, <2>7, <2>8, <2>9, <2>10, <2>11
           DEF WorkerStep
<1>5. ASSUME NEW c \in Clients, ClientStep(c) PROVE ClientInv'
  <2>1. CASE ClientCheck(c)
    BY <1>0, <1>a, <2>1 DEF ClientCheck, ClientEnds
  <2>2. CASE ClientSend(c)
    <3>1. /\ UNCHANGED <<wpc, job, reply>>
          /\ chan' = Send(chan, Upgrade(c))
          /\ \A d \in Clients : cpc'[d] = "stream" => cpc[d] = "stream" \/ (d = c /\ wpc # "gone")
      BY <1>0, <2>2 DEF ClientSend, ClientEnds
    <3>2. /\ \A x : Has(chan, x) => Has(chan', x)
          /\ wpc # "gone" => Has(chan', Upgrade(c))
      BY <1>0, <3>1, AppendHas, MessageKinds DEF Send
    <3> QED  BY <3>1, <3>2 DEF ClientInv, InHand, Serving
  <2>3. CASE ClientEof(c)
    BY <1>0, <1>a, <2>3 DEF ClientEof, ClientEnds
  <2>4. ASSUME NEW b \in BOOLEAN, ClientLoad(c, b) PROVE ClientInv'
    BY <1>0, <1>a, <2>4 DEF ClientLoad, ClientEnds
  <2>5. ASSUME NEW b \in BOOLEAN, ClientStream(c, b) PROVE ClientInv'
    <3>1. /\ UNCHANGED <<chan, wpc, job>>
          /\ reply[c] # <<>> /\ reply' = [reply EXCEPT ![c] = Tail(@)]
      BY <2>5 DEF ClientStream
    <3>2. Head(reply[c]) \in {"done", "failed"} => cpc' = [cpc EXCEPT ![c] = "done"]
      BY <2>5 DEF ClientStream, ClientEnds
    <3>3. cpc' = cpc \/ cpc' = [cpc EXCEPT ![c] = "done"]
      BY <2>5 DEF ClientStream, ClientEnds
    <3>4. Ended(reply[c]) => Head(reply[c]) \in {"done", "failed"} \/ Ended(reply'[c])
      BY <1>0, <3>1, EndedFacts
    <3>5. \A d \in Clients : d # c => reply'[d] = reply[d]
      BY <1>0, <3>1
    <3> QED  BY <1>0, <3>1, <3>2, <3>3, <3>4, <3>5 DEF ClientInv, InHand, Serving
  <2> QED  BY <1>5, <2>1, <2>2, <2>3, <2>4, <2>5 DEF ClientStep
<1>6. CASE UNCHANGED vars
  BY <1>6, <1>a DEF vars
<1> QED  BY <1>1, <1>2, <1>3, <1>4, <1>5, <1>6 DEF Next

\* A firmware client that was told OK and still waits has its request queued, in
\* service or answered, unless the worker has gone.
THEOREM ClientsCorrect == Spec => []NoClientForgotten
<1>1. Init => ClientInv
  BY DEF Init, ClientInv
<1>2. ClientInv => NoClientForgotten
  BY ClientMeaning
<1> QED  BY <1>1, <1>2, TypeInvariant, ClientInvStep, PTL DEF Spec
=============================================================================

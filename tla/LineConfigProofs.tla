-------------------------- MODULE LineConfigProofs --------------------------
(***************************************************************************)
(* Theorems about LineConfig, for every set of option texts, every set of  *)
(* command lines and any number of edits.                                  *)
(***************************************************************************)
EXTENDS LineConfig, TLAPS

-----------------------------------------------------------------------------
(* What build() and the encoder return.                                    *)

\* build() knows two modulations and five annexes, gives profiles to VDSL2 only
\* and one of the two transfer modes.
LEMMA BuildRange ==
  ASSUME NEW o, NEW u, BuildOk(o, u)
  PROVE  LET c == Build(o, u)
         IN  /\ c.modulation \in {Adsl2Plus, Vdsl2}
             /\ c.annex \in {0, 1, 2, 3, 6}
             /\ c.modulation = Adsl2Plus => c.profiles = {}
             /\ c.xfer_mode \in {"atm", "ptm"}
  <1>1. ParseModulation(LineMode(o, u)) \in {Adsl2Plus, Vdsl2}
    BY DEF BuildOk, ParseModulation
  <1>2. ParseAnnex(AnnexText(o, u)) \in {0, 1, 2, 3, 6}
    BY DEF BuildOk, ParseAnnex
  <1>3. ParseXferMode(XferText(o, u)) \in {"atm", "ptm"}
    BY DEF BuildOk, ParseXferMode
  <1> QED  BY <1>1, <1>2, <1>3 DEF Build, Adsl2Plus, Vdsl2, Multimode

\* So does what run() starts from.
LEMMA LoadRange ==
  ASSUME NEW o, NEW u
  PROVE  LET c == LoadOrDefault(o, u)
         IN  /\ c.modulation \in {Adsl2Plus, Vdsl2}
             /\ c.annex \in {0, 1, 2, 3, 6}
             /\ c.modulation = Adsl2Plus => c.profiles = {}
             /\ c.xfer_mode \in {"atm", "ptm"}
  BY BuildRange DEF LoadOrDefault, DefaultConfig, Adsl2Plus, Vdsl2

\* Settings that config_changed finds equal make the same opcode 1, bitswap and
\* SRA apart.
LEMMA UnchangedSameBytes ==
  ASSUME NEW c, NEW d, ~ConfigChanged(c, d)
  PROVE  Compared(PackDslLine(c)) = Compared(PackDslLine(d))
  BY DEF ConfigChanged, Compared, PackDslLine, Read32, Read16

\* The opcode 1 of a configuration in the range of build() obeys the rules.
LEMMA RangeObeysRules ==
  ASSUME NEW c, c.modulation \in {Adsl2Plus, Vdsl2}, c.annex \in {0, 1, 2, 3, 6}
  PROVE  LET l == PackDslLine(c)
         IN  /\ <<l[1], l[2]>> \in Matrix
             /\ Read32(l, 4) # 0 => l[1] \in {6, 7}
  BY DEF PackDslLine, Matrix, Read32, Read16, ByteAt, Adsl2Plus, Vdsl2, Multimode, Annexes, AnnexAuto

-----------------------------------------------------------------------------
(* The line the daemon asked for.                                          *)

\* While the daemon runs, the last opcode 1 is that of its configuration, which
\* build() or the default made, and which config_changed cannot tell from what
\* the options say if they were read since they changed.
LineInv ==
  /\ pc = "running" =>
       /\ line = PackDslLine(cfg)
       /\ cfg.modulation \in {Adsl2Plus, Vdsl2}
       /\ cfg.annex \in {0, 1, 2, 3, 6}
       /\ fresh /\ BuildOk(ov, uci) => ~ConfigChanged(cfg, Build(ov, uci))
  /\ pc # "running" => line = None

\* LineInv is an invariant.
THEOREM LineCorrect == Spec => []LineInv
  <1>1. Init => LineInv
    BY DEF Init, LineInv
  <1>2. LineInv /\ [Next]_vars => LineInv'
    <2> SUFFICES ASSUME LineInv, [Next]_vars  PROVE LineInv'
      OBVIOUS
    <2>1. ASSUME NEW k \in Options, NEW v \in Values[k], Edit(k, v)  PROVE LineInv'
      BY <2>1 DEF Edit, LineInv
    <2>2. ASSUME NEW o \in Overrides, Start(o)  PROVE LineInv'
      <3>1. BuildOk(o, uci) => cfg' = Build(o, uci)
        BY <2>2 DEF Start, LoadOrDefault
      <3>2. BuildOk(o, uci) => ~ConfigChanged(cfg', Build(o, uci))
        BY <3>1 DEF ConfigChanged
      <3>3. /\ cfg'.modulation \in {Adsl2Plus, Vdsl2}
            /\ cfg'.annex \in {0, 1, 2, 3, 6}
        BY <2>2, LoadRange DEF Start
      <3> QED  BY <2>2, <3>2, <3>3 DEF Start, LineInv
    <2>3. ASSUME NEW o \in Overrides, StartRefused(o) \/ StartFails(o)  PROVE LineInv'
      BY <2>3 DEF StartRefused, StartFails, LineInv
    <2>4. CASE Reload
      <3>1. CASE BuildOk(ov, uci) /\ ConfigChanged(cfg, Build(ov, uci))
        <4>1. cfg' = Build(ov, uci) /\ line' = PackDslLine(cfg')
          BY <2>4, <3>1 DEF Reload
        <4>2. ~ConfigChanged(cfg', Build(ov, uci))
          BY <4>1 DEF ConfigChanged
        <4>3. /\ cfg'.modulation \in {Adsl2Plus, Vdsl2}
              /\ cfg'.annex \in {0, 1, 2, 3, 6}
          BY <3>1, <4>1, BuildRange
        <4> QED  BY <2>4, <4>1, <4>2, <4>3 DEF Reload, LineInv
      <3>2. CASE ~(BuildOk(ov, uci) /\ ConfigChanged(cfg, Build(ov, uci)))
        BY <2>4, <3>2 DEF Reload, LineInv
      <3> QED  BY <3>1, <3>2
    <2>5. CASE RestartLine
      BY <2>5 DEF RestartLine, LineInv
    <2>6. CASE Stop
      BY <2>6 DEF Stop, LineInv
    <2>7. CASE UNCHANGED vars
      BY <2>7 DEF vars, LineInv
    <2> QED  BY <2>1, <2>2, <2>3, <2>4, <2>5, <2>6, <2>7 DEF Next
  <1> QED  BY <1>1, <1>2, PTL DEF Spec

\* For options a start accepts, a reload leaves the line as a restart of the daemon
\* would, bitswap and SRA apart.
THEOREM ReloadCorrect == Spec => []ReloadIsRestart
  <1>1. LineInv => ReloadIsRestart
    BY UnchangedSameBytes DEF LineInv, ReloadIsRestart
  <1> QED  BY <1>1, LineCorrect, PTL

\* Every opcode 1, validated or not, is a documented combination.
THEOREM LineRulesCorrect == Spec => []LineRules
  <1>1. LineInv => LineRules
    BY RangeObeysRules DEF LineInv, LineRules
  <1> QED  BY <1>1, LineCorrect, PTL

\* A daemon that starts has line and link on the same transport.
THEOREM LinkFitsCorrect == Spec => LinkFitsLine
  <1>1. ASSUME [Next]_vars, pc # "running", pc' = "running"
        PROVE  link'.op = 15 <=> line'[1] = Vdsl2
    <2>1. PICK o \in Overrides : Start(o)
      BY <1>1 DEF Next, Edit, Start, StartRefused, StartFails, Reload, RestartLine, Stop, vars
    <2> DEFINE c == LoadOrDefault(o, uci)
    <2>2. /\ c.modulation \in {Adsl2Plus, Vdsl2}
          /\ c.xfer_mode \in {"atm", "ptm"}
          /\ c.xfer_mode = "ptm" <=> c.modulation = Vdsl2
      BY <2>1, LoadRange DEF Start, Valid, ValidateXferMode, Adsl2Plus, Vdsl2
    <2>3. line'[1] = c.modulation
      BY <2>1 DEF Start, PackDslLine
    <2>4. link'.op = 15 <=> c.xfer_mode = "ptm"
      BY <2>1 DEF Start, LinkAdd
    <2> QED  BY <2>2, <2>3, <2>4
  <1> QED  BY <1>1, PTL DEF Spec, LinkFitsLine

-----------------------------------------------------------------------------
(* What startup refuses.                                                   *)

\* A configuration build() made is refused for its transfer mode only.
LEMMA RefusedForTransport ==
  ASSUME NEW o, NEW u, ~Valid(LoadOrDefault(o, u))
  PROVE  LET c == Build(o, u)
         IN  /\ BuildOk(o, u)
             /\ \/ c.modulation = Vdsl2 /\ c.xfer_mode = "atm"
                \/ c.modulation = Adsl2Plus /\ c.xfer_mode = "ptm"
  <1>1. Valid(DefaultConfig)
    BY DEF Valid, DefaultConfig, ValidateLineConfig, ValidateXferMode, AnnexLetters,
           ValidAnnexes, Vdsl2, Multimode, AnnexAuto
  <1>2. BuildOk(o, u) /\ LoadOrDefault(o, u) = Build(o, u)
    BY <1>1 DEF LoadOrDefault
  <1> DEFINE c == Build(o, u)
  <1>3. /\ c.modulation \in {Adsl2Plus, Vdsl2}
        /\ c.annex \in {0, 1, 2, 3, 6}
        /\ c.modulation = Adsl2Plus => c.profiles = {}
        /\ c.xfer_mode \in {"atm", "ptm"}
    BY <1>2, BuildRange
  <1>4. ValidateLineConfig(c.modulation, c.annex, c.profiles)
    <2>1. c.profiles # {} => c.modulation \in {Vdsl2, Multimode}
      BY <1>3
    <2>2. c.modulation \notin {0, 2}
      BY <1>3 DEF Adsl2Plus, Vdsl2
    <2>3. ValidAnnexes(c.modulation) = {"A", "B", "C", "I", "J", "L", "M"}
      BY <1>3 DEF ValidAnnexes, Adsl2Plus, Vdsl2
    <2>4. \A l \in AnnexLetters(c.annex) : l \in {"A", "B", "I", "J", "M"}
      BY <1>3 DEF AnnexLetters
    <2> QED  BY <2>1, <2>2, <2>3, <2>4 DEF ValidateLineConfig
  <1>5. ~ValidateXferMode(c.modulation, c.xfer_mode)
    BY <1>2, <1>4 DEF Valid
  <1> QED  BY <1>2, <1>3, <1>5 DEF ValidateXferMode, Adsl2Plus, Vdsl2

\* The texts behind a parsed value.
LEMMA ParseFacts ==
  ASSUME NEW s
  PROVE  /\ ParseModulation(s) = Vdsl2 => s \in {"vdsl", ""}
         /\ ParseModulation(s) = Adsl2Plus => s = "adsl"
         /\ ParseXferMode(s) = "atm" => Trim(s) = "atm"
         /\ ParseXferMode(s) = "ptm" => Trim(s) \in {"ptm", ""}
  <1>1. Vdsl2 # Adsl2Plus /\ Vdsl2 # Err /\ Adsl2Plus # Err
    BY DEF Vdsl2, Adsl2Plus, Err
  <1>2. /\ s \in {"vdsl", ""} => ParseModulation(s) = Vdsl2
        /\ s = "adsl" => ParseModulation(s) = Adsl2Plus
        /\ s \notin {"vdsl", "", "adsl"} => ParseModulation(s) = Err
    BY DEF ParseModulation
  <1>3. /\ Trim(s) = "atm" => ParseXferMode(s) = "atm"
        /\ Trim(s) \in {"ptm", ""} => ParseXferMode(s) = "ptm"
        /\ Trim(s) \notin {"ptm", "", "atm"} => ParseXferMode(s) = "error"
    BY DEF ParseXferMode
  <1> QED  BY <1>1, <1>2, <1>3

\* Trimming leaves the two transfer modes alone, and no given text trims to nothing.
LEMMA TrimFacts ==
  /\ Trim("atm") = "atm"
  /\ Trim("ptm") = "ptm"
  /\ \A s : s # "" => Trim(s) # ""
  <1>1. \A s : s \notin {"", " atm", "17a 35b", "8a 99z"} => Words(s) = <<s>>
    BY DEF Words
  <1>2. /\ Words(" atm") = <<"atm">>
        /\ Words("17a 35b") = <<"17a", "35b">>
        /\ Words("8a 99z") = <<"8a", "99z">>
    BY DEF Words
  <1>3. ASSUME NEW s, NEW w, Words(s) = <<w>>  PROVE Trim(s) = w
    BY <1>3 DEF Trim
  <1>4. ASSUME NEW s, NEW v, NEW w, Words(s) = <<v, w>>  PROVE Trim(s) = s
    BY <1>4 DEF Trim
  <1>5. Trim(" atm") = "atm"
    BY <1>2, <1>3, Zenon
  <1>6. Trim("17a 35b") = "17a 35b" /\ Trim("8a 99z") = "8a 99z"
    BY <1>2, <1>4, Zenon
  <1> QED  BY <1>1, <1>3, <1>5, <1>6

\* Startup refuses self-contradictory options only.
THEOREM RefusalCorrect == Spec => []RefusalIsContradiction
  <1>1. Init => RefusalIsContradiction
    BY DEF Init, RefusalIsContradiction
  <1>2. ASSUME RefusalIsContradiction, [Next]_vars  PROVE RefusalIsContradiction'
    <2>1. ASSUME NEW o \in Overrides, StartRefused(o)  PROVE RefusalIsContradiction'
      <3> DEFINE m == Resolve(o, uci, "line_mode", "")
                 x == Resolve(o, uci, "xfer_mode", "")
      <3>1. \/ /\ ParseModulation(LineMode(o, uci)) = Vdsl2
               /\ ParseXferMode(XferText(o, uci)) = "atm"
            \/ /\ ParseModulation(LineMode(o, uci)) = Adsl2Plus
               /\ ParseXferMode(XferText(o, uci)) = "ptm"
        BY <2>1, RefusedForTransport DEF StartRefused, Build
      <3>2. \/ LineMode(o, uci) \in {"vdsl", ""} /\ Trim(XferText(o, uci)) = "atm"
            \/ LineMode(o, uci) = "adsl" /\ Trim(XferText(o, uci)) \in {"ptm", ""}
        BY <3>1, ParseFacts
      <3>3. LineMode(o, uci) = IF m # "" THEN m ELSE IF x = "atm" THEN "adsl" ELSE "vdsl"
        BY DEF LineMode, Resolve
      <3>4. XferText(o, uci) = IF x # "" THEN x
                               ELSE IF LineMode(o, uci) = "adsl" THEN "atm" ELSE "ptm"
        BY DEF XferText, Resolve
      <3>5. \/ m = "vdsl" /\ Trim(x) = "atm"
            \/ m = "adsl" /\ Trim(x) = "ptm"
            \/ m = "" /\ x # Trim(x)
        BY <3>2, <3>3, <3>4, TrimFacts
      <3> QED  BY <2>1, <3>5 DEF StartRefused, RefusalIsContradiction
    <2>2. ASSUME NEW k \in Options, NEW v \in Values[k], Edit(k, v)
          PROVE RefusalIsContradiction'
      BY <2>2 DEF Edit, RefusalIsContradiction
    <2>3. ASSUME NEW o \in Overrides, Start(o) \/ StartFails(o)
          PROVE RefusalIsContradiction'
      BY <2>3 DEF Start, StartFails, RefusalIsContradiction
    <2>4. CASE Reload \/ RestartLine \/ Stop
      BY <2>4 DEF Reload, RestartLine, Stop, RefusalIsContradiction
    <2>5. CASE UNCHANGED vars
      BY <1>2, <2>5 DEF vars, RefusalIsContradiction
    <2> QED  BY <1>2, <2>1, <2>2, <2>3, <2>4, <2>5 DEF Next
  <1> QED  BY <1>1, <1>2, PTL DEF Spec

-----------------------------------------------------------------------------
(* The transport VLAN.                                                     *)

\* Whatever the text says, the index that build() makes of it is clamped to 0 .. 7.
LEMMA VlanBaseRange ==
  ASSUME NEW o, NEW u
  PROVE  LoadOrDefault(o, u).transport_vlan_base \in 0 .. 7
  <1> DEFINE n == ParseOr(Resolve(o, u, "transport_vlan", ""), 255, 0)
  <1>1. n \in 0 .. 255
    <2>1. \A s : ParseOr(s, 255, 0) \in 0 .. 255
      <3> TAKE s
      <3>1. CASE Number(s) \in 0 .. 255
        BY <3>1 DEF ParseOr
      <3>2. CASE Number(s) \notin 0 .. 255
        BY <3>2 DEF ParseOr
      <3> QED  BY <3>1, <3>2
    <2> QED  BY <2>1
  <1> HIDE DEF n
  <1>2. \E x \in {7, n} : \A y \in {7, n} : x =< y
    BY <1>1
  <1>3. Min({7, n}) \in {7, n} /\ Min({7, n}) <= 7
    BY <1>2 DEF Min
  <1>4. Min({7, n}) \in 0 .. 7
    BY <1>1, <1>3
  <1>5. VlanBase(o, u) \in 0 .. 7
    BY <1>4 DEF VlanBase, n
  <1>6. Build(o, u).transport_vlan_base \in 0 .. 7
    BY <1>5 DEF Build
  <1> QED  BY <1>6 DEF LoadOrDefault, DefaultConfig

\* The two bytes of a transport VLAN read back as that VLAN.
LEMMA VlanBytes ==
  ASSUME NEW v \in 2000 .. 2007
  PROVE  256 * ByteAt(v, 256) + ByteAt(v, 1) = v
  <1>1. v \div 256 = 7 /\ v % 256 = v - 1792 /\ v \div 1 = v
    OBVIOUS
  <1> QED  BY <1>1 DEF ByteAt

\* Each link-add carries the transport VLAN at the offset the board reads it from.
LEMMA LinkAddVlan ==
  ASSUME NEW c, c.transport_vlan_base \in 0 .. 7
  PROVE  LET l == LinkAdd(c)
         IN  Read16(l.payload, IF l.op = 5 THEN 18 ELSE 6) \in 2000 .. 2007
  <1> DEFINE v == c.transport_vlan_base + 2000
  <1>1. v \in 2000 .. 2007
    OBVIOUS
  <1> HIDE DEF v
  <1>2. Read16(PackPtmLink(v), 6) = 256 * ByteAt(v, 256) + ByteAt(v, 1)
    BY DEF Read16, PackPtmLink
  <1>3. Read16(PackAtmLink(c.atm, v), 18) = 256 * ByteAt(v, 256) + ByteAt(v, 1)
    BY DEF Read16, PackAtmLink
  <1>4. CASE c.xfer_mode = "ptm"
    <2>1. LinkAdd(c) = [op |-> 15, payload |-> PackPtmLink(v)]
      BY <1>4 DEF LinkAdd, v
    <2> QED  BY <1>1, <1>2, <2>1, VlanBytes
  <1>5. CASE c.xfer_mode # "ptm"
    <2>1. LinkAdd(c) = [op |-> 5, payload |-> PackAtmLink(c.atm, v)]
      BY <1>5 DEF LinkAdd, v
    <2> QED  BY <1>1, <1>3, <2>1, VlanBytes
  <1> QED  BY <1>4, <1>5

\* The board is only ever given the transport VLANs 2000 to 2007.
THEOREM TransportVlanCorrect == Spec => []TransportVlan
  <1>1. Init => TransportVlan
    BY DEF Init, TransportVlan
  <1>2. TransportVlan /\ [Next]_vars => TransportVlan'
    <2> SUFFICES ASSUME TransportVlan, [Next]_vars  PROVE TransportVlan'
      OBVIOUS
    <2>1. ASSUME NEW o \in Overrides, Start(o)  PROVE TransportVlan'
      <3>1. link' = LinkAdd(LoadOrDefault(o, uci))
        BY <2>1 DEF Start
      <3> QED  BY <3>1, LinkAddVlan, VlanBaseRange DEF TransportVlan
    <2>2. CASE UNCHANGED link
      BY <2>2 DEF TransportVlan
    <2> QED  BY <2>1, <2>2
               DEF Next, Edit, StartRefused, StartFails, Reload, RestartLine, Stop, vars
  <1> QED  BY <1>1, <1>2, PTL DEF Spec
=============================================================================

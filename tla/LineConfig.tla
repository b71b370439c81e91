----------------------------- MODULE LineConfig -----------------------------
(***************************************************************************)
(* From UCI to the wire: the options an operator sets (files/dsl_defaults, *)
(* uci), the command line's overrides, DslConfig::build (uci_cfg.rs), the  *)
(* validation that guards startup (validate.rs), the payloads of opcodes   *)
(* 1, 5 and 15 (pack.rs), and the ways a configuration takes effect: the   *)
(* start of the daemon (daemon.rs), a reload and a restart of the line     *)
(* (board_worker.rs).                                                      *)
(*                                                                         *)
(* Sequential: threads, signals and operations that fail are in Daemon.    *)
(* What is recorded of the board is what the daemon transmits to it.       *)
(***************************************************************************)
EXTENDS Integers, Sequences, FiniteSetsExt

CONSTANTS
  Values,     \* option name -> the texts an operator may give it
  Overrides,  \* the command lines in use
  MaxEdits,   \* bound: edits of UCI
  None        \* no configuration, no ATM section, nothing transmitted

\* The options of network.dsl and of the atm-bridge section.  An absent one
\* reads as the empty text.
Options == {"line_mode", "xfer_mode", "annex", "tone", "vpi", "vci", "encaps",
            "payload", "bitswap", "sra", "transport_vlan"}

ASSUME ValuesAssumption == DOMAIN Values = Options
ASSUME OverridesAssumption == \A o \in Overrides : DOMAIN o = Options
ASSUME MaxEditsAssumption == MaxEdits \in Nat

VARIABLES
  uci,    \* the options on disk
  ov,     \* CliOverrides of the process
  pc,     \* "stopped", "refused" (exit code 1), "running"
  cfg,    \* the daemon's DslConfig
  line,   \* payload of the last opcode 1, None after an opcode 3
  link,   \* the last link-add: opcode and payload
  fresh,  \* uci has not changed since it was last read
  edits   \* edits so far

vars == <<uci, ov, pc, cfg, line, link, fresh, edits>>

-----------------------------------------------------------------------------
(* Texts.                                                                  *)

\* str::split_whitespace, on the texts in use that are not one bare word
Words(s) ==
  CASE s = "" -> <<>>
    [] s = " atm" -> <<"atm">>
    [] s = "17a 35b" -> <<"17a", "35b">>
    [] s = "8a 99z" -> <<"8a", "99z">>
    [] OTHER -> <<s>>

\* str::trim
Trim(s) == IF Len(Words(s)) = 1 THEN Words(s)[1] ELSE s

\* The numerals in use; any other text is not a number.
Number(s) ==
  CASE s = "0" -> 0 [] s = "1" -> 1 [] s = "7" -> 7 [] s = "9" -> 9
    [] s = "8" -> 8 [] s = "35" -> 35 [] s = "300" -> 300 [] OTHER -> -1

\* parse::<u8>(), parse::<u16>(), ... followed by unwrap_or
ParseOr(s, max, default) == IF Number(s) \in 0 .. max THEN Number(s) ELSE default

\* Override, then UCI, then the default.
Resolve(o, u, k, default) ==
  IF o[k] # "" THEN o[k] ELSE IF u[k] # "" THEN u[k] ELSE default

-----------------------------------------------------------------------------
(* The codes of libcmm.so.                                                 *)

Err == -1         \* a text that does not parse

Adsl2Plus == 4
Vdsl2     == 6
Multimode == 7
AnnexAuto == 8

Modulations == 0 .. Multimode
Annexes     == 0 .. AnnexAuto

ProfileBit ==
  [p \in {"8a", "8b", "8c", "8d", "12a", "12b", "17a", "30a", "35b"} |->
    CASE p = "8a" -> 1 [] p = "8b" -> 2 [] p = "8c" -> 4 [] p = "8d" -> 8
      [] p = "12a" -> 16 [] p = "12b" -> 32 [] p = "17a" -> 64
      [] p = "30a" -> 128 [] p = "35b" -> 256]

\* Vdsl2Profiles::bitmask: the profiles are distinct bits, so | is +
Bitmask(profiles) == SumSet({ProfileBit[p] : p \in profiles})

\* Mutant of ParseModulation: adsl selects G.dmt.
ParseModulationGdmt(s) ==
  CASE s \in {"vdsl", ""} -> Vdsl2 [] s = "adsl" -> 1 [] OTHER -> Err

ParseModulation(s) ==
  CASE s \in {"vdsl", ""} -> Vdsl2 [] s = "adsl" -> Adsl2Plus [] OTHER -> Err

ParseAnnex(s) ==
  CASE Trim(s) \in {"a", "A"} -> 0
    [] Trim(s) \in {"b", "B"} -> 1
    [] Trim(s) \in {"i", "I"} -> 2
    [] Trim(s) \in {"m", "M"} -> 3
    [] Trim(s) \in {"j", "J"} -> 6
    [] OTHER -> Err

\* A tone with an unknown profile is an error; the others are a set of profiles.
ToneOk(s) ==
  \/ Trim(s) \in {"", "a", "av"}
  \/ \A i \in DOMAIN Words(s) : Words(s)[i] \in DOMAIN ProfileBit

ParseTone(s) ==
  CASE Trim(s) \in {"", "a"} -> {}
    [] Trim(s) = "av" -> DOMAIN ProfileBit
    [] OTHER -> {Words(s)[i] : i \in DOMAIN Words(s)}

ParseXferMode(s) ==
  CASE Trim(s) \in {"ptm", ""} -> "ptm" [] Trim(s) = "atm" -> "atm" [] OTHER -> "error"

ParseEncaps(s) ==
  CASE Trim(s) = "llc" -> 0 [] Trim(s) = "vcmux" -> 1 [] OTHER -> Err

ParsePayload(s) ==
  CASE Trim(s) = "bridged" -> 0 [] Trim(s) = "pppoa" -> 6 [] Trim(s) = "routed" -> 7
    [] OTHER -> Err

-----------------------------------------------------------------------------
(* DslConfig::build                                                        *)

\* Mutant of LineMode: no inference from the transfer mode.
LineModeGiven(o, u) == Resolve(o, u, "line_mode", "vdsl")

\* The line mode as given, else inferred from the transfer mode as given (not
\* trimmed), else vdsl.
LineMode(o, u) ==
  Resolve(o, u, "line_mode",
          IF Resolve(o, u, "xfer_mode", "") = "atm" THEN "adsl" ELSE "vdsl")

\* The smart defaults.
XferText(o, u) ==
  Resolve(o, u, "xfer_mode", IF LineMode(o, u) = "adsl" THEN "atm" ELSE "ptm")
ToneText(o, u) ==
  Resolve(o, u, "tone", IF LineMode(o, u) = "adsl" THEN "" ELSE "av")
AnnexText(o, u) == Resolve(o, u, "annex", "b")

EncapsText(o, u)  == Resolve(o, u, "encaps", "llc")
PayloadText(o, u) == Resolve(o, u, "payload", "bridged")

\* No field fails to parse; the ATM fields are looked at for ATM only.
BuildOk(o, u) ==
  /\ ParseModulation(LineMode(o, u)) # Err
  /\ ParseAnnex(AnnexText(o, u)) # Err
  /\ ToneOk(ToneText(o, u))
  /\ ParseXferMode(XferText(o, u)) # "error"
  /\ ParseXferMode(XferText(o, u)) = "atm" =>
       ParseEncaps(EncapsText(o, u)) # Err /\ ParsePayload(PayloadText(o, u)) # Err

BuildAtm(o, u) ==
  [vpi       |-> ParseOr(Resolve(o, u, "vpi", "8"), 255, 8),
   vci       |-> ParseOr(Resolve(o, u, "vci", "35"), 65535, 35),
   encap     |-> ParseEncaps(EncapsText(o, u)),
   link_type |-> ParsePayload(PayloadText(o, u)),
   qos       |-> 1,
   pcr       |-> 0]

\* bitswap, sra: an override is a Boolean; UCI's is a number, and anything but 0 is on
Switch(o, u, k) ==
  IF o[k] # "" THEN o[k] = "true" ELSE Number(u[k]) # 0

\* Mutant of VlanBase: the index is not clamped.
VlanBaseUnclamped(o, u) == ParseOr(Resolve(o, u, "transport_vlan", ""), 255, 0)

VlanBase(o, u) == Min({7, ParseOr(Resolve(o, u, "transport_vlan", ""), 255, 0)})

Build(o, u) ==
  LET m == ParseModulation(LineMode(o, u))
      x == ParseXferMode(XferText(o, u))
  IN  [modulation |-> m,
       annex      |-> ParseAnnex(AnnexText(o, u)),
       profiles   |-> IF m \in {Vdsl2, Multimode} THEN ParseTone(ToneText(o, u)) ELSE {},
       xfer_mode  |-> x,
       atm        |-> IF x = "atm" THEN BuildAtm(o, u) ELSE None,
       bitswap    |-> Switch(o, u, "bitswap"),
       sra        |-> Switch(o, u, "sra"),
       transport_vlan_base |-> VlanBase(o, u)]

\* DslConfig::default
DefaultConfig ==
  [modulation |-> Vdsl2, annex |-> 1, profiles |-> DOMAIN ProfileBit,
   xfer_mode |-> "ptm", atm |-> None, bitswap |-> TRUE, sra |-> TRUE,
   transport_vlan_base |-> 0]

\* What run() starts from: a configuration that cannot be loaded is replaced.
LoadOrDefault(o, u) == IF BuildOk(o, u) THEN Build(o, u) ELSE DefaultConfig

-----------------------------------------------------------------------------
(* validate.rs                                                             *)

\* The letters of a modulation's standard; T1.413 (0) and G.lite (2) have none.
ValidAnnexes(m) ==
  CASE m = 1 -> {"A", "B", "C"}
    [] m = 3 -> {"A", "B", "C", "I", "J", "M"}
    [] m \in 4 .. 7 -> {"A", "B", "C", "I", "J", "L", "M"}
    [] OTHER -> {}

AnnexLetters(a) ==
  CASE a = 0 -> {"A"} [] a = 1 -> {"B"} [] a = 2 -> {"I"} [] a = 3 -> {"M"}
    [] a = 4 -> {"A", "L"} [] a = 5 -> {"A", "L", "M"} [] a = 6 -> {"J"}
    [] a = 7 -> {"B", "J"} [] OTHER -> {}

ValidateLineConfig(m, a, profiles) ==
  /\ profiles # {} => m \in {Vdsl2, Multimode}
  /\ a # AnnexAuto =>
       m \notin {0, 2} /\ \A l \in AnnexLetters(a) : l \in ValidAnnexes(m)

\* Mutant of ValidateXferMode: only VDSL2 is looked at.
ValidateXferModeVdsl(m, x) == m = Vdsl2 => x = "ptm"

ValidateXferMode(m, x) == (m = Vdsl2 => x = "ptm") /\ (m \in 0 .. 5 => x = "atm")

Valid(c) ==
  /\ ValidateLineConfig(c.modulation, c.annex, c.profiles)
  /\ ValidateXferMode(c.modulation, c.xfer_mode)

-----------------------------------------------------------------------------
(* pack.rs: payloads without the leading opcode; offset k is index k + 1.  *)

\* A byte of to_be_bytes: place is 1 for the last one, 256 for the one before it.
ByteAt(n, place) == (n \div place) % 256

Flag(b) == IF b THEN 1 ELSE 0

PackDslLine(c) ==
  LET mask == IF c.modulation \in {Vdsl2, Multimode} THEN Bitmask(c.profiles) ELSE 0
  IN  <<c.modulation, c.annex, Flag(c.bitswap), Flag(c.sra),
        ByteAt(mask, 16777216), ByteAt(mask, 65536), ByteAt(mask, 256), ByteAt(mask, 1),
        0, 0, 0, 0>>

\* With atm_params: UBR, which carries no SCR and MBS; the default tag.
PackAtmLink(a, vlan) ==
  <<a.qos, a.vpi, ByteAt(a.vci, 256), ByteAt(a.vci, 1),
    ByteAt(a.pcr, 16777216), ByteAt(a.pcr, 65536), ByteAt(a.pcr, 256), ByteAt(a.pcr, 1),
    0, 0, 0, 0, 0, 0, 0, 0,
    a.encap, a.link_type, ByteAt(vlan, 256), ByteAt(vlan, 1),
    0, 255, 255, 255>>

\* Untagged, as run() asks for it.
PackPtmLink(vlan) == <<0, 0, 0, 0, 0, 0, ByteAt(vlan, 256), ByteAt(vlan, 1)>>

\* The link-add of run(): opcode 15 for PTM, 5 for ATM
LinkAdd(c) ==
  LET vlan == c.transport_vlan_base + 2000
  IN  IF c.xfer_mode = "ptm"
      THEN [op |-> 15, payload |-> PackPtmLink(vlan)]
      ELSE [op |-> 5, payload |-> PackAtmLink(c.atm, vlan)]

-----------------------------------------------------------------------------
Unset == [k \in Options |-> ""]

\* The options after dsl_defaults ran: a section that is there already is kept,
\* and the ATM section is generated only where xfer_mode is atm or unset.
FirstBoot(hasDsl) ==
  IF hasDsl
  THEN [Unset EXCEPT !.vpi = "8", !.vci = "35", !.encaps = "llc", !.payload = "bridged"]
  ELSE [Unset EXCEPT !.annex = "b", !.line_mode = "vdsl", !.tone = "av",
                     !.xfer_mode = "ptm", !.bitswap = "1", !.sra = "1",
                     !.transport_vlan = "0"]

Init ==
  /\ uci \in {FirstBoot(FALSE), FirstBoot(TRUE)}
  /\ ov \in Overrides
  /\ pc = "stopped" /\ cfg = None /\ line = None /\ link = None
  /\ fresh = FALSE /\ edits = 0

\* uci set, uci delete (the empty text), uci commit
Edit(k, v) ==
  /\ edits < MaxEdits
  /\ v # uci[k]
  /\ uci' = [uci EXCEPT ![k] = v]
  /\ fresh' = FALSE
  /\ edits' = edits + 1
  /\ UNCHANGED <<ov, pc, cfg, line, link>>

\* run() up to the link-add
Start(o) ==
  /\ pc # "running"
  /\ Valid(LoadOrDefault(o, uci))
  /\ ov' = o
  /\ pc' = "running"
  /\ cfg' = LoadOrDefault(o, uci)
  /\ line' = PackDslLine(cfg')
  /\ link' = LinkAdd(cfg')
  /\ fresh' = TRUE
  /\ UNCHANGED <<uci, edits>>

\* run() returns 1 before it transmits anything
StartRefused(o) ==
  /\ pc # "running"
  /\ ~Valid(LoadOrDefault(o, uci))
  /\ ov' = o
  /\ pc' = "refused"
  /\ cfg' = None
  /\ fresh' = TRUE
  /\ UNCHANGED <<uci, line, link, edits>>

\* run() returns 1 as well: no management interface, or no socket on it
StartFails(o) ==
  /\ pc # "running"
  /\ Valid(LoadOrDefault(o, uci))
  /\ ov' = o
  /\ pc' = "stopped"
  /\ cfg' = None
  /\ fresh' = TRUE
  /\ UNCHANGED <<uci, line, link, edits>>

\* Mutant of ConfigChanged: the annex is not compared.
ConfigChangedNoAnnex(old, new) ==
  \/ old.modulation # new.modulation
  \/ Bitmask(old.profiles) # Bitmask(new.profiles)
  \/ old.xfer_mode # new.xfer_mode

\* config_changed
ConfigChanged(old, new) ==
  \/ old.modulation # new.modulation
  \/ old.annex # new.annex
  \/ Bitmask(old.profiles) # Bitmask(new.profiles)
  \/ old.xfer_mode # new.xfer_mode

\* handle_reload: no validation, no link-add, and nothing at all on a load error
Reload ==
  /\ pc = "running"
  /\ fresh' = TRUE
  /\ IF BuildOk(ov, uci) /\ ConfigChanged(cfg, Build(ov, uci))
     THEN cfg' = Build(ov, uci) /\ line' = PackDslLine(cfg')
     ELSE UNCHANGED <<cfg, line>>
  /\ UNCHANGED <<uci, ov, pc, link, edits>>

\* handle_restart
RestartLine ==
  /\ pc = "running"
  /\ line' = PackDslLine(cfg)
  /\ UNCHANGED <<uci, ov, pc, cfg, link, fresh, edits>>

\* The worker's last line_config_down, and the end of the process
Stop ==
  /\ pc = "running"
  /\ pc' = "stopped"
  /\ cfg' = None
  /\ line' = None
  /\ UNCHANGED <<uci, ov, link, fresh, edits>>

Next ==
  \/ \E k \in Options : \E v \in Values[k] : Edit(k, v)
  \/ \E o \in Overrides : Start(o) \/ StartRefused(o) \/ StartFails(o)
  \/ Reload
  \/ RestartLine
  \/ Stop

Spec == Init /\ [][Next]_vars

-----------------------------------------------------------------------------
(* Properties.                                                             *)

\* The fields of a payload as the board reads them (docs/xdsl/payloads.md).
Read16(p, offset) == 256 * p[offset + 1] + p[offset + 2]
Read32(p, offset) == 65536 * Read16(p, offset) + Read16(p, offset + 2)

\* Everything but the bitswap and SRA bytes of an opcode 1.
Compared(l) == <<l[1], l[2], Read32(l, 4)>>

\* The modulation and annex codes that go together: the matrix "Valid modulation
\* x annex combinations" of docs/xdsl/modulation_annex.md, row by row.
Matrix ==
  ({0, 2} \X {8}) \union ({1} \X {0, 1, 8}) \union ({3} \X {0, 1, 2, 3, 6, 7, 8})
    \union ((4 .. 7) \X Annexes)

\* What opcode 1 carries is a documented combination, profiles go with VDSL2 only,
\* even after a reload, which validates nothing.
LineRules ==
  line # None =>
    /\ <<line[1], line[2]>> \in Matrix
    /\ Read32(line, 4) # 0 => line[1] \in {6, 7}

\* A reload is as good as a restart of the daemon, for options a start accepts: when
\* they were read since they last changed, the line runs what they say, bitswap and SRA
\* apart, which config_changed does not look at.  That holds whatever was reloaded in
\* between, options that a start refuses and a reload transmits included.
ReloadIsRestart ==
  pc = "running" /\ fresh /\ BuildOk(ov, uci) /\ Valid(Build(ov, uci)) =>
    Compared(line) = Compared(PackDslLine(Build(ov, uci)))

\* Startup refuses only what the operator contradicted himself in: a line mode and
\* a transfer mode both given and at odds, or a transfer mode given with blanks
\* around it, which build() trims for the transfer mode and not for the line mode.
\* Options left out are filled in consistently.
RefusalIsContradiction ==
  pc = "refused" /\ fresh =>
    LET m == Resolve(ov, uci, "line_mode", "")
        x == Resolve(ov, uci, "xfer_mode", "")
    IN  \/ m = "vdsl" /\ Trim(x) = "atm"
        \/ m = "adsl" /\ Trim(x) = "ptm"
        \/ m = "" /\ x # Trim(x)

\* A daemon that starts has set the line and the link up for the same transport:
\* opcode 15 (PTM) with VDSL2, opcode 5 (ATM) with an ADSL modulation.
LinkFitsLine ==
  [][pc # "running" /\ pc' = "running" =>
       (link'.op = 15 <=> line'[1] = Vdsl2)]_vars

\* The board is only ever given the transport VLANs 2000 to 2007, whatever text or
\* override the index came from, at the offset of each link-add.
TransportVlan ==
  link # None =>
    Read16(link.payload, IF link.op = 5 THEN 18 ELSE 6) \in 2000 .. 2007
=============================================================================

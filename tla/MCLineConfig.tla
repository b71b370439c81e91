---------------------------- MODULE MCLineConfig ----------------------------
(* Instances of LineConfig for TLC. *)
EXTENDS LineConfig

\* For every option: absent, the values that select different outcomes, and one
\* that does not parse.
MCValues ==
  [k \in Options |->
    CASE k = "line_mode" -> {"", "vdsl", "adsl", "dsl"}
      [] k = "xfer_mode" -> {"", "ptm", "atm", " atm", "eth"}
      [] k = "annex" -> {"", "a", "J", "m", "x"}
      [] k = "tone" -> {"", "a", "av", "17a 35b", "8a 99z"}
      [] k = "vpi" -> {"", "0", "300"}
      [] k = "vci" -> {"", "300"}
      [] k = "encaps" -> {"", "vcmux", "x"}
      [] k = "payload" -> {"", "routed", "pppoa", "x"}
      [] k \in {"bitswap", "sra"} -> {"", "0", "x"}
      [] k = "transport_vlan" -> {"", "7", "9", "300"}]

\* procd's command line, which has no overrides, and two given by hand.
MCOverrides ==
  {Unset,
   [Unset EXCEPT !.xfer_mode = "atm", !.sra = "false"],
   [Unset EXCEPT !.line_mode = "adsl", !.annex = "m", !.transport_vlan = "9"]}
=============================================================================

------------------------------ MODULE MCDaemon ------------------------------
(* Instances of Daemon for TLC. *)
EXTENDS Daemon

\* Two valid configurations that differ in every compared setting, one that
\* differs from the first in uncompared settings only.
MCConfigs ==
  {[mod |-> "vdsl", xfer |-> "ptm", sra |-> TRUE, vlan |-> 2000],
   [mod |-> "adsl", xfer |-> "atm", sra |-> TRUE, vlan |-> 2000],
   [mod |-> "vdsl", xfer |-> "ptm", sra |-> FALSE, vlan |-> 2007]}

MCTwoConfigs == {c \in MCConfigs : c.sra}
=============================================================================

-------------------------- MODULE MCNginxProvision --------------------------
(* Small instances of NginxProvision for TLC.                                *)
EXTENDS NginxProvision

CONSTANTS c1, c2, bad
MCConfs == {c1, c2, bad}
MCBad == {bad}
=============================================================================

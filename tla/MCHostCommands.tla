--------------------------- MODULE MCHostCommands ---------------------------
(* Two requests at once, one domain, one account with two passwords.        *)
EXTENDS HostCommands
=============================================================================

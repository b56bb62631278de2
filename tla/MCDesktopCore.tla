---------------------------- MODULE MCDesktopCore ----------------------------
EXTENDS DesktopCore

\* A line that names a milder level, one that names a worse one, and a blank one.
MCLines == {
  [own |-> "WARN", words |-> {"WARN", "DEBUG"}, blank |-> FALSE],
  [own |-> "INFO", words |-> {"INFO", "ERROR"}, blank |-> FALSE],
  [own |-> "none", words |-> {}, blank |-> TRUE]}
=============================================================================

----------------------------- MODULE MCWeek04Run ----------------------------
\* Small instances of Week04Run.
EXTENDS Week04Run

TwoCallers == {Script, Operator}
OneWatcher == {Script}
=============================================================================

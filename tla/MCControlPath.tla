---------------------------- MODULE MCControlPath ----------------------------
EXTENDS ControlPath

UserHabits == {{"key", "pause"}, {"request"}, {"pad"}, {"mouse", "pause"}}
=============================================================================

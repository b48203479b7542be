-------------------------- MODULE MCStaleRecovery --------------------------
(***************************************************************************)
(* StaleRecovery for TLC, in units of ten minutes: the settings' defaults, *)
(* rounded up to whole units.                                              *)
(***************************************************************************)
EXTENDS StaleRecovery

Unit == 600
Units(seconds) == (seconds + Unit - 1) \div Unit

DefaultStaleTimeout == Units(3600)
DefaultInterval     == Units(60)
DefaultTimeLimit    == Units(1800)
===========================================================================

------------------------------ MODULE MCOutbox ------------------------------
(* Instance of TimedOutbox for TLC: one QQ notice and one incident mail that  *)
(* may be withdrawn, besides the fallback mail of the former.                 *)
EXTENDS TimedOutbox

CONSTANTS qq, alarm

MCKeys == {qq, alarm}
MCQQKeys == {qq}
MCCriticalKeys == {alarm}

=============================================================================

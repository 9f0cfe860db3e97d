----------------------------- MODULE MCIncidents -----------------------------
(* Instance of Incidents for TLC: the keys are exactly the dedup keys its     *)
(* incidents and warnings use; nothing goes to QQ.                            *)
EXTENDS Incidents

MCCriticalKeys == {OpenKey(i) : i \in Ids}
MCKeys == MCCriticalKeys \cup {CloseKey(i) : i \in Ids} \cup {WarnKey(t) : t \in Times}

=============================================================================

----------------------------- MODULE PrepareUnit -----------------------------
(***************************************************************************)
(* What the SnowLuma gateway may rely on when it starts the root-owned     *)
(* login preparation: systemd runs one instance at a time, the instance    *)
(* works for the account it found in the request file, writes that account *)
(* into the gateway's configuration file at most, replaces the QQ client   *)
(* by one of that account only after that, and reports success only when   *)
(* the file names it.  A failing instance leaves what it has written.      *)
(*                                                                         *)
(* Success promises nothing of the client: after an instance that failed   *)
(* between supervisord's file and its update the next one takes the client *)
(* that still runs for the account's.                                      *)
(*                                                                         *)
(* LoginUnits shows that prepare_login.py keeps this; Gateway is built     *)
(* upon it.                                                                *)
(***************************************************************************)
CONSTANTS
  Accounts,    \* QQ accounts
  Nobody       \* stands for no account

VARIABLES
  unit,        \* the account the running instance works for, or Nobody
  file,        \* account in the gateway's configuration file
  client,      \* account whose QQ client supervisord runs
  answer       \* what systemctl says of the last instance: none, ok, failed

unitVars == <<unit, file, client, answer>>

Start(a) == unit = Nobody /\ unit' = a /\ answer' = "none" /\ UNCHANGED <<file, client>>

WriteFile == unit # Nobody /\ file' = unit /\ UNCHANGED <<unit, client, answer>>

ReplaceClient == unit # Nobody /\ file = unit /\ client' = unit /\ UNCHANGED <<unit, file, answer>>

Succeed ==
  unit # Nobody /\ file = unit /\ unit' = Nobody /\ answer' = "ok" /\ UNCHANGED <<file, client>>

Fail == unit # Nobody /\ unit' = Nobody /\ answer' = "failed" /\ UNCHANGED <<file, client>>

UnitInit == unit = Nobody /\ file \in Accounts /\ client \in Accounts /\ answer = "none"

UnitNext == WriteFile \/ ReplaceClient \/ Succeed \/ Fail \/ \E a \in Accounts : Start(a)

UnitSpec == UnitInit /\ [][UnitNext]_unitVars

=============================================================================

--------------------------- MODULE DurableSettings ---------------------------
(***************************************************************************)
(* What the settings service promises about each module, as a host sees    *)
(* it: a version that every change moves on, the version the store holds,  *)
(* and whether the service reports the module as changed since it was last *)
(* written (is_dirty).  Writes only ever move the stored version towards   *)
(* the live one, and a module is only reported unchanged when the store    *)
(* holds its live version.                                                 *)
(***************************************************************************)
EXTENDS Integers

CONSTANTS Regs

VARIABLES
  version,   \* version of the live values
  durable,   \* version the store holds
  reported   \* reported as changed

vars == <<version, durable, reported>>

Init ==
  /\ version = [r \in Regs |-> 0]
  /\ durable = [r \in Regs |-> 0]
  /\ reported = [r \in Regs |-> FALSE]

(* A value changes, and the module is reported as changed from then on. *)
Change(r) ==
  /\ version' = [version EXCEPT ![r] = @ + 1]
  /\ reported' = [reported EXCEPT ![r] = TRUE]
  /\ UNCHANGED durable

(* Some version from the stored one to the live one is written. *)
Write(r) ==
  /\ \E v \in durable[r]..version[r] : durable' = [durable EXCEPT ![r] = v]
  /\ UNCHANGED <<version, reported>>

(* The module is reported as unchanged: the store holds its live version. *)
Settle(r) ==
  /\ durable[r] = version[r]
  /\ reported' = [reported EXCEPT ![r] = FALSE]
  /\ UNCHANGED <<version, durable>>

(* The host starts over from the store. *)
StartOver ==
  /\ version' = [r \in Regs |-> 0]
  /\ durable' = [r \in Regs |-> 0]
  /\ reported' = [r \in Regs |-> FALSE]

Next == StartOver \/ \E r \in Regs : Change(r) \/ Write(r) \/ Settle(r)

Spec == Init /\ [][Next]_vars
=============================================================================

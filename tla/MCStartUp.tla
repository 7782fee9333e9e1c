----------------------------- MODULE MCStartUp -----------------------------
(***************************************************************************)
(* StartUp for TLC.  `torn' remembers the migrations whose process stopped *)
(* between the commit of the file and its row in the ledger.               *)
(***************************************************************************)
EXTENDS StartUp

VARIABLE torn

Torn(r) == IF boot[r] = "log" /\ boot'[r] = "down" THEN {NextFile(r)} ELSE {}

MCInit == BootInit /\ torn = {}

MCNext == BootNext /\ torn' = torn \cup UNION {Torn(r) : r \in Replicas}

MCSpec == MCInit /\ [][MCNext]_<<bootVars, torn>> /\ Fairness

(* A migration that is about to be applied and is there already was left   *)
(* by a process that stopped before it could record it: two processes that *)
(* start together never apply one file twice.                              *)
TwiceOnlyWhenTorn ==
  \A r \in Replicas : (boot[r] = "apply" /\ NextFile(r) \in schema) => NextFile(r) \in torn
=============================================================================

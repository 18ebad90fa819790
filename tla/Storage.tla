------------------------------ MODULE Storage ------------------------------
(***************************************************************************)
(* PostgresStorage: the config of a project (ConfigStore) and its          *)
(* operational tables (Operations).  No transaction and no query touches   *)
(* both, so that interleaving them adds states and no behaviour of either: *)
(* a behaviour exercises the area it starts in.                            *)
(***************************************************************************)
EXTENDS ConfigStore, Operations

VARIABLE area

StorageVars == <<area, vars, opVars>>

StorageInit == area \in {"config", "operations"} /\ Init /\ OperationsInit

StorageNext ==
  /\ \/ area = "config" /\ Next /\ UNCHANGED opVars
     \/ area = "operations" /\ OperationsNext /\ UNCHANGED vars
  /\ UNCHANGED area

StorageSpec == StorageInit /\ [][StorageNext]_StorageVars
=============================================================================

------------------------------ MODULE NvsState ------------------------------
(***************************************************************************)
(* What a node keeps in NVS flash: its messages (message_store.c) and its  *)
(* configuration (node_config.c), both in the namespace "bems_config".     *)
(*                                                                         *)
(* The two meet at a boot, when the store is loaded under the identity the *)
(* configuration has (app_runtime.c:387-394), and at a factory reset, when *)
(* nvs_erase_all takes the blobs of the store along.                       *)
(***************************************************************************)
EXTENDS MessageStoreApi, NodeConfig

CONSTANT Identity       \* the node a stored or made-up node_id names

ASSUME IdentityAssumption == Identity \in [Values -> Nodes]

nvsVars == <<apiVars, nodeVars>>

NvsInit == StoreInit /\ NodeInit /\ identity = Identity[node_id]

\* The tasks that use the store are started after the boot.
Messages == Running /\ StoreOperation /\ UNCHANGED nodeVars

Configuration ==
    /\ \/ MigrationStep \/ MigrationFails \/ MigrationEnds
       \/ http_setup_handler \/ SetupStep \/ SetupFails \/ SetupEnds
    /\ UNCHANGED apiVars

\* One nvs_erase_all for both; one that fails midway has erased any of the blobs.
FactoryReset ==
    \E done \in BOOLEAN, kept \in SUBSET Slots :
        /\ factory_reset_button_task(done) \/ http_reset_handler(done)
        /\ done => kept = {}
        /\ NamespaceErased(kept)

\* message_store_load_messages_from_nvs opens the namespace for itself.
Restart ==
    \E readable \in BOOLEAN :
        /\ esp_restart(readable) \/ PowerLoss(readable)
        /\ Reboot(Identity[node_id'])

NvsNext == Messages \/ Configuration \/ FactoryReset \/ Restart

NvsSpec == NvsInit /\ [][NvsNext]_nvsVars
=============================================================================

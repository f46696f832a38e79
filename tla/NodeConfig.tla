----------------------------- MODULE NodeConfig -----------------------------
(***************************************************************************)
(* The configuration of a node (node_config.c): the setup form that writes *)
(* it key by key to flash, loading it at boot with the migration of an     *)
(* older layout, and the two ways to a factory reset, while the power may  *)
(* fail and the flash may refuse a write.                                  *)
(*                                                                         *)
(* A value is the number of the setup it was entered in, or one of the     *)
(* special values below.  A key of flash is written or erased at once      *)
(* (NVS); nvs_commit adds nothing to that.  The namespace also holds the   *)
(* blobs of the message store, see NvsState, and the packet counter, which *)
(* TxScheduler and Sync model.                                             *)
(***************************************************************************)
EXTENDS Integers, Sequences, FiniteSets, SequencesExt

CONSTANTS
    MaxSetups,      \* bound on setup forms sent
    MaxFaults,      \* bound on power losses and refused writes
    EraseCuts,      \* bound on where in SaveOrder an erase may begin and where it may fail
    Missing,        \* the key is not in flash
    Weak,           \* a PIN, password or key that is too short; well-known ones are refused alike
    Random,         \* generated by the node
    Default,        \* the built-in default, or the identity made from the MAC
    LongKeys,       \* keys whose names NVS may find too long
    Legacy          \* entered under the firmware with a single location key

\* The order in which node_config_save writes.
SaveOrder == <<"configured", "node_id", "node_name", "node_role", "sitio", "barangay",
               "municipality", "default_dest", "default_priority", "ap_password", "web_pin",
               "duress_pin", "network_key">>

Credentials == {"ap_password", "web_pin", "network_key"}
Settings == ToSet(SaveOrder) \ (Credentials \cup {"configured", "duress_pin"})
Keys == ToSet(SaveOrder) \cup {"location"}

Setups == 1 .. MaxSetups

\* NVS takes names of up to 15 characters: "default_priority" is the only
\* longer one.  The special values differ from each other and from what is
\* entered in a form.
ASSUME NodeConfigAssumption ==
    /\ MaxSetups \in Nat /\ MaxFaults \in Nat
    /\ EraseCuts \subseteq 1 .. Len(SaveOrder)
    /\ LongKeys \subseteq {"default_priority"}
    /\ Missing \notin Setups \cup {Weak, Random, Default, Legacy}
    /\ Weak \notin Setups \cup {Random, Default, Legacy}
    /\ Default \notin Setups \cup {Random, Legacy}
    /\ Legacy \notin Setups

Values == Setups \cup {Missing, Weak, Random, Default, Legacy}

VARIABLES
    flash,          \* the namespace bems_config
    refused,        \* the keys NVS does not take
    node_config,    \* the configuration in RAM
    node_id,        \* the identity app_runtime.c goes by
    httpd,          \* the HTTP server: idle, saving a form, or about to restart
    button,         \* factory_reset_button_task: idle, or about to restart
    boot,           \* the node runs, or is still saving a migrated configuration
    setups, faults,
    complete,       \* history: the form whose keys are all in flash, or NoForm
    torn            \* history: a power loss cut an erase short, an erase hit a save, or
                    \* a form was sent in the half second between an erase and its restart

nodeVars == <<flash, refused, node_config, node_id, httpd, button, boot, setups, faults,
              complete, torn>>

NoForm == [k \in {} |-> Missing]
NotSaving == [pc |-> "idle", step |-> 1, config |-> NoForm]

-----------------------------------------------------------------------------
(* node_config_load                                                        *)

\* What node_config_set_defaults puts where flash has nothing.
OrDefault(stored, k) ==
    IF stored[k] # Missing THEN stored[k]
    ELSE CASE k = "duress_pin" -> Random [] OTHER -> Default

Strong(value) == value \notin {Missing, Weak, Default}

Migrates(stored) == stored["barangay"] = Missing /\ stored["location"] # Missing

\* Plausible bug: the barangay is not read back.
LoadForgetsBarangay(stored) ==
    [k \in Keys \ {"location"} |->
        CASE k = "configured" -> IF stored[k] \notin {Missing, Default}
                                    /\ \A c \in Credentials : Strong(stored[c])
                                 THEN stored[k] ELSE Default
          [] k = "barangay"   -> Default
          [] OTHER            -> OrDefault(stored, k)]

\* Plausible bug: the flag is trusted although credentials are missing.
LoadTrustsFlag(stored) ==
    [k \in Keys \ {"location"} |->
        CASE k = "configured"  -> IF stored[k] # Missing THEN stored[k] ELSE Default
          [] k \in {"sitio", "barangay"} /\ Migrates(stored) -> stored["location"]
          [] OTHER             -> OrDefault(stored, k)]

\* Stored credentials that are missing or no longer accepted mean: not
\* configured.  Without a barangay the legacy location is decoded, over a sitio
\* that is stored; the municipality is read after that, so that the decoded one
\* is lost.  A node that is not configured makes up a password for its access
\* point.
node_config_load(stored) ==
    [k \in Keys \ {"location"} |->
        CASE k = "configured" -> IF stored[k] \notin {Missing, Default}
                                    /\ \A c \in Credentials : Strong(stored[c])
                                 THEN stored[k] ELSE Default
          [] k \in {"sitio", "barangay"} /\ Migrates(stored) -> stored["location"]
          [] k = "ap_password" -> IF stored["configured"] \in {Missing, Default}
                                     /\ ~Strong(stored[k])
                                  THEN Random ELSE OrDefault(stored, k)
          [] OTHER            -> OrDefault(stored, k)]

\* nvs_open fails: the early return with what node_config_set_defaults has put,
\* and a password.
NotLoaded == [k \in Keys \ {"location"} |-> IF k = "ap_password" THEN Random ELSE Default]

Configured(config) == config["configured"] # Default

\* app_runtime_start up to the load; a migrated location is saved at once.
Start(stored, readable) ==
    /\ node_config' = IF readable THEN node_config_load(stored) ELSE NotLoaded
    /\ node_id' = node_config'["node_id"]
    /\ httpd' = NotSaving
    /\ button' = "idle"
    /\ boot' = IF readable /\ Migrates(stored)
               THEN [pc |-> "saving", step |-> 1, config |-> node_config'] ELSE NotSaving
    /\ UNCHANGED refused

-----------------------------------------------------------------------------
(* node_config_save                                                        *)

\* nvs_set of one key; one that fails ends the save.
SetKey(task) ==
    /\ task.pc = "saving" /\ task.step <= Len(SaveOrder)
    /\ SaveOrder[task.step] \notin refused
    /\ flash' = [flash EXCEPT ![SaveOrder[task.step]] = task.config[SaveOrder[task.step]]]

\* All keys are written: nvs_erase_key, whose result counts.  Without a
\* "location" it is ESP_ERR_NVS_NOT_FOUND and the save has failed.
SaveEnds(task) == task.pc = "saving" /\ task.step > Len(SaveOrder)
SaveSucceeds == flash["location"] # Missing

\* The handler of the setup form, or the migration at boot, goes one key on.
SaveStep(task, next) ==
    /\ SetKey(task)
    /\ next = [task EXCEPT !.step = @ + 1]
    /\ complete' = IF task.step = Len(SaveOrder) /\ task.config["configured"] \in Setups
                      /\ \A k \in ToSet(SaveOrder) : flash'[k] = task.config[k]
                   THEN task.config ELSE NoForm
    /\ UNCHANGED <<refused, node_config, node_id, button, setups, faults, torn>>

\* The write fails, or NVS does not take the key: node_config_save returns the
\* error.
SaveFails(task) ==
    /\ task.pc = "saving" /\ task.step <= Len(SaveOrder)
    /\ IF SaveOrder[task.step] \in refused THEN UNCHANGED faults
       ELSE faults < MaxFaults /\ faults' = faults + 1
    /\ UNCHANGED <<flash, refused, node_config, node_id, button, setups, complete, torn>>

-----------------------------------------------------------------------------
(* The boot, the setup form and the resets                                 *)

MigrationStep == SaveStep(boot, boot') /\ UNCHANGED httpd
MigrationFails == SaveFails(boot) /\ boot' = NotSaving /\ UNCHANGED httpd

\* RAM is assigned what it holds already.
MigrationEnds ==
    /\ SaveEnds(boot)
    /\ flash' = [flash EXCEPT !["location"] = Missing]
    /\ boot' = NotSaving
    /\ UNCHANGED <<refused, node_config, node_id, httpd, button, setups, faults, complete, torn>>

Running == boot = NotSaving

\* What an operator enters: good values, no duress PIN, or a weak credential.
Form(n) == [k \in ToSet(SaveOrder) |-> n]
Forms(n) == {Form(n), [Form(n) EXCEPT !["duress_pin"] = Missing]}
                \cup {[Form(n) EXCEPT ![c] = Weak] : c \in Credentials \cup {"duress_pin"}}

\* The tests of http_setup_handler, all but those on characters.
ValidForm(form) ==
    /\ \A c \in Credentials : Strong(form[c])
    /\ form["duress_pin"] # Weak

\* The handler's body; who may call it is not modelled.
http_setup_handler ==
    /\ Running /\ httpd.pc = "idle"
    /\ setups < MaxSetups /\ setups' = setups + 1
    /\ \E form \in Forms(setups + 1) :
           httpd' = IF ValidForm(form)
                    THEN [pc |-> "saving", step |-> 1, config |-> form] ELSE NotSaving
    /\ torn' = (torn \/ button = "restart")
    /\ UNCHANGED <<flash, refused, node_config, node_id, button, boot, faults, complete>>

SetupStep == SaveStep(httpd, httpd') /\ UNCHANGED boot
SetupFails == SaveFails(httpd) /\ httpd' = NotSaving /\ UNCHANGED boot

\* A successful save replaces the configuration in RAM, and the node restarts
\* half a second later.  After a failed one the handler returns.
SetupEnds ==
    /\ SaveEnds(httpd)
    /\ node_config' = IF SaveSucceeds THEN httpd.config ELSE node_config
    /\ httpd' = IF SaveSucceeds THEN [NotSaving EXCEPT !.pc = "restart"] ELSE NotSaving
    /\ flash' = [flash EXCEPT !["location"] = Missing]
    /\ UNCHANGED <<refused, node_id, button, boot, setups, faults, complete, torn>>

\* NVS erases the entries in the order they were written: since every save
\* writes in the same order, that is SaveOrder, from any key on and round.
Runs == {ToSet(SubSeq(SaveOrder, i, j)) : i, j \in EraseCuts}
PartlyErased(stored) ==
    {[k \in Keys |-> IF k \in kept THEN stored[k] ELSE Missing] :
        kept \in Runs \cup {Keys \ run : run \in Runs}}

\* The namespace is opened and erased whole, or one of that fails, which nobody
\* asks about.  A power loss during the erase leaves what an erase that failed
\* there leaves, and the boot after it is the one of esp_restart.
node_config_erase(done) ==
    IF done
    THEN /\ flash' = [k \in Keys |-> Missing]
         /\ complete' = NoForm
         /\ torn' = (torn \/ httpd.pc = "saving")
         /\ UNCHANGED faults
    ELSE /\ faults < MaxFaults /\ faults' = faults + 1
         /\ \/ UNCHANGED <<flash, complete, torn>>
            \/ flash' \in PartlyErased(flash) /\ complete' = NoForm /\ torn' = TRUE

\* BOOT was held for ten seconds.
factory_reset_button_task(done) ==
    /\ Running /\ button = "idle"
    /\ node_config_erase(done)
    /\ button' = "restart"
    /\ UNCHANGED <<refused, node_config, node_id, httpd, boot, setups>>

http_reset_handler(done) ==
    /\ Running /\ httpd.pc = "idle"
    /\ node_config_erase(done)
    /\ httpd' = [NotSaving EXCEPT !.pc = "restart"]
    /\ UNCHANGED <<refused, node_config, node_id, button, boot, setups>>

\* The boot that follows may find the namespace closed.
esp_restart(readable) ==
    /\ httpd.pc = "restart" \/ button = "restart"
    /\ readable \/ faults < MaxFaults
    /\ faults' = IF readable THEN faults ELSE faults + 1
    /\ Start(flash, readable)
    /\ UNCHANGED <<flash, setups, complete, torn>>

PowerLoss(readable) ==
    /\ faults < MaxFaults /\ faults' = faults + 1
    /\ Start(flash, readable)
    /\ UNCHANGED <<flash, setups, complete, torn>>

-----------------------------------------------------------------------------
\* Factory fresh, or set up under the older firmware, perhaps with credentials
\* that were accepted then.
FreshFlash == [k \in Keys |-> Missing]
OldFlash(credential) ==
    [k \in Keys |-> CASE k \in Credentials -> credential
                      [] k \in {"sitio", "barangay", "municipality"} \cup refused -> Missing
                      [] OTHER -> Legacy]

NodeInit ==
    /\ refused \in {{}, LongKeys}
    /\ flash \in {FreshFlash, OldFlash(Legacy), OldFlash(Weak)}
    /\ node_config = node_config_load(flash)
    /\ node_id = node_config["node_id"]
    /\ httpd = NotSaving
    /\ button = "idle"
    /\ boot = IF Migrates(flash) THEN [pc |-> "saving", step |-> 1, config |-> node_config]
              ELSE NotSaving
    /\ setups = 0 /\ faults = 0 /\ complete = NoForm /\ torn = FALSE

NodeNext ==
    \/ MigrationStep \/ MigrationFails \/ MigrationEnds
    \/ http_setup_handler \/ SetupStep \/ SetupFails \/ SetupEnds
    \/ \E done \in BOOLEAN : factory_reset_button_task(done) \/ http_reset_handler(done)
    \/ \E readable \in BOOLEAN : esp_restart(readable) \/ PowerLoss(readable)

NodeSpec == NodeInit /\ [][NodeNext]_nodeVars

-----------------------------------------------------------------------------
(* Properties                                                              *)

NodeTypeOK ==
    /\ flash \in [Keys -> Values] /\ \A k \in refused : flash[k] = Missing
    /\ node_config \in [Keys \ {"location"} -> Values]
    /\ node_id \in Values
    /\ httpd.step \in 1 .. Len(SaveOrder) + 1 /\ boot.step \in 1 .. Len(SaveOrder) + 1

\* A node that comes up configured has credentials that are accepted, and none of
\* its settings is a built-in default, whatever a power loss, a refused write or a
\* second form has left in flash, although "configured" is written first and keys
\* before and after the location's are separate.  What the older firmware did not
\* have is the exception, until a form has been saved to its last key.  Only an
\* erase cut short, or one that crosses the save of a form, may lose the settings
\* that are not credentials (node_config.c:257, 278-291).
ConfiguredIsWhole ==
    Configured(node_config) =>
        /\ \A c \in Credentials : Strong(node_config[c])
        /\ \/ torn
           \/ \A k \in Settings : node_config[k] = Default =>
                  k \in {"municipality"} \cup refused /\ node_config["network_key"] \notin Setups

\* Once all keys of a form are in flash the node comes up with exactly that
\* configuration whenever it can read its flash, also when the save reported a
\* failure, which for want of a location to erase it does on every node that never
\* had one.  Only a duress PIN left empty is made up anew at every boot
\* (node_config.c:247, 291, http_setup.c:107).
SetupSurvives ==
    [][(esp_restart(TRUE) \/ PowerLoss(TRUE)) /\ complete # NoForm =>
          \A k \in ToSet(SaveOrder) :
              node_config'[k] = IF k = "duress_pin" /\ complete[k] = Missing
                                THEN Random ELSE complete[k]]_nodeVars

\* A form that was accepted, and that nothing went wrong with, is saved and the
\* node restarts, as the button of the page says: "Save Setup and Reboot"
\* (data/setup.html:1; node_config.c:286, 291, http_setup.c:106-111).
SetupReboots ==
    [][httpd.pc = "saving" /\ httpd'.pc # "saving" /\ UNCHANGED <<faults, button>>
          => httpd'.pc = "restart"]_nodeVars
=============================================================================

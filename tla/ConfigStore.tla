---------------------------- MODULE ConfigStore ----------------------------
(***************************************************************************)
(* The configuration record (config_store.c): the copy in RAM that every   *)
(* reader sees and the copy in flash that a restart loads.  Each operation *)
(* is one step: it holds the store's mutex.  The friendly name, which no   *)
(* other component reads back, is left out.                                *)
(***************************************************************************)
EXTENDS Naturals

CONSTANTS
  Credentials,      \* Wi-Fi credentials
  Blobs             \* contents of the authentication slots

VARIABLES
  ram,              \* current_record
  flash,            \* the record in NVS
  failed            \* an update has reported an error since flash was read

storeVars == <<ram, flash, failed>>

None == "none"

DefaultRecord == [wifi |-> None, auth |-> None, provisioned |-> FALSE]

StoreInit ==
  /\ ram \in {DefaultRecord} \cup [wifi : Credentials, auth : {None}, provisioned : {TRUE}]
  /\ flash = ram
  /\ failed = FALSE

\* update_record.  An error of nvs_set_blob or nvs_commit leaves the RAM copy
\* alone; whether the new record is in flash is not known then.
Update(candidate, ok) ==
  /\ ram' = IF ok THEN candidate ELSE ram
  /\ IF ok THEN flash' = candidate ELSE flash' \in {flash, candidate}
  /\ failed' = (failed \/ ~ok)

\* An update that changes nothing is answered without writing.
UpdateIfNew(candidate, ok) ==
  IF candidate = ram THEN ok /\ UNCHANGED storeVars ELSE Update(candidate, ok)

\* airdap_config_store_set_blob
SetBlob(slot, data, ok) == UpdateIfNew([ram EXCEPT ![slot] = data], ok)

\* airdap_config_store_commit_network_provisioning: credentials and flag in
\* one record.
CommitNetworkProvisioning(data, ok) ==
  UpdateIfNew([ram EXCEPT !.wifi = data, !.provisioned = TRUE], ok)

\* Variant: clearing one slot leaves the flag.
ClearKeepsFlag(slots, ok) ==
  UpdateIfNew([ram EXCEPT !.wifi = IF "wifi" \in slots THEN None ELSE @,
                          !.auth = IF "auth" \in slots THEN None ELSE @], ok)

\* airdap_config_store_clear: any of the network slots takes the flag with it.
Clear(slots, ok) ==
  UpdateIfNew([wifi |-> IF "wifi" \in slots THEN None ELSE ram.wifi,
               auth |-> IF "auth" \in slots THEN None ELSE ram.auth,
               provisioned |-> FALSE], ok)

\* airdap_config_store_init after a reset.  A partition that NVS cannot use is
\* erased, and a record that is missing is made anew.
Reload ==
  /\ flash' \in {flash, DefaultRecord}
  /\ ram' = flash'
  /\ failed' = FALSE

\* A device that calls itself provisioned has Wi-Fi credentials, in RAM and in
\* what a reset would load, whatever update failed; and flash differs from RAM
\* only after an error was reported (commit_network_provisioning "atomically
\* publishes" both, clear resets the flag).
ProvisionedHasWifi ==
  /\ ram.provisioned => ram.wifi # None
  /\ flash.provisioned => flash.wifi # None
  /\ ram # flash => failed
=============================================================================

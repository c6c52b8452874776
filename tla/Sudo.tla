-------------------------------- MODULE Sudo --------------------------------
(***************************************************************************)
(* The registry of privileged contracts (x/sudo): a root account edits the *)
(* set of sudo contracts.  The stored list of addresses is read into a set *)
(* and written back from it, so it is a set here.                          *)
(***************************************************************************)
CONSTANTS
    Root,              \* the root account of the genesis
    Senders,           \* accounts that send MsgEditSudoers
    Contracts,         \* contract addresses
    GenesisContracts   \* sudo contracts of the genesis

ASSUME SudoAssumption == GenesisContracts \subseteq Contracts

VARIABLES
    sudoers,           \* [root, contracts]
    granted            \* contracts root has named and not revoked; read by no handler

sudoVars == <<sudoers, granted>>

SudoInit ==
    /\ sudoers = [root |-> Root, contracts |-> GenesisContracts]
    /\ granted = GenesisContracts

SenderHasPermission(sender) == sender = sudoers.root

AddContracts(sender, contracts) ==
    /\ SenderHasPermission(sender)
    /\ sudoers' = [sudoers EXCEPT !.contracts = @ \cup contracts]
    /\ granted' = IF sender = Root THEN granted \cup contracts ELSE granted

\* Mutant: the set that was read is written back as it was.
RemoveNothing(sender, contracts) ==
    /\ SenderHasPermission(sender)
    /\ granted' = IF sender = Root THEN granted \ contracts ELSE granted
    /\ UNCHANGED sudoers
RemoveContracts(sender, contracts) ==
    /\ SenderHasPermission(sender)
    /\ sudoers' = [sudoers EXCEPT !.contracts = @ \ contracts]
    /\ granted' = IF sender = Root THEN granted \ contracts ELSE granted

EditSudoers(sender, contracts) ==
    AddContracts(sender, contracts) \/ RemoveContracts(sender, contracts)

\* CheckPermissions of the wasm bindings, on GetSudoContracts.
CheckPermissions(contract) == contract \in sudoers.contracts
=============================================================================

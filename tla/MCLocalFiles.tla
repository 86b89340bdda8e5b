----------------------------- MODULE MCLocalFiles -----------------------------
(* What instances of the application share on disk, for TLC: the saved         *)
(* connections with the dialog, or the wallets.  They have nothing in common,  *)
(* so that one of them at a time is enough.  The dialog takes two connections  *)
(* and two deletes to show what a reload can do, one call more than is needed  *)
(* for calls that overlap and instances that die; passwords do not matter to   *)
(* it.                                                                         *)
EXTENDS AddConnectionModal, Wallet

CONSTANTS
  OverlapMax,     \* bound: the calls when they may overlap and be cut
  OverlapInboxMax \* bound: the messages that wait for the dialog then

ASSUME OverlapAssumption ==
  OverlapMax \in 0..CallMax /\ OverlapInboxMax \in 0..InboxMax

VARIABLE side

FilesInit ==
  /\ side \in {"store", "dialog", "wallet"}
  /\ Init
  /\ side = "dialog" => ~hasKeyring
  /\ WalletInit

FilesNext ==
  /\ UNCHANGED side
  /\ \/ /\ side = "store" /\ Next /\ UNCHANGED walletVars
        /\ calls' <= OverlapMax /\ Len(inbox') <= OverlapInboxMax
     \/ side = "dialog" /\ Next /\ ~disturbed' /\ deaths' = 0 /\ UNCHANGED walletVars
     \/ side = "wallet" /\ WalletNext /\ UNCHANGED vars

\* Types of the store with the dialog, and of the wallet.
FilesTypesOK == TypeOK /\ WalletTypeOK

FilesSpec == FilesInit /\ [][FilesNext]_<<vars, walletVars, side>>
=============================================================================

-------------------------- MODULE SettlementParties --------------------------
(***************************************************************************)
(* What the V2 escrow and its arbitration committee both speak of.         *)
(***************************************************************************)

CONSTANTS
    Tasks,          \* task identifiers (bytes32)
    Accounts,       \* externally owned accounts
    NoOne           \* address(0)

ASSUME PartiesConstants == NoOne \notin Accounts
=============================================================================

------------------------------ MODULE Tenancy ------------------------------
(***************************************************************************)
(* What every module of the inbound side shares: the customers of the one  *)
(* tenant a webhook process serves (WEBHOOK_TENANT_ID), the value that      *)
(* stands for an absent column, and the horizon of the modelled clock.      *)
(***************************************************************************)
EXTENDS Integers

CONSTANTS Customer,   \* normalised customer phones: the customer_key column
          None,       \* SQL NULL / Python None
          MaxTime     \* BOUND: the clock stops here

ASSUME TenancyAssumption == MaxTime \in Nat

Time == 0..MaxTime
============================================================================

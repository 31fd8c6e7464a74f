---------------------------- MODULE LeaseProtocol ----------------------------
(***************************************************************************)
(* What continuation promises, without saying how: leases are granted one  *)
(* at a time and in schedule order, each becomes effective at most once    *)
(* and exactly as granted, governance grants no further lease before the   *)
(* effect of the last one has been settled, and revocation ends it all.    *)
(* Continuation implements this: the grants are the ledger's, the effect   *)
(* is the native runtime's.                                                *)
(***************************************************************************)
EXTENDS LeaseBudget

VARIABLES
  granted,    \* leases granted by governance
  total,      \* what they add up to
  applied,    \* leases in effect in the runtime
  effective,  \* what those add up to
  phase,      \* of the last granted lease
  revoked

protocolVars == <<granted, total, applied, effective, phase, revoked>>

ProtocolInit ==
  /\ granted = 0 /\ total = Zero
  /\ applied = 0 /\ effective = Zero
  /\ phase = "settled"
  /\ revoked = FALSE

GrantLease ==
  /\ ~revoked
  /\ phase = "settled"
  /\ granted < MaxLeases
  /\ granted' = granted + 1
  /\ total' \in Vector /\ total' # total
  /\ Within(total, total')
  /\ Within(total', Plus(total, Schedule[granted + 1]))
  /\ phase' = "pending"
  /\ UNCHANGED <<applied, effective, revoked>>

(***************************************************************************)
(* The runtime takes over exactly what governance has granted.             *)
(***************************************************************************)
TakeEffect ==
  /\ ~revoked
  /\ phase = "pending"
  /\ applied' = granted /\ effective' = total
  /\ phase' = "applied"
  /\ UNCHANGED <<granted, total, revoked>>

Settle ==
  /\ ~revoked
  /\ phase = "applied"
  /\ phase' = "settled"
  /\ UNCHANGED <<granted, total, applied, effective, revoked>>

Withdraw ==
  /\ ~revoked
  /\ revoked' = TRUE
  /\ UNCHANGED <<granted, total, applied, effective, phase>>

ProtocolNext == GrantLease \/ TakeEffect \/ Settle \/ Withdraw

ProtocolSpec == ProtocolInit /\ [][ProtocolNext]_protocolVars
=============================================================================

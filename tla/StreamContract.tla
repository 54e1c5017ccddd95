--------------------------- MODULE StreamContract ---------------------------
(***************************************************************************)
(* What the sink of an NTRIP stream process may rely on, whatever sockets,  *)
(* timers and mailbox do underneath (lib/sidereon/gnss/ntrip.ex, module     *)
(* Stream).  The sink sees a stream that is "trying" (connecting or         *)
(* connected), "waiting" (a reconnect was announced and no connection       *)
(* exists) or "ended".  NtripStream is shown to implement this module.      *)
(***************************************************************************)
EXTENDS Naturals

CONSTANTS Unlimited   \* the value of max_reconnects that means "no limit"

VARIABLES phase,      \* "trying", "waiting" or "ended"
          announced,  \* number of the last {:reconnecting, reason, n}
          last,       \* kind of the last message sent to the sink
          budget      \* max_reconnects, fixed when the stream starts

contractVars == <<phase, announced, last, budget>>

ContractInit ==
    /\ phase = "trying"
    /\ announced = 0
    /\ last = "none"
    /\ budget \in Nat \cup {Unlimited}

\* Payload, RTCM and sourcetable messages come only from a stream that is trying.
Deliver ==
    /\ phase = "trying"
    /\ last' \in {"payload", "sourcetable"}
    /\ UNCHANGED <<phase, announced, budget>>

\* A reconnect is announced with the next number, never beyond the budget.
Announce ==
    /\ phase = "trying"
    /\ budget = Unlimited \/ announced < budget
    /\ announced' = announced + 1
    /\ last' = "reconnecting"
    /\ phase' = "waiting"
    /\ UNCHANGED budget

\* A waiting stream does nothing but start its next attempt.
Retry ==
    /\ phase = "waiting"
    /\ phase' = "trying"
    /\ UNCHANGED <<announced, last, budget>>

\* {:down, reason} is the last message of the stream, and only a trying stream sends it.
GoDown ==
    /\ phase = "trying"
    /\ phase' = "ended"
    /\ last' = "down"
    /\ UNCHANGED <<announced, budget>>

\* The process may die without a {:down, reason}: the sink learns it by its link.
Die ==
    /\ phase # "ended"
    /\ phase' = "ended"
    /\ \/ UNCHANGED <<announced, last>>
       \/ /\ phase = "trying"      \* raised while it computed the delay it announced
          /\ announced' = announced + 1
          /\ last' = "reconnecting"
    /\ UNCHANGED budget

ContractNext == Deliver \/ Announce \/ Retry \/ GoDown \/ Die

ContractSpec == ContractInit /\ [][ContractNext]_contractVars

=============================================================================

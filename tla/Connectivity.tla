---------------------------- MODULE Connectivity ----------------------------
(***************************************************************************)
(* Product connectivity policy: internal/connectivity/policy.go.           *)
(***************************************************************************)

Requirements == {"local", "internet"}

InternetStates == {"unknown", "none", "portal", "limited", "full"}

Observations == [activated : BOOLEAN, hasLocalAddress : BOOLEAN,
                 internet : InternetStates]

\* Result.Reason of Evaluate.
EvaluateReason(requirement, observation) ==
    CASE ~observation.activated -> "device-not-activated"
      [] observation.activated /\ ~observation.hasLocalAddress -> "no-local-address"
      [] /\ observation.activated /\ observation.hasLocalAddress
         /\ requirement = "internet" /\ observation.internet # "full"
            -> "internet-not-confirmed"
      [] OTHER -> "requirement-satisfied"

\* Result.Accepted of Evaluate.
Evaluate(requirement, observation) ==
    EvaluateReason(requirement, observation) = "requirement-satisfied"
=============================================================================

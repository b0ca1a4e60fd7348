--------------------------- MODULE DubboServices ---------------------------
(***************************************************************************)
(* The session and the user service of the dubbo framework, side by side:  *)
(* they share no state, so a behaviour is one of either.                   *)
(***************************************************************************)
EXTENDS SessionService, UserService

VARIABLE service

vars == <<service, sessionVars, userVars>>

Init == service \in {"session", "user"} /\ SessionInit /\ UserInit

Next ==
  \/ service = "session" /\ SessionNext /\ UNCHANGED <<service, userVars>>
  \/ service = "user" /\ UserNext /\ UNCHANGED <<service, sessionVars>>

Spec == Init /\ [][Next]_vars
=============================================================================

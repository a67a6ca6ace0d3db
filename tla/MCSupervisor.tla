---------------------------- MODULE MCSupervisor ----------------------------
(* A small instance of the Service Manager: the Package Service, restarted *)
(* on failure, and the Root Agent, which restarts always as                *)
(* root-agent.toml says.                                                   *)
EXTENDS Supervisor

CONSTANTS package, agent

MCUnits == {package, agent}
MCNames == <<package, agent>>
MCOrder == <<package>>
MCPolicy == [u \in MCUnits |-> IF u = agent THEN "always" ELSE "on-failure"]
=============================================================================

------------------------------ MODULE MCAgents ------------------------------
(* Agents with one agent and two calls at a time. *)
EXTENDS Agents

CONSTANTS child, c, d

MCAgents == {child}
MCCalls == {c, d}
=============================================================================

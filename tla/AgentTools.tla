------------------------------ MODULE AgentTools ------------------------------
(***************************************************************************)
(* The tools of the agent that keep state of their own: the editor, the    *)
(* memory and the command line.  They share no state and the agent uses    *)
(* them one after the other, so a behaviour uses one of them.              *)
(***************************************************************************)
EXTENDS FileEdit, MemoryFiles, CommandLine

VARIABLE tool

ToolsInit == FileInit /\ MemInit /\ CommandInit /\ tool \in {"editor", "memory", "bash"}

ToolsNext ==
  /\ \/ tool = "editor" /\ FileNext /\ UNCHANGED <<memVars, commandVars>>
     \/ tool = "memory" /\ MemNext /\ UNCHANGED <<fileVars, commandVars>>
     \/ tool = "bash" /\ CommandNext /\ UNCHANGED <<fileVars, memVars>>
  /\ UNCHANGED tool

ToolsSpec == ToolsInit /\ [][ToolsNext]_<<fileVars, memVars, commandVars, tool>>
=============================================================================

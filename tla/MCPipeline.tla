----------------------------- MODULE MCPipeline -----------------------------
(***************************************************************************)
(* The actions of every language at once, two of the four spaces, and two  *)
(* edits of the database between decompilations.                           *)
(***************************************************************************)
EXTENDS Pipeline

CONSTANTS Syscalls, T9, TypeRegister, TypeStack, Sync, NameRegister, NameStack

MCInit == <<Syscalls>>
MCArch == <<T9>>
MCRetype == <<TypeRegister, TypeStack>>
MCRename == <<Sync, NameRegister, NameStack>>
=============================================================================

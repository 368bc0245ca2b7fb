----------------------------- MODULE MCKeyboard -----------------------------
(***************************************************************************)
(* Instances of module Keyboard for TLC: programs that read and write the  *)
(* console, start and kill each other.                                     *)
(***************************************************************************)
EXTENDS Keyboard

InputNext ==
  \/ ConsRead \/ ResumeRead \/ KeyboardInterrupt \/ ConsEcho \/ ShellEcho
  \/ UpdateBuffer \/ PrintPrompt \/ ConsWrite \/ InvalidInstruction
  \/ Tick
  \/ (Start \/ Exit \/ KillOther \/ GarbageCollector) /\ UNCHANGED <<kb, con, tod>>

InputSpec == KbInit /\ [][InputNext]_vars

=============================================================================

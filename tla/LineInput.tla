------------------------------ MODULE LineInput ------------------------------
(***************************************************************************)
(* What the keyboard promises its reader, without frames, processes and    *)
(* interrupts: a line editor of limited size.  While a line is asked for,  *)
(* keys are appended to it and the delete key takes the last one back; the *)
(* end of the line closes it (with NUL, if there is room left); then it is *)
(* taken from the front, in one or several pieces.  NUL may also be typed: *)
(* it does not close the line, but it ends the piece that reaches it.      *)
(***************************************************************************)
EXTENDS Integers, Sequences

CONSTANTS Key, NUL, Size

VARIABLES line, asked

AbsInit == line = <<>> /\ asked = FALSE

Ask == ~asked /\ line = <<>> /\ asked' = TRUE /\ UNCHANGED line

Push(c) == line' = IF Len(line) < Size THEN Append(line, c) ELSE line

Type == asked /\ (\E c \in Key : Push(c)) /\ UNCHANGED asked

Erase == asked /\ line # <<>> /\ line' = SubSeq(line, 1, Len(line) - 1) /\ UNCHANGED asked

End == asked /\ asked' = FALSE /\ Push(NUL)

\* A piece of the line: a prefix without NUL, with the NUL that follows it.
Take ==
  /\ ~asked
  /\ \E n \in 1..Len(line) :
       /\ \A i \in 1..(n - 1) : line[i] # NUL
       /\ line' = SubSeq(line, n + 1, Len(line))
  /\ UNCHANGED asked

Flush == ~asked /\ line' = <<>> /\ UNCHANGED asked

AbsNext == Ask \/ Type \/ Erase \/ End \/ Take \/ Flush

LineSpec == AbsInit /\ [][AbsNext]_<<line, asked>>

=============================================================================

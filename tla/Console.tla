------------------------------- MODULE Console -------------------------------
(***************************************************************************)
(* The text screen: the cursor of kernel/console.c, its left margin and    *)
(* scrolling, and the clock kernel/timer.c displays on its first line.     *)
(*                                                                         *)
(* A console is a record "c".  A character is a class of characters that   *)
(* handle_char tells apart.  Of what the cells hold, only this is kept:    *)
(* with which colours (those of the text, those of the clock) each line    *)
(* was written since it was last blank, "ink".  Line NB_LINES is the video *)
(* memory after the last line of the screen.                               *)
(***************************************************************************)
EXTENDS Integers, Sequences

CONSTANTS
  NB_LINES, NB_COLUMNS,  \* 25 and 80
  COL_LIMIT,             \* set_col_min takes 0..23: 24
  TAB,                   \* 8
  CLOCKFREQ,             \* ticks in a second: 1000
  SIXTY,                 \* seconds in a minute, minutes in an hour
  UINT_MOD,              \* 2^32: the counter of hours wraps there
  CLOCK_WIDTH,           \* length of "00:00:00": 8
  TWO_DIGITS             \* hours that %.2u prints on two digits: 100

FIRST_LINE == 1

ASSUME ScreenAssumption ==
  /\ NB_LINES \in Nat /\ NB_LINES > FIRST_LINE + 1
  /\ NB_COLUMNS \in Nat /\ COL_LIMIT \in 1..NB_COLUMNS
  /\ TAB \in Nat \ {0}
  /\ CLOCK_WIDTH \in 1..NB_COLUMNS
  /\ {CLOCKFREQ, SIXTY, UINT_MOD, TWO_DIGITS} \subseteq Nat \ {0}

CharClass ==
  {"print", "del", "nul", "bs", "tab", "nl", "ff", "cr", "ctl", "high"}

Colour == {"text", "clock"}

Screen ==
  [line_cur : Int, col_cur : Int, col_min : 0..(COL_LIMIT - 1),
   colour : Colour, ink : [0..NB_LINES -> SUBSET Colour]]

-----------------------------------------------------------------------------
move_cursor(c, line, col) == [c EXCEPT !.line_cur = line, !.col_cur = col]

set_col_min(c, limit) ==
  IF limit \in 0..(COL_LIMIT - 1) THEN [c EXCEPT !.col_min = limit] ELSE c

\* write_char of a character that shows; a blank leaves no ink.
write_char(c) ==
  IF c.line_cur \in 0..NB_LINES
  THEN [c EXCEPT !.ink[c.line_cur] = @ \cup {c.colour}] ELSE c

\* Mutant: the line of the clock scrolls with the text.
scroll_all(c) ==
  LET up == [i \in 0..NB_LINES |->
               IF i < NB_LINES THEN c.ink[i + 1] ELSE c.ink[i]]
  IN  IF c.line_cur > FIRST_LINE
      THEN move_cursor([c EXCEPT !.ink = up], c.line_cur - 1, c.col_min)
      ELSE c

\* Lines FIRST_LINE + 1 .. NB_LINES move up by one: the last line becomes what
\* lies after the screen.
scroll(c) ==
  LET up == [i \in 0..NB_LINES |->
               IF i \in FIRST_LINE..(NB_LINES - 1) THEN c.ink[i + 1]
               ELSE c.ink[i]]
  IN  IF c.line_cur > FIRST_LINE
      THEN move_cursor([c EXCEPT !.ink = up], c.line_cur - 1, c.col_min)
      ELSE c

new_line(c) ==
  LET s == IF c.line_cur = NB_LINES - 1 THEN scroll(c) ELSE c
  IN  move_cursor(s, s.line_cur + 1, c.col_min)

\* Form feed keeps what is left of the margin on the first line of text.
blank_screen(c) ==
  [c EXCEPT !.ink = [i \in 0..NB_LINES |->
                       IF \/ i \in (FIRST_LINE + 1)..(NB_LINES - 1)
                          \/ i = FIRST_LINE /\ c.col_min = 0
                       THEN {} ELSE @[i]]]

put_printable(c) ==
  IF c.line_cur < NB_LINES /\ c.col_cur < NB_COLUMNS
  THEN IF c.col_cur = NB_COLUMNS - 1 THEN new_line(write_char(c))
       ELSE [write_char(c) EXCEPT !.col_cur = @ + 1]
  ELSE c

step_back(c) == IF c.col_cur > c.col_min THEN [c EXCEPT !.col_cur = @ - 1] ELSE c

next_tab(c) ==
  LET t == (c.col_cur \div TAB + 1) * TAB
  IN  [c EXCEPT !.col_cur = IF t < NB_COLUMNS THEN t ELSE NB_COLUMNS - 1]

handle_char(c, ch) ==
  CASE ch = "print"         -> put_printable(c)
    [] ch \in {"del", "bs"} -> step_back(c)
    [] ch = "tab"           -> next_tab(c)
    [] ch \in {"nl", "cr"}  -> new_line(c)
    [] ch = "ff"            -> move_cursor(blank_screen(c), FIRST_LINE, c.col_min)
    [] OTHER                -> c

console_putbytes(c, s) ==
  LET it[i \in 0..Len(s)] == IF i = 0 THEN c ELSE handle_char(it[i - 1], s[i])
  IN  it[Len(s)]

\* A text of n printable characters.
printed(n) == [i \in 1..n |-> "print"]

initialize_screen ==
  [line_cur |-> FIRST_LINE, col_cur |-> 0, col_min |-> 0, colour |-> "text",
   ink |-> [i \in 0..NB_LINES |-> {}]]

\* What keyboard_data shows of a key.
echo_key(c, ch) ==
  CASE ch = "cr" -> c
    [] ch \in {"nul", "bs", "tab", "nl", "ff", "ctl"} ->
         console_putbytes(c, printed(2))
    [] OTHER -> handle_char(c, ch)

\* The shell's commands on the screen.
clear(c) == handle_char(set_col_min(c, 0), "ff")

-----------------------------------------------------------------------------
(***************************************************************************)
(* The clock, a record [second, minute, hour].                             *)
(***************************************************************************)
TimeOfDay ==
  [second : 0..(SIXTY - 1), minute : 0..(SIXTY - 1), hour : 0..(UINT_MOD - 1)]

midnight == [second |-> 0, minute |-> 0, hour |-> 0]

\* The clock's text is one character longer once the hours have three digits.
clock_text(t) ==
  printed(CLOCK_WIDTH + IF t.hour < TWO_DIGITS THEN 0 ELSE 1)

refresh_clock(c, t) ==
  LET a == move_cursor([c EXCEPT !.colour = "clock"], 0, NB_COLUMNS - CLOCK_WIDTH)
      b == console_putbytes(a, clock_text(t))
  IN  [move_cursor(b, c.line_cur, c.col_cur) EXCEPT !.colour = c.colour]

\* One more second.
next_second(t) ==
  LET s == (t.second + 1) % SIXTY
      m == IF s = 0 THEN (t.minute + 1) % SIXTY ELSE t.minute
      h == IF s = 0 /\ m = 0 THEN (t.hour + 1) % UINT_MOD ELSE t.hour
  IN  [second |-> s, minute |-> m, hour |-> h]

\* increment_clock, once clock_ticks has its new value.
clock_second(t, ticks) == IF ticks % CLOCKFREQ = 0 THEN next_second(t) ELSE t

clock_display(c, t, ticks) ==
  IF ticks % CLOCKFREQ = 0 THEN refresh_clock(c, clock_second(t, ticks)) ELSE c

init_clock == refresh_clock(initialize_screen, midnight)

=============================================================================

---------------------------- MODULE BufferProofs ----------------------------
(***************************************************************************)
(* The screen and the keyboard buffer, without the processes: what each    *)
(* function of kernel/console.c, of the clock of kernel/timer.c and of     *)
(* kernel/kbd.c does to them.  Text and clock stay apart on the screen; no *)
(* frame of the buffer is lost; the characters in it are those of the line *)
(* editor of module LineInput.                                             *)
(***************************************************************************)
EXTENDS Keyboard, PlacementProofs

-----------------------------------------------------------------------------
(***************************************************************************)
(* Loops with a different turn for each index, and parts of sequences.     *)
(***************************************************************************)

\* it[i] is the state after i turns from s, the i-th of which is G[i].
Turns(it, S, G, s, n) ==
  /\ it \in [0..n -> S]
  /\ it[0] = s /\ \A i \in 1..n : it[i] = G[i][it[i - 1]]

\* A loop whose i-th turn is G[i] has a state after each of its n turns.
LEMMA TurnsExist ==
  ASSUME NEW S, NEW n \in Nat, NEW G \in [1..n -> [S -> S]], NEW s \in S
  PROVE  \E it : Turns(it, S, G, s, n)
<1> DEFINE P(m) == \E it : Turns(it, S, G, s, m)
           T == {m \in Nat : P(m)}
<1>1. 0 \in T
  <2> DEFINE z == [i \in 0..0 |-> s]
  <2>1. z \in [0..0 -> S] /\ z[0] = s /\ \A i \in 1..0 : z[i] = G[i][z[i - 1]]
    OBVIOUS
  <2>2. P(0)
    <3> HIDE DEF z
    <3> QED
      BY <2>1 DEF Turns
  <2> QED
    BY <2>2
<1>2. ASSUME NEW m \in 1..n, m - 1 \in T PROVE m \in T
  <2>1. P(m - 1)
    BY <1>2
  <2>2. PICK it \in [0..(m - 1) -> S] :
          it[0] = s /\ \A i \in 1..(m - 1) : it[i] = G[i][it[i - 1]]
    BY <2>1 DEF Turns
  <2> DEFINE z == [i \in 0..m |-> IF i = m THEN G[m][it[m - 1]] ELSE it[i]]
  <2>3. z \in [0..m -> S] /\ z[0] = s
    BY <2>2
  <2>4. ASSUME NEW i \in 1..m PROVE z[i] = G[i][z[i - 1]]
    <3>1. CASE i = m
      BY <3>1
    <3>2. CASE i # m
      <4>1. i \in 1..(m - 1) /\ i \in 0..m /\ i - 1 \in 0..m /\ i - 1 # m
        BY <3>2
      <4>2. it[i] = G[i][it[i - 1]]
        BY <2>2, <4>1
      <4> QED
        BY <3>2, <4>1, <4>2
    <3> QED
      BY <3>1, <3>2
  <2>5. P(m)
    <3> HIDE DEF z
    <3> QED
      BY <2>3, <2>4 DEF Turns
  <2> QED
    <3> HIDE DEF P
    <3> QED
      BY <2>5
<1>3. n \in T
  <2> HIDE DEF T
  <2>1. \A i \in 1..n : i - 1 \in T => i \in T
    BY <1>2
  <2>2. \A i \in 0..n : i \in T
    BY Zenon, <1>1, <2>1, SetInduction
  <2> QED
    BY <2>2
<1>4. P(n)
  <2> HIDE DEF P
  <2> QED
    BY <1>3
<1> QED
  BY <1>4

\* Part of a sequence, element by element.
LEMMA Extract ==
  ASSUME NEW S, NEW s, NEW m \in Int, NEW n \in Int, \A i \in m..n : s[i] \in S
  PROVE  /\ SubSeq(s, m, n) \in Seq(S)
         /\ Len(SubSeq(s, m, n)) = IF m <= n THEN n - m + 1 ELSE 0
         /\ \A i \in 1..(n - m + 1) : SubSeq(s, m, n)[i] = s[m + i - 1]
OBVIOUS

-----------------------------------------------------------------------------
(***************************************************************************)
(* console_putbytes, a loop over the characters.                           *)
(***************************************************************************)

\* it[i] is the screen, one of S, after i of the characters s, written from c.
Written(it, S, c, s) ==
  /\ it \in [0..Len(s) -> S] /\ it[0] = c
  /\ \A i \in 1..Len(s) : it[i] = handle_char(it[i - 1], s[i])

\* The loop of console_putbytes has as many turns as there are characters, each
\* of them handle_char, and stays among screens that handle_char keeps.
LEMMA PutBytesTurns ==
  ASSUME NEW S, NEW c \in S, NEW s, Len(s) \in Nat,
         \A x \in S : \A i \in 1..Len(s) : handle_char(x, s[i]) \in S
  PROVE  \E it : Written(it, S, c, s) /\ console_putbytes(c, s) = it[Len(s)]
<1> DEFINE n == Len(s)
           E(h) == h = [i \in 0..n |-> IF i = 0 THEN c ELSE handle_char(h[i - 1], s[i])]
           it == CHOOSE h : E(h)
           G == [i \in 1..n |-> [x \in S |-> handle_char(x, s[i])]]
<1>1. console_putbytes(c, s) = it[n]
  BY DEF console_putbytes
<1>2. G \in [1..n -> [S -> S]]
  OBVIOUS
<1>3. PICK h : Turns(h, S, G, c, n)
  <2> HIDE DEF G, n
  <2>1. n \in Nat
    BY DEF n
  <2> QED
    BY <1>2, <2>1, TurnsExist
<1>4. /\ h \in [0..n -> S] /\ h[0] = c
      /\ \A i \in 1..n : i - 1 \in 0..n /\ h[i] = handle_char(h[i - 1], s[i])
  <2>1. h \in [0..n -> S] /\ h[0] = c /\ \A i \in 1..n : h[i] = G[i][h[i - 1]]
    BY <1>3 DEF Turns
  <2>2. ASSUME NEW i \in 1..n PROVE i - 1 \in 0..n /\ h[i - 1] \in S
    BY <2>1
  <2> QED
    BY Zenon, <2>1, <2>2
<1>5. E(h)
  <2>1. \A i \in 0..n : i # 0 => i \in 1..n
    OBVIOUS
  <2> HIDE DEF G
  <2> QED
    BY <1>4, <2>1
<1>6. E(it)
  BY <1>5
<1>7. /\ it[0] = c /\ it = [i \in 0..n |-> it[i]]
      /\ \A i \in 1..n : it[i] = handle_char(it[i - 1], s[i])
  <2> HIDE DEF it, G
  <2>1. 0 \in 0..n /\ \A i \in 1..n : i \in 0..n /\ i # 0
    OBVIOUS
  <2>2. \A g : E(g) => g = [i \in 0..n |-> g[i]]
    OBVIOUS
  <2> QED
    BY Zenon, <1>6, <2>1, <2>2
<1>8. it = h
  <2> HIDE DEF it, G, E
  <2> DEFINE T == {i \in 0..n : it[i] = h[i]}
  <2>1. 0 \in T
    BY <1>4, <1>7
  <2>2. ASSUME NEW i \in 1..n, i - 1 \in T PROVE i \in T
    <3>1. it[i - 1] = h[i - 1] /\ i \in 0..n
      BY <2>2
    <3>2. it[i] = handle_char(it[i - 1], s[i]) /\ h[i] = handle_char(h[i - 1], s[i])
      BY Zenon, <1>4, <1>7
    <3> QED
      BY <3>1, <3>2
  <2>3. \A i \in 0..n : i \in T
    <3> HIDE DEF T
    <3> QED
      BY Zenon, <2>1, <2>2, SetInduction
  <2> QED
    BY <1>4, <1>7, <2>3
<1> QED
  <2> HIDE DEF it, G
  <2> QED
    BY <1>1, <1>4, <1>8 DEF Written

\* A loop over characters keeps what handle_char keeps.
LEMMA PutBytesStays ==
  ASSUME NEW S, NEW c \in S, NEW s \in Seq(CharClass),
         \A x \in S : \A ch \in CharClass : handle_char(x, ch) \in S
  PROVE  console_putbytes(c, s) \in S
<1>1. Len(s) \in Nat /\ \A i \in 1..Len(s) : s[i] \in CharClass
  OBVIOUS
<1>2. PICK it : Written(it, S, c, s) /\ console_putbytes(c, s) = it[Len(s)]
  BY <1>1, PutBytesTurns
<1> QED
  BY <1>1, <1>2 DEF Written

\* A text is a sequence of characters.
LEMMA PrintedText ==
  ASSUME NEW n \in Nat
  PROVE  printed(n) \in Seq(CharClass) /\ Len(printed(n)) = n
BY DEF printed, CharClass

-----------------------------------------------------------------------------
(***************************************************************************)
(* Every function keeps the type of the screen.                            *)
(***************************************************************************)

\* The fields of a screen, and a screen with one of them replaced.
LEMMA ScreenFields ==
  ASSUME NEW c \in Screen
  PROVE  /\ c.line_cur \in Int /\ c.col_cur \in Int
         /\ c.col_min \in 0..(COL_LIMIT - 1) /\ c.col_min \in Int
         /\ c.colour \in Colour /\ c.ink \in [0..NB_LINES -> SUBSET Colour]
BY ScreenAssumption DEF Screen

\* A screen with another column of the cursor.
LEMMA ScreenCol ==
  ASSUME NEW c \in Screen, NEW d \in Int
  PROVE  [c EXCEPT !.col_cur = d] \in Screen
BY DEF Screen

\* A screen with other writing on it.
LEMMA ScreenInk ==
  ASSUME NEW c \in Screen, NEW f \in [0..NB_LINES -> SUBSET Colour]
  PROVE  [c EXCEPT !.ink = f] \in Screen
BY DEF Screen

\* move_cursor keeps the type of the screen.
LEMMA MoveCursorType ==
  ASSUME NEW c \in Screen, NEW l \in Int, NEW d \in Int
  PROVE  move_cursor(c, l, d) \in Screen
BY Zenon DEF Screen, move_cursor

\* handle_char keeps the type of the screen.
LEMMA HandleCharType ==
  ASSUME NEW c \in Screen, NEW ch
  PROVE  handle_char(c, ch) \in Screen
<1>0. NB_LINES \in Nat /\ NB_COLUMNS \in Nat /\ TAB \in Nat \ {0}
  BY ScreenAssumption
<1>1. ASSUME NEW x \in Screen, NEW l \in Int, NEW d \in Int
      PROVE  move_cursor(x, l, d) \in Screen
  BY MoveCursorType
<1>2. ASSUME NEW x \in Screen PROVE write_char(x) \in Screen
  BY Zenon DEF Screen, write_char, Colour
<1>3. ASSUME NEW x \in Screen PROVE scroll(x) \in Screen
  <2> DEFINE up == [i \in 0..NB_LINES |->
                      IF i \in FIRST_LINE..(NB_LINES - 1) THEN x.ink[i + 1] ELSE x.ink[i]]
  <2>1. up \in [0..NB_LINES -> SUBSET Colour]
    <3>1. ASSUME NEW i \in 0..NB_LINES, i \in FIRST_LINE..(NB_LINES - 1)
          PROVE  i + 1 \in 0..NB_LINES
      BY <1>0, <3>1 DEF FIRST_LINE
    <3> QED
      BY Zenon, <3>1, ScreenFields
  <2> HIDE DEF up
  <2>2. x.line_cur - 1 \in Int /\ x.col_min \in Int
    BY ScreenFields
  <2>3. move_cursor([x EXCEPT !.ink = up], x.line_cur - 1, x.col_min) \in Screen
    BY <1>1, <2>1, <2>2, ScreenInk
  <2> QED
    BY <2>3 DEF scroll, up
<1>4. ASSUME NEW x \in Screen PROVE new_line(x) \in Screen
  <2>1. ASSUME NEW y \in Screen PROVE move_cursor(y, y.line_cur + 1, x.col_min) \in Screen
    <3>1. y.line_cur + 1 \in Int /\ x.col_min \in Int
      BY ScreenFields
    <3> QED
      BY <1>1, <3>1
  <2> QED
    BY <1>3, <2>1 DEF new_line
<1>5. blank_screen(c) \in Screen
  <2> DEFINE f == [i \in 0..NB_LINES |->
                     IF \/ i \in (FIRST_LINE + 1)..(NB_LINES - 1)
                        \/ i = FIRST_LINE /\ c.col_min = 0
                     THEN {} ELSE c.ink[i]]
  <2>1. f \in [0..NB_LINES -> SUBSET Colour]
    BY Zenon, ScreenFields
  <2> HIDE DEF f
  <2>2. [c EXCEPT !.ink = f] \in Screen
    BY <2>1, ScreenInk
  <2> QED
    BY <2>2 DEF blank_screen, f
<1>6. put_printable(c) \in Screen
  <2> DEFINE w == write_char(c)
  <2>1. w \in Screen
    BY <1>2
  <2>2. w.col_cur + 1 \in Int
    BY <2>1, ScreenFields
  <2>3. [w EXCEPT !.col_cur = w.col_cur + 1] \in Screen
    BY <2>1, <2>2, ScreenCol
  <2> HIDE DEF w
  <2>4. [w EXCEPT !.col_cur = @ + 1] \in Screen
    BY <2>3
  <2> QED
    BY <1>4, <2>1, <2>4 DEF put_printable, w
<1>7. step_back(c) \in Screen
  <2>1. c.col_cur - 1 \in Int
    BY ScreenFields
  <2>2. [c EXCEPT !.col_cur = c.col_cur - 1] \in Screen
    BY <2>1, ScreenCol
  <2> QED
    BY <2>2 DEF step_back
<1>8. next_tab(c) \in Screen
  <2> DEFINE t == (c.col_cur \div TAB + 1) * TAB
  <2>1. t \in Int
    <3>1. c.col_cur \div TAB \in Int
      BY <1>0, ScreenFields
    <3> QED
      BY <1>0, <3>1
  <2> HIDE DEF t
  <2>2. (IF t < NB_COLUMNS THEN t ELSE NB_COLUMNS - 1) \in Int
    BY <1>0, <2>1
  <2>3. [c EXCEPT !.col_cur = IF t < NB_COLUMNS THEN t ELSE NB_COLUMNS - 1] \in Screen
    BY <2>2, ScreenCol
  <2> QED
    BY <2>3 DEF next_tab, t
<1>9. move_cursor(blank_screen(c), FIRST_LINE, c.col_min) \in Screen
  <2>1. c.col_min \in Int /\ FIRST_LINE \in Int
    BY ScreenFields DEF FIRST_LINE
  <2> QED
    BY <1>1, <1>5, <2>1
<1> QED
  BY <1>4, <1>6, <1>7, <1>8, <1>9 DEF handle_char

\* console_putbytes, set_col_min, clear and the echo of a key keep it too.
LEMMA PutBytesType ==
  ASSUME NEW c \in Screen, NEW s \in Seq(CharClass)
  PROVE  console_putbytes(c, s) \in Screen
BY HandleCharType, PutBytesStays

\* set_col_min keeps the type of the screen.
LEMMA SetColMinType ==
  ASSUME NEW c \in Screen, NEW limit
  PROVE  set_col_min(c, limit) \in Screen
BY DEF set_col_min, Screen

\* The time of day keeps its type when a second has passed.
LEMMA NextSecondType ==
  ASSUME NEW t \in TimeOfDay, NEW ticks
  PROVE  clock_second(t, ticks) \in TimeOfDay
<1>1. SIXTY \in Nat \ {0} /\ UINT_MOD \in Nat \ {0}
  BY ScreenAssumption
<1>2. ASSUME NEW x \in Nat, NEW n \in Nat \ {0} PROVE (x + 1) % n \in 0..(n - 1)
  OBVIOUS
<1>3. t.second \in Nat /\ t.minute \in Nat /\ t.hour \in Nat
  BY <1>1 DEF TimeOfDay
<1> DEFINE s == (t.second + 1) % SIXTY
           m == IF s = 0 THEN (t.minute + 1) % SIXTY ELSE t.minute
           h == IF s = 0 /\ m = 0 THEN (t.hour + 1) % UINT_MOD ELSE t.hour
<1>4. s \in 0..(SIXTY - 1)
  BY <1>1, <1>2, <1>3
<1>5. m \in 0..(SIXTY - 1)
  <2>1. (t.minute + 1) % SIXTY \in 0..(SIXTY - 1)
    BY <1>1, <1>2, <1>3
  <2> QED
    BY <2>1 DEF TimeOfDay
<1>6. h \in 0..(UINT_MOD - 1)
  <2>1. (t.hour + 1) % UINT_MOD \in 0..(UINT_MOD - 1)
    BY <1>1, <1>2, <1>3
  <2> HIDE DEF s, m
  <2> QED
    BY <2>1 DEF TimeOfDay
<1> HIDE DEF s, m, h
<1>7. [second |-> s, minute |-> m, hour |-> h] \in TimeOfDay
  BY <1>4, <1>5, <1>6 DEF TimeOfDay
<1> QED
  BY <1>7 DEF clock_second, next_second, s, m, h

\* The text of the clock has eight characters, or nine.
LEMMA ClockText ==
  ASSUME NEW t
  PROVE  /\ clock_text(t) \in Seq(CharClass)
         /\ t.hour < TWO_DIGITS => clock_text(t) = printed(CLOCK_WIDTH)
<1>1. CLOCK_WIDTH \in Nat
  BY ScreenAssumption
<1>2. CLOCK_WIDTH + (IF t.hour < TWO_DIGITS THEN 0 ELSE 1) \in Nat
  BY <1>1
<1>3. t.hour < TWO_DIGITS =>
        CLOCK_WIDTH + (IF t.hour < TWO_DIGITS THEN 0 ELSE 1) = CLOCK_WIDTH
  BY <1>1
<1> QED
  BY <1>2, <1>3, PrintedText DEF clock_text

\* The display of the clock keeps the type of the screen and puts the cursor,
\* the margin and the colour back.
LEMMA RefreshClockType ==
  ASSUME NEW c \in Screen, NEW t
  PROVE  /\ refresh_clock(c, t) \in Screen
         /\ refresh_clock(c, t).line_cur = c.line_cur
         /\ refresh_clock(c, t).col_cur = c.col_cur
         /\ refresh_clock(c, t).colour = c.colour
<1> DEFINE d == NB_COLUMNS - CLOCK_WIDTH
           a == move_cursor([c EXCEPT !.colour = "clock"], 0, d)
           b == console_putbytes(a, clock_text(t))
<1>1. a \in Screen
  <2>1. d \in Int
    BY ScreenAssumption
  <2>2. [c EXCEPT !.colour = "clock"] \in Screen
    <3>1. "clock" \in Colour
      BY DEF Colour
    <3> QED
      BY <3>1 DEF Screen
  <2> DEFINE y == [c EXCEPT !.colour = "clock"]
  <2> HIDE DEF d, y
  <2>3. move_cursor(y, 0, d) \in Screen
    <3>1. y \in Screen /\ 0 \in Int
      BY <2>2 DEF y
    <3> QED
      BY <2>1, <3>1, MoveCursorType
  <2> QED
    BY <2>3 DEF y
<1> HIDE DEF a
<1>2. b \in Screen
  BY <1>1, ClockText, PutBytesType
<1> HIDE DEF b
<1>3. c.line_cur \in Int /\ c.col_cur \in Int /\ c.colour \in Colour
  BY ScreenFields
<1> DEFINE r == [move_cursor(b, c.line_cur, c.col_cur) EXCEPT !.colour = c.colour]
<1>4. /\ r \in Screen
      /\ r.line_cur = c.line_cur /\ r.col_cur = c.col_cur /\ r.colour = c.colour
  BY Zenon, <1>2, <1>3 DEF Screen, move_cursor
<1>5. refresh_clock(c, t) = r
  BY DEF refresh_clock, a, b
<1> HIDE DEF r
<1> QED
  BY <1>4, <1>5

-----------------------------------------------------------------------------
(***************************************************************************)
(* The text stays below the clock and above the end of the screen.         *)
(***************************************************************************)

\* The first line is written in the colour of the clock, the others in the one
\* of the text, and nothing after the last line.
Inked(f) ==
  /\ f[0] = {"clock"} /\ f[NB_LINES] = {}
  /\ \A i \in FIRST_LINE..(NB_LINES - 1) : f[i] \subseteq {"text"}

TextScreen ==
  {c \in Screen : /\ c.line_cur \in FIRST_LINE..(NB_LINES - 1)
                  /\ c.col_cur \in 0..(NB_COLUMNS - 1)
                  /\ c.colour = "text" /\ Inked(c.ink)}

\* What the cursor may become.
LEMMA MoveCursorText ==
  ASSUME NEW c \in TextScreen, NEW l \in FIRST_LINE..(NB_LINES - 1),
         NEW d \in 0..(NB_COLUMNS - 1)
  PROVE  move_cursor(c, l, d) \in TextScreen
<1>1. c \in Screen /\ c.colour = "text" /\ Inked(c.ink)
  BY DEF TextScreen
<1>2. l \in Int /\ d \in Int
  BY ScreenAssumption DEF FIRST_LINE
<1> DEFINE r == move_cursor(c, l, d)
<1>3. r \in Screen
  BY <1>1, <1>2, MoveCursorType
<1>4. r.line_cur = l /\ r.col_cur = d /\ r.colour = c.colour /\ r.ink = c.ink
  BY <1>1 DEF move_cursor, Screen
<1> HIDE DEF r
<1>5. r \in TextScreen
  BY <1>1, <1>3, <1>4 DEF TextScreen
<1> QED
  BY <1>5 DEF r

\* What the lines may become.
LEMMA InkText ==
  ASSUME NEW c \in TextScreen, NEW f \in [0..NB_LINES -> SUBSET Colour], Inked(f)
  PROVE  [c EXCEPT !.ink = f] \in TextScreen
<1>1. c \in Screen
  BY DEF TextScreen
<1> DEFINE r == [c EXCEPT !.ink = f]
<1>2. /\ r \in Screen /\ r.line_cur = c.line_cur /\ r.col_cur = c.col_cur
      /\ r.colour = c.colour /\ r.ink = f
  BY <1>1 DEF Screen
<1> HIDE DEF r
<1>3. r \in TextScreen
  BY <1>2 DEF TextScreen
<1> QED
  BY <1>3 DEF r

\* The fields of a screen on which text and clock are apart.
LEMMA TextFields ==
  ASSUME NEW c \in TextScreen
  PROVE  /\ c \in Screen
         /\ NB_LINES \in Nat /\ NB_LINES > 2 /\ NB_COLUMNS \in Nat /\ NB_COLUMNS > 0
         /\ c.line_cur \in 1..(NB_LINES - 1) /\ c.col_cur \in 0..(NB_COLUMNS - 1)
         /\ c.col_min \in 0..(NB_COLUMNS - 1)
         /\ c.ink \in [0..NB_LINES -> SUBSET Colour] /\ Inked(c.ink)
<1>1. c \in Screen
  BY DEF TextScreen
<1>2. c.col_min \in 0..(COL_LIMIT - 1) /\ c.ink \in [0..NB_LINES -> SUBSET Colour]
  BY <1>1, ScreenFields
<1>3. /\ NB_LINES \in Nat /\ NB_LINES > 2
      /\ NB_COLUMNS \in Nat /\ COL_LIMIT \in 1..NB_COLUMNS
  BY ScreenAssumption DEF FIRST_LINE
<1>4. c.col_min \in 0..(NB_COLUMNS - 1) /\ NB_COLUMNS > 0
  BY <1>2, <1>3
<1> QED
  BY <1>1, <1>2, <1>3, <1>4 DEF TextScreen, FIRST_LINE

\* A character is written in the line of the cursor.
LEMMA WriteCharText ==
  ASSUME NEW c \in TextScreen
  PROVE  /\ write_char(c) \in TextScreen
         /\ write_char(c).col_min = c.col_min
         /\ write_char(c).line_cur = c.line_cur
<1>1. /\ c \in Screen /\ c.line_cur \in 1..(NB_LINES - 1) /\ NB_LINES \in Nat
      /\ c.ink \in [0..NB_LINES -> SUBSET Colour] /\ Inked(c.ink)
  BY TextFields
<1>2. c.colour = "text"
  BY DEF TextScreen
<1> DEFINE f == [c.ink EXCEPT ![c.line_cur] = c.ink[c.line_cur] \cup {"text"}]
<1>3. f \in [0..NB_LINES -> SUBSET Colour]
  BY <1>1 DEF Colour
<1>4. Inked(f)
  <2>1. c.line_cur # 0 /\ c.line_cur # NB_LINES /\ 0 \in 0..NB_LINES /\ NB_LINES \in 0..NB_LINES
    BY <1>1
  <2>2. \A i \in 1..(NB_LINES - 1) : i \in 0..NB_LINES
    BY <1>1
  <2> QED
    BY <1>1, <2>1, <2>2 DEF Inked, FIRST_LINE
<1> HIDE DEF f
<1>5. [c EXCEPT !.ink = f] \in TextScreen
  BY <1>3, <1>4, InkText
<1>6. /\ [c EXCEPT !.ink = f].col_min = c.col_min
      /\ [c EXCEPT !.ink = f].line_cur = c.line_cur
  BY <1>1 DEF Screen
<1>7. write_char(c) = [c EXCEPT !.ink = f]
  BY <1>1, <1>2 DEF write_char, f, Screen
<1> QED
  BY <1>5, <1>6, <1>7

\* Scrolling moves the lines of the text up by one.
LEMMA NewLineText ==
  ASSUME NEW c \in TextScreen
  PROVE  new_line(c) \in TextScreen
<1>1. /\ c \in Screen /\ NB_LINES \in Nat /\ NB_LINES > 2
      /\ c.line_cur \in 1..(NB_LINES - 1) /\ c.col_min \in 0..(NB_COLUMNS - 1)
      /\ c.ink \in [0..NB_LINES -> SUBSET Colour] /\ Inked(c.ink)
  BY TextFields
<1>2. CASE c.line_cur # NB_LINES - 1
  <2>1. c.line_cur + 1 \in FIRST_LINE..(NB_LINES - 1)
    BY <1>1, <1>2 DEF FIRST_LINE
  <2>2. move_cursor(c, c.line_cur + 1, c.col_min) \in TextScreen
    BY <1>1, <2>1, MoveCursorText
  <2> QED
    BY <1>2, <2>2 DEF new_line
<1>3. CASE c.line_cur = NB_LINES - 1
  <2> DEFINE up == [i \in 0..NB_LINES |->
                      IF i \in FIRST_LINE..(NB_LINES - 1) THEN c.ink[i + 1] ELSE c.ink[i]]
             s == move_cursor([c EXCEPT !.ink = up], c.line_cur - 1, c.col_min)
  <2>1. up \in [0..NB_LINES -> SUBSET Colour]
    <3>1. ASSUME NEW i \in 0..NB_LINES, i \in FIRST_LINE..(NB_LINES - 1)
          PROVE  i + 1 \in 0..NB_LINES
      BY <1>1, <3>1 DEF FIRST_LINE
    <3> QED
      BY <1>1, <3>1
  <2>2. Inked(up)
    <3>1. up[0] = c.ink[0] /\ up[NB_LINES] = c.ink[NB_LINES]
      BY <1>1 DEF FIRST_LINE
    <3>2. ASSUME NEW i \in FIRST_LINE..(NB_LINES - 1) PROVE up[i] \subseteq {"text"}
      <4>1. up[i] = c.ink[i + 1] /\ (i + 1 \in FIRST_LINE..(NB_LINES - 1) \/ i + 1 = NB_LINES)
        BY <1>1 DEF FIRST_LINE
      <4> QED
        BY Zenon, <1>1, <4>1 DEF Inked
    <3> HIDE DEF up
    <3> QED
      BY <1>1, <3>1, <3>2 DEF Inked
  <2> HIDE DEF up
  <2>3. [c EXCEPT !.ink = up] \in TextScreen
    BY <2>1, <2>2, InkText
  <2>4. c.line_cur - 1 \in FIRST_LINE..(NB_LINES - 1) /\ c.line_cur > FIRST_LINE
    BY <1>1, <1>3 DEF FIRST_LINE
  <2> DEFINE y == [c EXCEPT !.ink = up]
  <2>5. s \in TextScreen
    <3> HIDE DEF y
    <3>1. move_cursor(y, c.line_cur - 1, c.col_min) \in TextScreen
      <4>1. y \in TextScreen
        BY <2>3 DEF y
      <4> QED
        BY <1>1, <2>4, <4>1, MoveCursorText
    <3> QED
      BY <3>1 DEF y
  <2>6. s.line_cur = c.line_cur - 1
    BY <1>1 DEF move_cursor, Screen
  <2>7. scroll(c) = s
    BY <2>4 DEF scroll, up
  <2> HIDE DEF s
  <2>8. s.line_cur + 1 \in FIRST_LINE..(NB_LINES - 1)
    BY <1>1, <1>3, <2>6 DEF FIRST_LINE
  <2>9. move_cursor(s, s.line_cur + 1, c.col_min) \in TextScreen
    BY <1>1, <2>5, <2>8, MoveCursorText
  <2> QED
    BY <1>3, <2>7, <2>9 DEF new_line
<1> QED
  BY <1>2, <1>3

\* A form feed blanks lines of the text only.
LEMMA BlankScreenText ==
  ASSUME NEW c \in TextScreen
  PROVE  blank_screen(c) \in TextScreen
<1>1. /\ NB_LINES \in Nat /\ NB_LINES > 2
      /\ c.ink \in [0..NB_LINES -> SUBSET Colour] /\ Inked(c.ink)
  BY TextFields
<1> DEFINE f == [i \in 0..NB_LINES |->
                   IF \/ i \in (FIRST_LINE + 1)..(NB_LINES - 1)
                      \/ i = FIRST_LINE /\ c.col_min = 0
                   THEN {} ELSE c.ink[i]]
<1>2. f \in [0..NB_LINES -> SUBSET Colour]
  BY <1>1
<1>3. Inked(f)
  <2>1. f[0] = c.ink[0] /\ f[NB_LINES] = c.ink[NB_LINES]
    BY <1>1 DEF FIRST_LINE
  <2>2. \A i \in 0..NB_LINES : f[i] = {} \/ f[i] = c.ink[i]
    OBVIOUS
  <2>3. \A i \in FIRST_LINE..(NB_LINES - 1) : i \in 0..NB_LINES
    BY <1>1 DEF FIRST_LINE
  <2> HIDE DEF f
  <2> QED
    BY <1>1, <2>1, <2>2, <2>3 DEF Inked
<1> HIDE DEF f
<1>4. [c EXCEPT !.ink = f] \in TextScreen
  BY <1>2, <1>3, InkText
<1> QED
  BY <1>4 DEF blank_screen, f

\* The cursor moves within a line.
LEMMA ColumnText ==
  ASSUME NEW c \in TextScreen, NEW d \in 0..(NB_COLUMNS - 1)
  PROVE  [c EXCEPT !.col_cur = d] \in TextScreen
<1>1. c \in Screen /\ c.colour = "text" /\ Inked(c.ink) /\ d \in Int
  BY ScreenAssumption DEF TextScreen
<1> DEFINE r == [c EXCEPT !.col_cur = d]
<1>2. r \in Screen
  BY <1>1, ScreenCol
<1>3. r.line_cur = c.line_cur /\ r.col_cur = d /\ r.colour = c.colour /\ r.ink = c.ink
  BY <1>1 DEF Screen
<1> HIDE DEF r
<1>4. r \in TextScreen
  BY <1>1, <1>2, <1>3 DEF TextScreen
<1> QED
  BY <1>4 DEF r

\* handle_char: whatever the character, the text stays within its lines.
LEMMA HandleCharText ==
  ASSUME NEW c \in TextScreen, NEW ch
  PROVE  handle_char(c, ch) \in TextScreen
<1>1. /\ c \in Screen /\ NB_LINES \in Nat /\ NB_LINES > 2 /\ NB_COLUMNS \in Nat
      /\ c.col_min \in 0..(NB_COLUMNS - 1) /\ c.col_cur \in 0..(NB_COLUMNS - 1)
      /\ c.line_cur \in 1..(NB_LINES - 1)
  BY TextFields
<1>2. put_printable(c) \in TextScreen
  <2> DEFINE w == write_char(c)
  <2>1. w \in TextScreen
    BY WriteCharText
  <2>2. c.col_cur # NB_COLUMNS - 1 => w.col_cur + 1 \in 0..(NB_COLUMNS - 1)
    <3>1. w.col_cur = c.col_cur
      BY <1>1 DEF write_char, Screen
    <3> HIDE DEF w
    <3> QED
      BY <1>1, <3>1
  <2> HIDE DEF w
  <2>3. c.col_cur # NB_COLUMNS - 1 => [w EXCEPT !.col_cur = w.col_cur + 1] \in TextScreen
    BY <2>1, <2>2, ColumnText
  <2>4. c.col_cur # NB_COLUMNS - 1 => [w EXCEPT !.col_cur = @ + 1] \in TextScreen
    BY <2>3
  <2>5. new_line(w) \in TextScreen
    BY <2>1, NewLineText
  <2> QED
    BY <2>4, <2>5 DEF put_printable, w
<1>3. step_back(c) \in TextScreen
  <2>1. c.col_cur > c.col_min => c.col_cur - 1 \in 0..(NB_COLUMNS - 1)
    BY <1>1
  <2>2. c.col_cur > c.col_min => [c EXCEPT !.col_cur = c.col_cur - 1] \in TextScreen
    BY <2>1, ColumnText
  <2> QED
    BY <2>2 DEF step_back
<1>4. next_tab(c) \in TextScreen
  <2> DEFINE t == (c.col_cur \div TAB + 1) * TAB
             d == IF t < NB_COLUMNS THEN t ELSE NB_COLUMNS - 1
  <2>1. t \in Nat
    <3>1. TAB \in Nat \ {0}
      BY ScreenAssumption
    <3>2. c.col_cur \div TAB \in Nat
      BY <1>1, <3>1
    <3>3. ASSUME NEW x \in Nat PROVE (x + 1) * TAB \in Nat
      BY <3>1
    <3> QED
      BY <3>2, <3>3
  <2> HIDE DEF t
  <2>2. d \in 0..(NB_COLUMNS - 1)
    BY <1>1, <2>1
  <2> HIDE DEF d
  <2>3. [c EXCEPT !.col_cur = d] \in TextScreen
    BY <2>2, ColumnText
  <2> QED
    BY <2>3 DEF next_tab, d, t
<1>5. new_line(c) \in TextScreen
  BY NewLineText
<1>6. move_cursor(blank_screen(c), FIRST_LINE, c.col_min) \in TextScreen
  <2>1. FIRST_LINE \in FIRST_LINE..(NB_LINES - 1)
    BY <1>1 DEF FIRST_LINE
  <2> QED
    BY <1>1, <2>1, BlankScreenText, MoveCursorText
<1> QED
  BY <1>2, <1>3, <1>4, <1>5, <1>6 DEF handle_char

\* set_col_min writes nothing and leaves the cursor where it is.
LEMMA SetColMinText ==
  ASSUME NEW c \in TextScreen, NEW limit
  PROVE  set_col_min(c, limit) \in TextScreen
<1>1. c \in Screen
  BY DEF TextScreen
<1> DEFINE r == set_col_min(c, limit)
<1>2. r.line_cur = c.line_cur /\ r.col_cur = c.col_cur /\ r.colour = c.colour /\ r.ink = c.ink
  BY <1>1 DEF set_col_min, Screen
<1>3. r \in Screen
  BY <1>1, SetColMinType
<1> HIDE DEF r
<1>4. r \in TextScreen
  BY <1>2, <1>3 DEF TextScreen
<1> QED
  BY <1>4 DEF r

-----------------------------------------------------------------------------
(***************************************************************************)
(* The display of the clock.                                               *)
(***************************************************************************)

\* After i of the n characters of the clock, written from a: all of them are on
\* the first line; the last one moves the cursor to the next line.
Displayed(a, x, i, n) ==
  /\ x \in Screen /\ x.colour = "clock"
  /\ x.ink = IF i = 0 THEN a.ink ELSE [a.ink EXCEPT ![0] = a.ink[0] \cup {"clock"}]
  /\ i < n => x.line_cur = 0 /\ x.col_cur = NB_COLUMNS - n + i

\* One character of the clock.
LEMMA ClockChar ==
  ASSUME NEW n \in 1..NB_COLUMNS, NEW i \in 1..n, NEW a \in Screen, NEW x,
         Displayed(a, x, i - 1, n)
  PROVE  Displayed(a, handle_char(x, "print"), i, n)
<1>1. /\ NB_COLUMNS \in Nat /\ NB_LINES \in Nat /\ NB_LINES > 2
      /\ n \in Nat /\ i \in Nat
  BY ScreenAssumption DEF FIRST_LINE
<1>2. /\ x \in Screen /\ x.colour = "clock" /\ x.line_cur = 0
      /\ x.col_cur = NB_COLUMNS - n + (i - 1)
      /\ x.ink = IF i - 1 = 0 THEN a.ink ELSE [a.ink EXCEPT ![0] = a.ink[0] \cup {"clock"}]
  BY <1>1 DEF Displayed
<1>3. a.ink \in [0..NB_LINES -> SUBSET Colour]
  BY ScreenFields
<1> DEFINE f == [a.ink EXCEPT ![0] = a.ink[0] \cup {"clock"}]
           w == [x EXCEPT !.ink = f]
<1>4. f \in [0..NB_LINES -> SUBSET Colour]
  BY <1>1, <1>3 DEF Colour
<1>5. [x.ink EXCEPT ![0] = x.ink[0] \cup {"clock"}] = f
  BY Zenon, <1>1, <1>2, <1>3
<1> HIDE DEF f
<1>6. write_char(x) = w
  <2>1. 0 \in 0..NB_LINES
    BY <1>1
  <2> QED
    BY Zenon, <1>2, <1>5, <2>1 DEF write_char, Screen
<1>7. /\ w \in Screen /\ w.colour = "clock" /\ w.line_cur = 0 /\ w.ink = f
      /\ w.col_cur = x.col_cur /\ w.col_min = x.col_min
  BY <1>2, <1>4 DEF Screen
<1> HIDE DEF w
<1>8. handle_char(x, "print") = put_printable(x)
  BY DEF handle_char
<1>9. handle_char(x, "print") \in Screen
  BY <1>2, HandleCharType
<1>10. x.line_cur < NB_LINES /\ x.col_cur < NB_COLUMNS
  BY <1>1, <1>2
<1>11. CASE i < n
  <2>1. x.col_cur # NB_COLUMNS - 1
    BY <1>1, <1>2, <1>11
  <2> DEFINE r == [w EXCEPT !.col_cur = w.col_cur + 1]
  <2>2. handle_char(x, "print") = r
    BY <1>6, <1>8, <1>10, <2>1 DEF put_printable
  <2>3. r.colour = "clock" /\ r.ink = f /\ r.line_cur = 0 /\ r.col_cur = w.col_cur + 1
    BY <1>7 DEF Screen
  <2> HIDE DEF r
  <2>4. r.col_cur = NB_COLUMNS - n + i
    BY <1>1, <1>2, <1>7, <2>3
  <2> QED
    BY <1>1, <1>9, <2>2, <2>3, <2>4 DEF Displayed, f
<1>12. CASE i = n
  <2>1. x.col_cur = NB_COLUMNS - 1
    BY <1>1, <1>2, <1>12
  <2>2. handle_char(x, "print") = new_line(w)
    BY <1>6, <1>8, <1>10, <2>1 DEF put_printable
  <2>3. w.line_cur # NB_LINES - 1
    BY <1>1, <1>7
  <2> DEFINE r == move_cursor(w, w.line_cur + 1, w.col_min)
  <2>4. new_line(w) = r
    BY <2>3 DEF new_line
  <2>5. r.colour = "clock" /\ r.ink = f
    BY <1>7 DEF Screen, move_cursor
  <2> HIDE DEF r
  <2> QED
    BY <1>1, <1>9, <1>12, <2>2, <2>4, <2>5 DEF Displayed, f
<1> QED
  BY <1>1, <1>11, <1>12

\* Up to 99 hours the display changes nothing but the first line.
LEMMA RefreshClockInk ==
  ASSUME NEW c \in Screen, NEW t, t.hour < TWO_DIGITS
  PROVE  refresh_clock(c, t).ink = [c.ink EXCEPT ![0] = c.ink[0] \cup {"clock"}]
<1> DEFINE n == CLOCK_WIDTH
           d == NB_COLUMNS - n
           y == [c EXCEPT !.colour = "clock"]
           a == move_cursor(y, 0, d)
           s == printed(n)
           b == console_putbytes(a, s)
<1>1. n \in 1..NB_COLUMNS /\ NB_COLUMNS \in Nat /\ n \in Nat /\ d \in Int
  BY ScreenAssumption
<1>2. y \in Screen /\ y.ink = c.ink /\ y.colour = "clock"
  <2>1. "clock" \in Colour
    BY DEF Colour
  <2> QED
    BY <2>1 DEF Screen
<1>3. refresh_clock(c, t) =
        [move_cursor(b, c.line_cur, c.col_cur) EXCEPT !.colour = c.colour]
  <2>1. clock_text(t) = s
    BY ClockText
  <2> QED
    BY <2>1 DEF refresh_clock
<1> HIDE DEF n, d, y
<1>4. /\ a \in Screen /\ a.ink = c.ink /\ a.colour = "clock"
      /\ a.line_cur = 0 /\ a.col_cur = d
  <2>1. a \in Screen
    BY <1>1, <1>2, MoveCursorType
  <2> QED
    BY <1>2, <2>1 DEF move_cursor, Screen
<1> HIDE DEF a
<1>5. s \in Seq(CharClass) /\ Len(s) = n /\ \A i \in 1..n : s[i] = "print"
  BY <1>1, PrintedText DEF printed
<1> HIDE DEF s
<1>6. PICK it \in [0..n -> Screen] :
        /\ b = it[n] /\ it[0] = a
        /\ \A i \in 1..n : it[i] = handle_char(it[i - 1], s[i])
  <2>1. \A x \in Screen : \A i \in 1..Len(s) : handle_char(x, s[i]) \in Screen
    BY HandleCharType
  <2>2. Len(s) \in Nat
    BY <1>1, <1>5
  <2>3. \E it : Written(it, Screen, a, s) /\ console_putbytes(a, s) = it[Len(s)]
    BY <1>4, <2>1, <2>2, PutBytesTurns
  <2> QED
    BY <1>5, <2>3 DEF Written
<1> DEFINE T == {i \in 0..n : Displayed(a, it[i], i, n)}
<1>7. 0 \in T
  BY <1>1, <1>4, <1>6 DEF Displayed, d
<1>8. ASSUME NEW i \in 1..n, i - 1 \in T PROVE i \in T
  <2>1. Displayed(a, it[i - 1], i - 1, n)
    BY <1>8
  <2>2. Displayed(a, handle_char(it[i - 1], "print"), i, n)
    BY <1>1, <1>4, <2>1, ClockChar
  <2>3. i \in 0..n /\ it[i] = handle_char(it[i - 1], "print")
    BY <1>1, <1>5, <1>6
  <2> QED
    BY <2>2, <2>3
<1>9. n \in T
  <2> HIDE DEF T
  <2>1. \A i \in 0..n : i \in T
    BY Zenon, <1>1, <1>7, <1>8, SetInduction
  <2> QED
    BY <1>1, <2>1
<1>10. b \in Screen /\ b.ink = [a.ink EXCEPT ![0] = a.ink[0] \cup {"clock"}]
  BY <1>1, <1>6, <1>9 DEF Displayed
<1> HIDE DEF b
<1>11. [move_cursor(b, c.line_cur, c.col_cur) EXCEPT !.colour = c.colour].ink = b.ink
  BY <1>10 DEF move_cursor, Screen
<1> QED
  BY <1>3, <1>4, <1>10, <1>11

\* The display leaves the text apart, and so does the first one on an empty
\* screen.
LEMMA RefreshClockText ==
  ASSUME NEW c \in TextScreen, NEW t, t.hour < TWO_DIGITS
  PROVE  refresh_clock(c, t) \in TextScreen
<1>1. /\ c \in Screen /\ NB_LINES \in Nat /\ NB_LINES > 2
      /\ c.ink \in [0..NB_LINES -> SUBSET Colour] /\ Inked(c.ink)
  BY TextFields
<1> DEFINE r == refresh_clock(c, t)
<1>2. r.ink = [c.ink EXCEPT ![0] = c.ink[0] \cup {"clock"}]
  BY <1>1, RefreshClockInk
<1>3. /\ r \in Screen /\ r.line_cur = c.line_cur
      /\ r.col_cur = c.col_cur /\ r.colour = c.colour
  BY <1>1, RefreshClockType
<1> HIDE DEF r
<1>4. [c.ink EXCEPT ![0] = c.ink[0] \cup {"clock"}] = c.ink
  BY Zenon, <1>1 DEF Inked
<1>5. r \in TextScreen
  BY <1>2, <1>3, <1>4 DEF TextScreen
<1> QED
  BY <1>5 DEF r

\* The boot: a blank screen with the clock at midnight.
LEMMA InitClockText ==
  /\ init_clock \in TextScreen
  /\ midnight \in TimeOfDay
<1> DEFINE c == initialize_screen
           r == refresh_clock(c, midnight)
<1>1. /\ NB_LINES \in Nat /\ NB_LINES > 2 /\ NB_COLUMNS \in Nat /\ COL_LIMIT \in 1..NB_COLUMNS
      /\ TWO_DIGITS \in Nat \ {0} /\ SIXTY \in Nat \ {0} /\ UINT_MOD \in Nat \ {0}
  BY ScreenAssumption DEF FIRST_LINE
<1>2. /\ c \in Screen /\ c.ink = [i \in 0..NB_LINES |-> {}]
      /\ c.line_cur = FIRST_LINE /\ c.col_cur = 0 /\ c.colour = "text"
  BY <1>1 DEF initialize_screen, Screen, Colour, FIRST_LINE
<1> HIDE DEF c
<1>3. r.ink = [c.ink EXCEPT ![0] = c.ink[0] \cup {"clock"}]
  <2>1. midnight.hour < TWO_DIGITS
    BY <1>1 DEF midnight
  <2> QED
    BY Zenon, <1>2, <2>1, RefreshClockInk
<1>4. /\ r \in Screen /\ r.line_cur = FIRST_LINE /\ r.col_cur = 0 /\ r.colour = "text"
  BY <1>2, RefreshClockType
<1>5. Inked(r.ink)
  <2>1. r.ink[0] = {"clock"} /\ \A i \in 1..NB_LINES : r.ink[i] = {}
    BY <1>1, <1>2, <1>3
  <2> HIDE DEF r
  <2> QED
    BY <1>1, <2>1 DEF Inked, FIRST_LINE
<1>6. 1 \in 1..(NB_LINES - 1) /\ 0 \in 0..(NB_COLUMNS - 1)
  BY <1>1
<1>7. r \in TextScreen
  <2> HIDE DEF r
  <2> QED
    BY <1>4, <1>5, <1>6 DEF TextScreen, FIRST_LINE
<1>8. midnight \in TimeOfDay
  BY <1>1 DEF midnight, TimeOfDay
<1> QED
  BY <1>7, <1>8 DEF init_clock, c

-----------------------------------------------------------------------------
(***************************************************************************)
(* Two queues that share a set of elements.                                *)
(***************************************************************************)

\* Nothing is after the end of a sequence.
LEMMA SubSeqEmpty ==
  ASSUME NEW s, NEW m \in Int, NEW n \in Int, n < m
  PROVE  SubSeq(s, m, n) = <<>>
OBVIOUS

-----------------------------------------------------------------------------
(***************************************************************************)
(* The bottom and the top.                                                 *)
(***************************************************************************)

\* queue_del, element by element, where the element is at i for the first time.
LEMMA QueueDelAt ==
  ASSUME NEW S, NEW q \in Seq(S), NEW i \in 1..Len(q), \A j \in 1..(i - 1) : q[j] # q[i]
  PROVE  /\ queue_del(q[i], q) \in Seq(S)
         /\ Len(queue_del(q[i], q)) = Len(q) - 1
         /\ \A j \in 1..(Len(q) - 1) :
              queue_del(q[i], q)[j] = IF j < i THEN q[j] ELSE q[j + 1]
<1> DEFINE I == {j \in 1..Len(q) : q[j] = q[i]}
<1>1. I \in SUBSET Nat /\ I # {}
  OBVIOUS
<1>2. Min(I) \in I /\ \A j \in I : Min(I) <= j
  <2> HIDE DEF I
  <2> QED
    BY <1>1, MinNat
<1>3. Min(I) = i
  <2>1. Min(I) \in 1..Len(q) /\ q[Min(I)] = q[i] /\ Min(I) <= i
    BY <1>2
  <2> HIDE DEF I
  <2> QED
    BY <2>1
<1>4. queue_del(q[i], q) = RemoveAt(q, Min(I))
  BY <1>1 DEF queue_del, FirstWhere
<1> HIDE DEF I
<1> QED
  BY <1>3, <1>4, RemoveAtProperties

\* queue_del of the top is queue_out, if the queue has no duplicates.
LEMMA QueueDelTop ==
  ASSUME NEW S, NEW q \in Seq(S), ~queue_empty(q), IsInjective(q)
  PROVE  queue_del(queue_top(q), q) = queue_out(q)
<1> DEFINE n == Len(q)
           r == queue_del(q[n], q)
<1>1. n \in Nat /\ n >= 1 /\ DOMAIN q = 1..n
  BY DEF queue_empty
<1>2. n \in 1..n /\ \A j \in 1..(n - 1) : q[j] # q[n]
  BY <1>1 DEF IsInjective
<1>3. r \in Seq(S) /\ Len(r) = n - 1 /\ \A j \in 1..(n - 1) : r[j] = IF j < n THEN q[j] ELSE q[j + 1]
  BY <1>2, QueueDelAt
<1> HIDE DEF r
<1>4. \A j \in 1..(n - 1) : r[j] = q[j]
  BY <1>1, <1>3
<1>5. /\ queue_out(q) \in Seq(S) /\ Len(queue_out(q)) = n - 1
      /\ \A j \in 1..(n - 1) : queue_out(q)[j] = q[j]
  BY <1>1 DEF queue_out
<1>6. r = queue_out(q)
  BY <1>1, <1>3, <1>4, <1>5
<1> QED
  BY <1>6 DEF r, queue_top

\* queue_del of the bottom is queue_out_bot.
LEMMA QueueDelBottom ==
  ASSUME NEW S, NEW q \in Seq(S), ~queue_empty(q)
  PROVE  queue_del(queue_bottom(q), q) = queue_out_bot(q)
<1> DEFINE n == Len(q)
           r == queue_del(q[1], q)
<1>1. n \in Nat /\ n >= 1
  BY DEF queue_empty
<1>2. 1 \in 1..n /\ \A j \in 1..(1 - 1) : q[j] # q[1]
  BY <1>1
<1>3. r \in Seq(S) /\ Len(r) = n - 1 /\ \A j \in 1..(n - 1) : r[j] = IF j < 1 THEN q[j] ELSE q[j + 1]
  BY <1>2, QueueDelAt
<1> HIDE DEF r
<1>4. \A j \in 1..(n - 1) : r[j] = q[j + 1]
  BY <1>1, <1>3
<1>5. /\ queue_out_bot(q) \in Seq(S) /\ Len(queue_out_bot(q)) = n - 1
      /\ \A j \in 1..(n - 1) : queue_out_bot(q)[j] = q[j + 1]
  <2> DEFINE t == SubSeq(q, 2, n)
  <2>1. 2 \in Int /\ n \in Int /\ \A j \in 2..n : q[j] \in S
    BY <1>1
  <2>2. t \in Seq(S) /\ Len(t) = IF 2 <= n THEN n - 2 + 1 ELSE 0
    BY <2>1, Extract
  <2>3. Len(t) = n - 1
    <3> HIDE DEF t, n
    <3> QED
      BY <1>1, <2>2
  <2>4. \A j \in 1..(n - 1) : t[j] = q[j + 1]
    BY <1>1
  <2> HIDE DEF t
  <2> QED
    BY <2>2, <2>3, <2>4 DEF queue_out_bot, t
<1>6. r = queue_out_bot(q)
  BY <1>1, <1>3, <1>4, <1>5
<1> QED
  BY <1>6 DEF r, queue_bottom

\* The number of frames is positive; a frame is a key of the free queue.
LEMMA FrameKeys ==
  /\ BUFFER_SIZE \in Nat /\ BUFFER_SIZE > 0
  /\ frame_id \in [Frame -> Int] /\ arrival \in [Frame -> Int]
BY KeyboardAssumption DEF Frame, frame_id, arrival

\* r is queue u with e below the others.
Below(r, u, e) ==
  /\ Len(r) = Len(u) + 1 /\ r[1] = e
  /\ \A j \in 1..Len(u) : r[j + 1] = u[j]

\* All frames arrive at the same time: a new one goes to the bottom.
LEMMA QueueAddEqual ==
  ASSUME NEW q \in Seq(Frame), NEW elem \in Frame
  PROVE  Below(queue_add(elem, q, arrival), q, elem)
<1> DEFINE i == Min(Stops(elem, q, arrival))
           n == Len(q)
           r == InsertAt(q, i, elem)
<1>1. n \in Nat /\ \A j \in 1..n : q[j] \in Frame
  OBVIOUS
<1>2. /\ i \in 1..(n + 1)
      /\ \A j \in 1..(i - 1) : j \in 1..n /\ arrival[q[j]] < arrival[elem]
  BY Zenon, FrameKeys, FirstStop
<1> HIDE DEF i, n
<1>3. i = 1
  <2> SUFFICES ASSUME i # 1 PROVE FALSE
    OBVIOUS
  <2>1. 1 \in 1..(i - 1)
    BY <1>1, <1>2
  <2>2. q[1] \in Frame /\ arrival[q[1]] < arrival[elem]
    BY <1>1, <1>2, <2>1
  <2>3. arrival[elem] \in Int
    BY FrameKeys
  <2>4. arrival[q[1]] = arrival[elem]
    BY <2>2 DEF arrival
  <2> QED
    BY <2>2, <2>3, <2>4
<1>4. /\ r \in Seq(Frame) /\ Len(r) = n + 1
      /\ \A j \in 1..(n + 1) : r[j] = IF j < i THEN q[j] ELSE IF j = i THEN elem ELSE q[j - 1]
  <2>1. i \in 1..(Len(q) + 1)
    BY <1>2 DEF n
  <2> QED
    BY <2>1, InsertAtProperties DEF n
<1> HIDE DEF r
<1>5. r[1] = elem
  BY <1>1, <1>3, <1>4
<1>6. ASSUME NEW j \in 1..n PROVE r[j + 1] = q[j]
  <2>1. j + 1 \in 1..(n + 1) /\ ~(j + 1 < i) /\ j + 1 # i /\ (j + 1) - 1 = j
    BY <1>1, <1>3
  <2> QED
    BY <1>4, <2>1
<1>7. Below(r, q, elem)
  BY <1>4, <1>5, <1>6 DEF n, Below
<1> QED
  BY <1>7 DEF queue_add, r, i

-----------------------------------------------------------------------------
(***************************************************************************)
(* Two queues that share the frames, and what is read from one.            *)
(***************************************************************************)

\* Every frame is in exactly one of u and f.
Share(u, f) ==
  /\ u \in Seq(Frame) /\ f \in Seq(Frame) /\ IsInjective(u) /\ IsInjective(f)
  /\ Range(u) \cap Range(f) = {} /\ Range(u) \cup Range(f) = Frame
  /\ Len(u) + Len(f) = BUFFER_SIZE

\* An element goes from one queue to the other.
LEMMA ShareMove ==
  ASSUME NEW u, NEW f, Share(u, f),
         NEW e \in Range(u), NEW key \in [Frame -> Int]
  PROVE  Share(queue_del(e, u), queue_add(e, f, key))
<1> DEFINE r == queue_del(e, u)
           t == queue_add(e, f, key)
<1>1. /\ u \in Seq(Frame) /\ f \in Seq(Frame) /\ IsInjective(u) /\ IsInjective(f)
      /\ Range(u) \cap Range(f) = {} /\ Range(u) \cup Range(f) = Frame
      /\ Len(u) + Len(f) = BUFFER_SIZE /\ e \in Frame /\ e \notin Range(f)
  BY DEF Share
<1>2. r \in Seq(Frame) /\ Range(r) = Range(u) \ {e} /\ IsInjective(r)
  BY <1>1, QueueDel
<1>3. t \in Seq(Frame) /\ Range(t) = Range(f) \cup {e} /\ IsInjective(t)
  BY <1>1, QueueAdd
<1>4. Len(r) = Len(u) - 1
  <2>1. PICK i \in 1..Len(u) : u[i] = e
    BY <1>1 DEF Range
  <2>2. \A j \in 1..(i - 1) : u[j] # u[i]
    <3>1. DOMAIN u = 1..Len(u) /\ Len(u) \in Nat
      BY <1>1
    <3> QED
      BY <1>1, <3>1 DEF IsInjective
  <2> HIDE DEF r
  <2>3. Len(queue_del(u[i], u)) = Len(u) - 1
    BY <1>1, <2>2, QueueDelAt
  <2> QED
    BY <2>1, <2>3 DEF r
<1>5. Len(t) = Len(f) + 1
  <2>1. Min(Stops(e, f, key)) \in 1..(Len(f) + 1)
    BY <1>1, FirstStop
  <2> QED
    BY <1>1, <2>1, InsertAtProperties DEF queue_add
<1> HIDE DEF r, t
<1>6. Len(r) + Len(t) = BUFFER_SIZE
  <2>1. Len(u) \in Nat /\ Len(f) \in Nat
    BY <1>1
  <2> QED
    BY <1>1, <1>4, <1>5, <2>1
<1>7. Range(r) \cap Range(t) = {} /\ Range(r) \cup Range(t) = Frame
  BY <1>1, <1>2, <1>3
<1>8. Share(r, t)
  BY <1>2, <1>3, <1>6, <1>7 DEF Share
<1> QED
  BY <1>8 DEF r, t

\* Either queue may be the one that gives.
LEMMA ShareSwap ==
  ASSUME NEW u, NEW f, Share(u, f)
  PROVE  Share(f, u)
<1>1. Len(u) \in Nat /\ Len(f) \in Nat
  BY DEF Share
<1> QED
  BY <1>1 DEF Share

\* What is read from queue u, from the top: the oldest first.
Oldest(u, v) == [i \in 1..Len(u) |-> v[u[Len(u) + 1 - i]]]

\* The elements up to the n-th.
LEMMA FrontPart ==
  ASSUME NEW u \in Seq(Frame), NEW n \in 0..Len(u)
  PROVE  /\ SubSeq(u, 1, n) \in Seq(Frame) /\ Len(SubSeq(u, 1, n)) = n
         /\ \A i \in 1..n : SubSeq(u, 1, n)[i] = u[i]
<1> DEFINE r == SubSeq(u, 1, n)
<1>1. 1 \in Int /\ n \in Int /\ n \in Nat /\ \A i \in 1..n : u[i] \in Frame
  OBVIOUS
<1>2. /\ r \in Seq(Frame) /\ Len(r) = IF 1 <= n THEN n - 1 + 1 ELSE 0
      /\ \A i \in 1..(n - 1 + 1) : r[i] = u[1 + i - 1]
  BY <1>1, Extract
<1> HIDE DEF r
<1>3. Len(r) = n /\ \A i \in 1..n : r[i] = u[i]
  BY <1>1, <1>2
<1> QED
  BY <1>2, <1>3 DEF r

\* Without its n oldest elements.
LEMMA OldestFront ==
  ASSUME NEW u \in Seq(Frame), NEW v \in [Frame -> CharClass], NEW n \in 0..Len(u)
  PROVE  Oldest(SubSeq(u, 1, Len(u) - n), v) = SubSeq(Oldest(u, v), n + 1, Len(u))
<1> DEFINE size == Len(u)
           l == Oldest(u, v)
           r == SubSeq(u, 1, size - n)
           s == SubSeq(l, n + 1, size)
<1>1. size \in Nat /\ n \in Nat /\ n <= size /\ size - n \in Nat
  OBVIOUS
<1>2. l \in Seq(CharClass) /\ Len(l) = size /\ \A i \in 1..size : l[i] = v[u[size + 1 - i]]
  <2>1. \A i \in 1..size : size + 1 - i \in 1..size /\ v[u[size + 1 - i]] \in CharClass
    OBVIOUS
  <2> QED
    BY <1>1, <2>1 DEF Oldest
<1>3. Len(r) = size - n /\ \A i \in 1..(size - n) : r[i] = u[i]
  <2>1. 1 \in Int /\ size - n \in Int /\ \A i \in 1..(size - n) : u[i] \in Frame
    BY <1>1
  <2>2. /\ Len(r) = IF 1 <= size - n THEN (size - n) - 1 + 1 ELSE 0
        /\ \A i \in 1..((size - n) - 1 + 1) : r[i] = u[1 + i - 1]
    BY <2>1, Extract
  <2> HIDE DEF r, size
  <2> QED
    BY <1>1, <2>2
<1> HIDE DEF l, size
<1>4. Len(s) = size - n /\ \A i \in 1..(size - n) : s[i] = l[n + i]
  <2>1. n + 1 \in Int /\ size \in Int /\ \A i \in (n + 1)..size : l[i] \in CharClass
    BY <1>1, <1>2
  <2>2. /\ Len(s) = IF n + 1 <= size THEN size - (n + 1) + 1 ELSE 0
        /\ \A i \in 1..(size - (n + 1) + 1) : s[i] = l[(n + 1) + i - 1]
    BY <2>1, Extract
  <2> HIDE DEF s
  <2> QED
    BY <1>1, <2>2
<1>5. s \in Seq(CharClass)
  <2>1. n + 1 \in Int /\ size \in Int /\ \A i \in (n + 1)..size : l[i] \in CharClass
    BY <1>1, <1>2
  <2> QED
    BY <2>1, Extract
<1> HIDE DEF r, s
<1>6. ASSUME NEW i \in 1..(size - n) PROVE v[r[(size - n) + 1 - i]] = s[i]
  <2>1. /\ (size - n) + 1 - i \in 1..(size - n) /\ n + i \in 1..size
        /\ size + 1 - (n + i) = (size - n) + 1 - i
    BY <1>1
  <2> QED
    BY <1>2, <1>3, <1>4, <2>1
<1>7. Oldest(r, v) = s
  <2>1. s = [i \in 1..(size - n) |-> s[i]]
    BY <1>1, <1>4, <1>5
  <2> QED
    BY <1>3, <1>6, <2>1 DEF Oldest
<1> QED
  BY <1>7 DEF r, s, l, size

\* Without its newest element.
LEMMA OldestTail ==
  ASSUME NEW u \in Seq(Frame), NEW v \in [Frame -> CharClass], ~queue_empty(u)
  PROVE  Oldest(queue_out_bot(u), v) = SubSeq(Oldest(u, v), 1, Len(u) - 1)
<1> DEFINE size == Len(u)
           l == Oldest(u, v)
           r == SubSeq(u, 2, size)
           s == SubSeq(l, 1, size - 1)
<1>1. size \in Nat /\ size >= 1 /\ size - 1 \in Nat
  BY DEF queue_empty
<1>2. l \in Seq(CharClass) /\ Len(l) = size /\ \A i \in 1..size : l[i] = v[u[size + 1 - i]]
  <2>1. \A i \in 1..size : size + 1 - i \in 1..size /\ v[u[size + 1 - i]] \in CharClass
    OBVIOUS
  <2> QED
    BY <1>1, <2>1 DEF Oldest
<1>3. Len(r) = size - 1 /\ \A i \in 1..(size - 1) : r[i] = u[i + 1]
  <2>1. 2 \in Int /\ size \in Int /\ \A i \in 2..size : u[i] \in Frame
    BY <1>1
  <2>2. /\ Len(r) = IF 2 <= size THEN size - 2 + 1 ELSE 0
        /\ \A i \in 1..(size - 2 + 1) : r[i] = u[2 + i - 1]
    BY <2>1, Extract
  <2> HIDE DEF r, size
  <2> QED
    BY <1>1, <2>2
<1> HIDE DEF l, size
<1>4. s \in Seq(CharClass) /\ Len(s) = size - 1 /\ \A i \in 1..(size - 1) : s[i] = l[i]
  <2>1. 1 \in Int /\ size - 1 \in Int /\ \A i \in 1..(size - 1) : l[i] \in CharClass
    BY <1>1, <1>2
  <2>2. /\ s \in Seq(CharClass) /\ Len(s) = IF 1 <= size - 1 THEN (size - 1) - 1 + 1 ELSE 0
        /\ \A i \in 1..((size - 1) - 1 + 1) : s[i] = l[1 + i - 1]
    BY <2>1, Extract
  <2> HIDE DEF s
  <2> QED
    BY <1>1, <2>2
<1> HIDE DEF r, s
<1>5. ASSUME NEW i \in 1..(size - 1) PROVE v[r[(size - 1) + 1 - i]] = s[i]
  <2>1. /\ (size - 1) + 1 - i = size - i /\ size - i \in 1..(size - 1) /\ i \in 1..size
        /\ (size - i) + 1 = size + 1 - i
    BY <1>1
  <2>2. r[size - i] = u[size + 1 - i]
    BY <1>3, <2>1
  <2>3. s[i] = v[u[size + 1 - i]]
    BY <1>2, <1>4, <2>1
  <2> QED
    BY <2>1, <2>2, <2>3
<1>6. Oldest(r, v) = s
  <2>1. s = [i \in 1..(size - 1) |-> s[i]]
    BY <1>1, <1>4
  <2> QED
    BY <1>3, <1>5, <2>1 DEF Oldest
<1> QED
  BY <1>6 DEF r, s, l, size, queue_out_bot

\* w and v agree on the elements of u.
SameChars(w, v, u) == \A j \in 1..Len(u) : w[u[j]] = v[u[j]]

\* With a new element e below the others.
LEMMA OldestAdd ==
  ASSUME NEW u \in Seq(Frame), NEW v \in [Frame -> CharClass],
         NEW r, NEW e, Below(r, u, e), NEW w, w[e] \in CharClass, SameChars(w, v, u)
  PROVE  Oldest(r, w) = Append(Oldest(u, v), w[e])
<1> DEFINE size == Len(u)
           c == w[e]
           l == Oldest(u, v)
           s == Append(l, c)
<1>1. size \in Nat
  OBVIOUS
<1>2. l \in Seq(CharClass) /\ Len(l) = size /\ \A i \in 1..size : l[i] = v[u[size + 1 - i]]
  <2>1. \A i \in 1..size : size + 1 - i \in 1..size /\ v[u[size + 1 - i]] \in CharClass
    OBVIOUS
  <2> QED
    BY <1>1, <2>1 DEF Oldest
<1> HIDE DEF l
<1>3. /\ s \in Seq(CharClass) /\ Len(s) = size + 1 /\ s[size + 1] = c
      /\ \A i \in 1..size : s[i] = l[i]
  BY <1>1, <1>2
<1> HIDE DEF s, size
<1>4. ASSUME NEW i \in 1..(size + 1) PROVE w[r[(size + 1) + 1 - i]] = s[i]
  <2>1. CASE i = size + 1
    <3>1. (size + 1) + 1 - i = 1
      BY <1>1, <2>1
    <3> QED
      BY <1>3, <2>1, <3>1 DEF Below
  <2>2. CASE i # size + 1
    <3>1. i \in 1..size /\ size + 1 - i \in 1..size /\ (size + 1) + 1 - i = (size + 1 - i) + 1
      BY <1>1, <2>2
    <3>2. r[(size + 1 - i) + 1] = u[size + 1 - i] /\ w[u[size + 1 - i]] = v[u[size + 1 - i]]
      BY <3>1 DEF size, Below, SameChars
    <3> QED
      BY <1>2, <1>3, <3>1, <3>2
  <2> QED
    BY <2>1, <2>2
<1>5. s = [i \in 1..(size + 1) |-> s[i]]
  BY <1>1, <1>3
<1>6. Len(r) = size + 1
  BY DEF size, Below
<1>7. Oldest(r, w) = s
  BY <1>4, <1>5, <1>6 DEF Oldest
<1> QED
  BY <1>7 DEF s, l

-----------------------------------------------------------------------------
(***************************************************************************)
(* kbd.c.                                                                  *)
(***************************************************************************)

\* Each frame is in one of the two queues, the free ones in order.
Buffer(b) ==
  /\ b \in KeyboardMemory
  /\ Share(b.used, b.free) /\ SortedBy(b.free, frame_id)

\* The line in the buffer, oldest character first.
Typed(b) == Oldest(b.used, b.val)

\* The fields that have nothing to do with the characters.
Kept(b, r) ==
  /\ r.echo = b.echo /\ r.on = b.on /\ r.reading = b.reading
  /\ r.calling_pid = b.calling_pid /\ r.length = b.length

\* The queues of a buffer.
LEMMA BufferQueues ==
  ASSUME NEW b, Buffer(b)
  PROVE  /\ b.used \in Seq(Frame) /\ b.free \in Seq(Frame) /\ b.val \in [Frame -> CharClass]
         /\ IsInjective(b.used) /\ IsInjective(b.free)
         /\ Len(b.used) \in Nat /\ Len(b.free) \in Nat
         /\ Len(b.used) + Len(b.free) = BUFFER_SIZE
BY DEF Buffer, Share, KeyboardMemory

\* A memory of the keyboard with other queues.
LEMMA NewQueues ==
  ASSUME NEW b \in KeyboardMemory, NEW u \in Seq(Frame), NEW f \in Seq(Frame)
  PROVE  LET r == [b EXCEPT !.used = u, !.free = f]
         IN  r \in KeyboardMemory /\ r.used = u /\ r.free = f /\ r.val = b.val /\ Kept(b, r)
BY Zenon DEF KeyboardMemory, Kept

\* A frame that leaves the used queue is free.
LEMMA ReleaseBuffer ==
  ASSUME NEW b, Buffer(b), NEW f \in Range(b.used)
  PROVE  /\ Buffer(release(b, f)) /\ Kept(b, release(b, f))
         /\ release(b, f).used = queue_del(f, b.used) /\ release(b, f).val = b.val
<1> DEFINE u == queue_del(f, b.used)
           g == queue_add(f, b.free, frame_id)
           r == [b EXCEPT !.used = u, !.free = g]
<1>1. b \in KeyboardMemory /\ Share(b.used, b.free) /\ SortedBy(b.free, frame_id)
  BY DEF Buffer
<1>2. Share(u, g)
  BY <1>1, FrameKeys, ShareMove
<1>3. SortedBy(g, frame_id)
  <2>1. b.free \in Seq(Frame) /\ f \in Frame
    BY <1>1 DEF Share
  <2> QED
    BY <1>1, <2>1, FrameKeys, QueueAddSorted
<1>4. release(b, f) = r
  BY DEF release
<1> HIDE DEF u, g
<1>5. r \in KeyboardMemory /\ r.used = u /\ r.free = g /\ r.val = b.val /\ Kept(b, r)
  <2>1. u \in Seq(Frame) /\ g \in Seq(Frame)
    BY <1>2 DEF Share
  <2> QED
    BY Zenon, <1>1, <2>1, NewQueues
<1> HIDE DEF r
<1>6. Buffer(r)
  BY <1>2, <1>3, <1>5 DEF Buffer
<1> QED
  BY <1>4, <1>5, <1>6 DEF u

\* r is buffer b without its n oldest characters.
Removed(b, r, n) ==
  /\ Buffer(r) /\ Kept(b, r) /\ r.val = b.val
  /\ r.used = SubSeq(b.used, 1, Len(b.used) - n)

\* remove_buff takes one, if there is one.
LEMMA RemoveBuff ==
  ASSUME NEW b, Buffer(b)
  PROVE  Removed(b, remove_buff(b), 1)
<1>1. CASE queue_empty(b.used)
  <2>1. remove_buff(b) = b
    BY <1>1 DEF remove_buff, buff_empty
  <2>2. SubSeq(b.used, 1, Len(b.used) - 1) = b.used
    <3>1. Len(b.used) = 0
      BY <1>1 DEF queue_empty
    <3> QED
      BY <1>1, <3>1, SubSeqEmpty DEF queue_empty
  <2> QED
    BY <2>1, <2>2 DEF Removed, Kept
<1>2. CASE ~queue_empty(b.used)
  <2>1. b.used \in Seq(Frame) /\ IsInjective(b.used)
    BY Zenon, BufferQueues
  <2>2. queue_top(b.used) \in Range(b.used)
    BY Zenon, <1>2, <2>1, QueueOut
  <2>3. queue_del(queue_top(b.used), b.used) = SubSeq(b.used, 1, Len(b.used) - 1)
    BY <1>2, <2>1, QueueDelTop DEF queue_out
  <2>4. remove_buff(b) = release(b, queue_top(b.used))
    BY <1>2 DEF remove_buff, buff_empty
  <2> QED
    BY <2>2, <2>3, <2>4, ReleaseBuffer DEF Removed
<1> QED
  BY <1>1, <1>2

\* One more.
LEMMA RemoveOneMore ==
  ASSUME NEW b, Buffer(b), NEW n \in Nat, NEW x, Removed(b, x, n)
  PROVE  Removed(b, remove_buff(x), n + 1)
<1> DEFINE r == remove_buff(x)
           size == Len(b.used)
<1>1. b.used \in Seq(Frame) /\ size \in Nat
  BY Zenon, BufferQueues
<1>2. Buffer(x) /\ Kept(b, x) /\ x.val = b.val /\ x.used = SubSeq(b.used, 1, size - n)
  BY DEF Removed
<1>3. Buffer(r) /\ Kept(x, r) /\ r.val = x.val /\ r.used = SubSeq(x.used, 1, Len(x.used) - 1)
  BY Zenon, <1>2, RemoveBuff DEF Removed
<1> HIDE DEF r, size
<1>4. SubSeq(x.used, 1, Len(x.used) - 1) = SubSeq(b.used, 1, size - (n + 1))
  <2>1. CASE size - n <= 0
    <3>1. size - n < 1 /\ size - (n + 1) < 1 /\ size - n \in Int /\ size - (n + 1) \in Int
      BY <1>1, <2>1
    <3>2. x.used = <<>> /\ SubSeq(b.used, 1, size - (n + 1)) = <<>>
      BY <1>2, <3>1, SubSeqEmpty
    <3>3. Len(x.used) - 1 \in Int /\ Len(x.used) - 1 < 1
      BY <3>2
    <3>4. SubSeq(x.used, 1, Len(x.used) - 1) = <<>>
      BY <3>3, SubSeqEmpty
    <3> QED
      BY Zenon, <3>2, <3>4
  <2>2. CASE size - n >= 1
    <3>1. size - n \in 1..size
      BY <1>1, <2>2
    <3>2. /\ x.used \in Seq(Frame) /\ Len(x.used) = size - n
          /\ \A i \in 1..(size - n) : x.used[i] = b.used[i]
      BY <1>1, <1>2, <3>1, FrontPart DEF size
    <3>3. (size - n) - 1 \in 0..(size - n) /\ (size - n) - 1 \in 0..size /\ (size - n) - 1 = size - (n + 1)
      BY <1>1, <2>2
    <3> DEFINE j == size - (n + 1)
    <3>4. /\ SubSeq(x.used, 1, j) \in Seq(Frame) /\ Len(SubSeq(x.used, 1, j)) = j
          /\ \A i \in 1..j : SubSeq(x.used, 1, j)[i] = x.used[i]
      BY <3>2, <3>3, FrontPart
    <3>5. /\ SubSeq(b.used, 1, j) \in Seq(Frame) /\ Len(SubSeq(b.used, 1, j)) = j
          /\ \A i \in 1..j : SubSeq(b.used, 1, j)[i] = b.used[i]
      BY <1>1, <3>3, FrontPart DEF size
    <3>6. \A i \in 1..j : i \in 1..(size - n)
      BY <1>1, <3>3
    <3> HIDE DEF j
    <3>7. SubSeq(x.used, 1, j) = SubSeq(b.used, 1, j)
      BY <3>2, <3>4, <3>5, <3>6
    <3> QED
      BY <3>2, <3>3, <3>7 DEF j
  <2> QED
    BY <1>1, <2>1, <2>2
<1> QED
  BY <1>2, <1>3, <1>4 DEF Removed, Kept, r, size

\* No character less.
LEMMA RemoveNone ==
  ASSUME NEW b, Buffer(b)
  PROVE  Removed(b, b, 0)
<1> DEFINE size == Len(b.used)
<1>1. b.used \in Seq(Frame) /\ size \in Nat
  BY Zenon, BufferQueues
<1>2. size - 0 = size /\ size \in 0..size
  BY <1>1
<1>3. /\ SubSeq(b.used, 1, size) \in Seq(Frame) /\ Len(SubSeq(b.used, 1, size)) = size
      /\ \A i \in 1..size : SubSeq(b.used, 1, size)[i] = b.used[i]
  BY <1>1, <1>2, FrontPart
<1>4. SubSeq(b.used, 1, size) = b.used
  BY <1>1, <1>3
<1> HIDE DEF size
<1> QED
  BY <1>2, <1>4 DEF Removed, Kept, size

\* A loop of n turns takes the n oldest characters, or all there are.
LEMMA RemoveTimes ==
  ASSUME NEW b, Buffer(b), NEW n \in Nat
  PROVE  Removed(b, remove_times(b, n), n)
<1> DEFINE E(h) == h = [i \in 0..n |-> IF i = 0 THEN b ELSE remove_buff(h[i - 1])]
           it == CHOOSE h : E(h)
           S == {x \in KeyboardMemory : \E i \in Nat : Removed(b, x, i)}
           F == [x \in S |-> remove_buff(x)]
<1>1. remove_times(b, n) = it[n]
  BY DEF remove_times
<1>2. ASSUME NEW x, NEW i \in Nat, Removed(b, x, i) PROVE x \in S
  BY Zenon, <1>2 DEF Removed, Buffer
<1>3. F \in [S -> S]
  <2>1. ASSUME NEW x \in S PROVE remove_buff(x) \in S
    <3>1. PICK i \in Nat : Removed(b, x, i)
      OBVIOUS
    <3>2. Removed(b, remove_buff(x), i + 1) /\ i + 1 \in Nat
      BY <3>1, RemoveOneMore
    <3> QED
      BY <1>2, <3>2
  <2> HIDE DEF S
  <2> QED
    BY <2>1
<1>4. b \in S
  BY <1>2, RemoveNone
<1> HIDE DEF S
<1>5. PICK h : Iterates(h, S, F, b, n)
  <2> HIDE DEF F
  <2> QED
    BY <1>3, <1>4, IterExists
<1>6. E(h)
  <2>1. \A i \in 0..n : i # 0 => i \in 1..n /\ i - 1 \in 0..n /\ h[i - 1] \in S
    BY <1>5 DEF Iterates
  <2> QED
    BY Zenon, <1>5, <2>1 DEF Iterates
<1>7. E(it)
  BY Zenon, <1>6
<1> HIDE DEF it
<1>8. it[0] = b /\ \A i \in 1..n : it[i] = remove_buff(it[i - 1])
  BY <1>7
<1> HIDE DEF E, F
<1> DEFINE T == {i \in 0..n : Removed(b, it[i], i)}
<1>9. 0 \in T
  BY <1>8, RemoveNone
<1>10. ASSUME NEW i \in 1..n, i - 1 \in T PROVE i \in T
  <2>1. Removed(b, it[i - 1], i - 1) /\ i - 1 \in Nat /\ (i - 1) + 1 = i /\ i \in 0..n
    BY <1>10
  <2>2. Removed(b, remove_buff(it[i - 1]), (i - 1) + 1)
    BY <2>1, RemoveOneMore
  <2> QED
    BY <1>8, <2>1, <2>2
<1> HIDE DEF T
<1>11. \A i \in 0..n : i \in T
  BY Zenon, <1>9, <1>10, SetInduction
<1>12. n \in T
  BY <1>11
<1> QED
  BY <1>1, <1>12 DEF T
\* insert_key appends a character to the line, if there is a frame left for it.
LEMMA InsertKey ==
  ASSUME NEW b, Buffer(b), NEW ch \in CharClass
  PROVE  /\ Buffer(insert_key(b, ch)) /\ Kept(b, insert_key(b, ch))
         /\ Typed(insert_key(b, ch)) = IF Len(b.used) < BUFFER_SIZE
                                       THEN Append(Typed(b), ch) ELSE Typed(b)
<1>1. /\ b.used \in Seq(Frame) /\ b.free \in Seq(Frame) /\ b.val \in [Frame -> CharClass]
      /\ IsInjective(b.used) /\ IsInjective(b.free)
      /\ Len(b.used) \in Nat /\ Len(b.free) \in Nat
      /\ Len(b.used) + Len(b.free) = BUFFER_SIZE
  BY Zenon, BufferQueues
<1>2. CASE queue_empty(b.free)
  <2>1. Len(b.free) = 0
    BY <1>2 DEF queue_empty
  <2>2. ~(Len(b.used) < BUFFER_SIZE)
    BY <1>1, <2>1
  <2>3. insert_key(b, ch) = b
    BY <1>2 DEF insert_key
  <2> QED
    BY <2>2, <2>3 DEF Kept
<1>3. CASE ~queue_empty(b.free)
  <2> DEFINE id == queue_bottom(b.free)
             f == queue_out_bot(b.free)
             v == [b.val EXCEPT ![id] = ch]
             u == queue_add(id, b.used, arrival)
             r == [b EXCEPT !.free = f, !.val = v, !.used = u]
  <2>1. b \in KeyboardMemory /\ Share(b.used, b.free) /\ SortedBy(b.free, frame_id)
    BY DEF Buffer
  <2>2. insert_key(b, ch) = r
    BY <1>3, <2>1 DEF insert_key, KeyboardMemory
  <2>3. id \in Range(b.free) /\ id \in Frame /\ f = queue_del(id, b.free)
    BY <1>1, <1>3, QueueOutBot, QueueDelBottom
  <2>4. SortedBy(f, frame_id)
    BY <1>1, <2>1, <2>3, QueueDelSorted
  <2>5. Len(b.used) < BUFFER_SIZE
    <3>1. Len(b.free) # 0
      BY <1>1, <1>3 DEF queue_empty
    <3> DEFINE x == Len(b.used)
               y == Len(b.free)
    <3>2. x \in Nat /\ y \in Nat /\ x + y = BUFFER_SIZE
      BY Zenon, <1>1
    <3> HIDE DEF x, y
    <3>3. x < BUFFER_SIZE
      BY <3>1, <3>2 DEF y
    <3> QED
      BY <3>3 DEF x
  <2>6. id \notin Range(b.used)
    BY <2>1, <2>3 DEF Share
  <2> HIDE DEF id
  <2>7. Below(u, b.used, id)
    BY <1>1, <2>3, QueueAddEqual
  <2>8. Share(u, f)
    <3>1. Share(b.free, b.used)
      BY <2>1, ShareSwap
    <3>2. Share(queue_del(id, b.free), queue_add(id, b.used, arrival))
      BY <2>3, <3>1, FrameKeys, ShareMove
    <3>3. Share(f, u)
      BY Zenon, <2>3, <3>2
    <3> HIDE DEF f, u
    <3> QED
      BY <3>3, ShareSwap
  <2>9. v \in [Frame -> CharClass] /\ v[id] = ch /\ \A x \in Frame : x # id => v[x] = b.val[x]
    BY <1>1, <2>3
  <2>10. SameChars(v, b.val, b.used)
    <3>1. ASSUME NEW j \in 1..Len(b.used) PROVE b.used[j] \in Frame /\ b.used[j] # id
      BY <1>1, <2>6 DEF Range
    <3> QED
      BY <2>9, <3>1 DEF SameChars
  <2> HIDE DEF f, v, u
  <2>11. r \in KeyboardMemory /\ r.used = u /\ r.free = f /\ r.val = v /\ Kept(b, r)
    <3>1. u \in Seq(Frame) /\ f \in Seq(Frame)
      BY <2>8 DEF Share
    <3> QED
      BY Zenon, <2>1, <2>9, <3>1 DEF KeyboardMemory, Kept
  <2> HIDE DEF r
  <2>12. Typed(r) = Append(Typed(b), ch)
    <3>1. b.used \in Seq(Frame) /\ b.val \in [Frame -> CharClass] /\ v[id] \in CharClass
      BY Zenon, <1>1, <2>9
    <3>2. Oldest(u, v) = Append(Oldest(b.used, b.val), v[id])
      BY <2>7, <2>10, <3>1, OldestAdd
    <3> QED
      BY <2>9, <2>11, <3>2 DEF Typed
  <2>13. Buffer(r)
    BY <2>4, <2>8, <2>11 DEF Buffer
  <2> QED
    BY <2>2, <2>5, <2>11, <2>12, <2>13
<1> QED
  BY <1>2, <1>3

\* delete_key takes the last character of the line back.
LEMMA DeleteKey ==
  ASSUME NEW b, Buffer(b)
  PROVE  /\ Buffer(delete_key(b)) /\ Kept(b, delete_key(b))
         /\ Typed(delete_key(b)) = IF queue_empty(b.used) THEN Typed(b)
                                   ELSE SubSeq(Typed(b), 1, Len(b.used) - 1)
<1>1. CASE queue_empty(b.used)
  BY <1>1 DEF delete_key, buff_empty, Kept
<1>2. CASE ~queue_empty(b.used)
  <2> DEFINE f == queue_bottom(b.used)
             r == release(b, f)
  <2>1. b.used \in Seq(Frame) /\ b.val \in [Frame -> CharClass] /\ IsInjective(b.used)
    BY Zenon, BufferQueues
  <2>2. f \in Range(b.used) /\ queue_del(f, b.used) = queue_out_bot(b.used)
    BY <1>2, <2>1, QueueOutBot, QueueDelBottom
  <2>3. delete_key(b) = r
    BY <1>2 DEF delete_key, buff_empty
  <2> HIDE DEF f
  <2>4. Buffer(r) /\ Kept(b, r) /\ r.used = queue_out_bot(b.used) /\ r.val = b.val
    BY <2>2, ReleaseBuffer
  <2> HIDE DEF r
  <2>5. Typed(r) = SubSeq(Typed(b), 1, Len(b.used) - 1)
    <3>1. Oldest(queue_out_bot(b.used), b.val) = SubSeq(Oldest(b.used, b.val), 1, Len(b.used) - 1)
      BY <1>2, <2>1, OldestTail
    <3> QED
      BY Zenon, <2>4, <3>1 DEF Typed
  <2> QED
    BY <1>2, <2>3, <2>4, <2>5
<1> QED
  BY <1>1, <1>2
\* copy_from_buffer takes one character at least, and none after a NUL.
LEMMA Taken ==
  ASSUME NEW b, Buffer(b), NEW length
  PROVE  /\ taken(b, length) \in 0..Len(b.used)
         /\ b.used # <<>> => taken(b, length) # 0
         /\ \A i \in 1..(taken(b, length) - 1) : Typed(b)[i] # "nul"
<1> DEFINE size == Len(b.used)
           s(i) == b.val[b.used[size + 1 - i]]
           Copy(n) == {i \in 1..n : s(i) \notin {"del", "high"}}
           stop == {n \in 1..size : s(n) = "nul" \/ Cardinality(Copy(n)) = length}
           t == taken(b, length)
<1>1. b.used \in Seq(Frame) /\ size \in Nat
  BY Zenon, BufferQueues
<1>2. t = IF stop = {} THEN size ELSE Min(stop)
  BY DEF taken
<1>3. b.used # <<>> => size # 0
  BY <1>1
<1>4. \A i \in 1..size : Typed(b)[i] = s(i)
  BY DEF Typed, Oldest
<1>5. \A n \in 1..size : s(n) = "nul" => n \in stop
  OBVIOUS
<1>6. stop \in SUBSET (1..size) /\ stop \in SUBSET Nat
  <2>1. \A n \in stop : n \in 1..size /\ n \in Nat
    OBVIOUS
  <2> QED
    BY Zenon, <2>1
<1> HIDE DEF s, stop, t, size
<1>7. CASE stop = {}
  <2>1. t = size
    BY <1>2, <1>7
  <2>2. ASSUME NEW i \in 1..(t - 1) PROVE Typed(b)[i] # "nul"
    <3>1. i \in 1..size
      BY <1>1, <2>1
    <3> QED
      BY <1>4, <1>5, <1>7, <3>1
  <2> QED
    BY <1>1, <1>3, <2>1, <2>2 DEF t, size
<1>8. CASE stop # {}
  <2>1. t \in stop /\ \A n \in stop : t <= n
    BY Zenon, <1>2, <1>6, <1>8, MinNat
  <2>2. t \in 1..size
    BY <1>6, <2>1
  <2>3. ASSUME NEW i \in 1..(t - 1) PROVE Typed(b)[i] # "nul"
    <3>1. i \in 1..size /\ ~(t <= i)
      BY <1>1, <2>2
    <3>2. i \notin stop
      BY <2>1, <3>1
    <3> QED
      BY <1>4, <1>5, <3>1, <3>2
  <2>4. t \in 0..size /\ t # 0
    BY <1>1, <2>2
  <2> QED
    BY <2>3, <2>4 DEF t, size
<1> QED
  BY <1>7, <1>8

\* copy_from_buffer takes these characters from the front of the line.
LEMMA CopyFromBuffer ==
  ASSUME NEW b, Buffer(b), NEW length
  PROVE  LET r == copy_from_buffer(b, length)
         IN  /\ Buffer(r) /\ Kept(b, r)
             /\ Typed(r) = SubSeq(Typed(b), taken(b, length) + 1, Len(b.used))
<1> DEFINE n == taken(b, length)
           r == remove_times(b, n)
<1>1. n \in 0..Len(b.used) /\ n \in Nat
  BY Taken
<1>2. b.used \in Seq(Frame) /\ b.val \in [Frame -> CharClass]
  BY Zenon, BufferQueues
<1>3. copy_from_buffer(b, length) = r
  BY DEF copy_from_buffer
<1> HIDE DEF n
<1>4. Removed(b, r, n)
  BY <1>1, RemoveTimes
<1> HIDE DEF r
<1>5. Buffer(r) /\ Kept(b, r) /\ r.val = b.val /\ r.used = SubSeq(b.used, 1, Len(b.used) - n)
  BY <1>4 DEF Removed
<1>6. Typed(r) = SubSeq(Typed(b), n + 1, Len(b.used))
  BY <1>1, <1>2, <1>5, OldestFront DEF Typed
<1> QED
  BY <1>3, <1>5, <1>6 DEF n

\* update_buffer empties the buffer.
LEMMA UpdateBufferEmpties ==
  ASSUME NEW b, Buffer(b)
  PROVE  LET r == update_buffer(b) IN Buffer(r) /\ Kept(b, r) /\ r.used = <<>>
<1> DEFINE r == remove_times(b, BUFFER_SIZE)
<1>1. /\ Len(b.used) \in Nat /\ Len(b.free) \in Nat /\ BUFFER_SIZE \in Nat
      /\ Len(b.used) + Len(b.free) = BUFFER_SIZE
  BY Zenon, BufferQueues, FrameKeys
<1>2. Removed(b, r, BUFFER_SIZE)
  BY <1>1, RemoveTimes
<1>3. update_buffer(b) = r
  BY DEF update_buffer
<1> HIDE DEF r
<1>4. Buffer(r) /\ Kept(b, r) /\ r.used = SubSeq(b.used, 1, Len(b.used) - BUFFER_SIZE)
  BY <1>2 DEF Removed
<1>5. Len(b.used) - BUFFER_SIZE \in Int /\ Len(b.used) - BUFFER_SIZE < 1
  <2> DEFINE x == Len(b.used)
             y == Len(b.free)
  <2>1. x \in Nat /\ y \in Nat /\ x + y = BUFFER_SIZE
    BY Zenon, <1>1
  <2> HIDE DEF x, y
  <2>2. x - BUFFER_SIZE \in Int /\ x - BUFFER_SIZE < 1
    BY <2>1
  <2> QED
    BY <2>2 DEF x
<1>6. r.used = <<>>
  BY <1>4, <1>5, SubSeqEmpty
<1> QED
  BY Zenon, <1>3, <1>4, <1>6

\* At the start every frame is free.
LEMMA InitBuffer ==
  /\ Buffer(init_buffer)
  /\ init_buffer.used = <<>> /\ init_buffer.reading = FALSE
<1> DEFINE f == [i \in 1..BUFFER_SIZE |-> i - 1]
           v == [x \in Frame |-> "nul"]
           l == [p \in Pid |-> 0]
           b == init_buffer
<1>1. BUFFER_SIZE \in Nat /\ Frame = 0..(BUFFER_SIZE - 1)
  BY FrameKeys DEF Frame
<1>2. b = [echo |-> TRUE, on |-> 1, reading |-> FALSE, calling_pid |-> 0, length |-> l,
           used |-> <<>>, free |-> f, val |-> v]
  BY DEF init_buffer
<1>3. f \in Seq(Frame) /\ Len(f) = BUFFER_SIZE /\ DOMAIN f = 1..BUFFER_SIZE
  <2>1. \A i \in 1..BUFFER_SIZE : i - 1 \in Frame
    BY <1>1
  <2> QED
    BY <1>1, <2>1
<1>4. IsInjective(f)
  BY <1>1 DEF IsInjective
<1>5. \A i \in 1..BUFFER_SIZE : f[i] = i - 1
  OBVIOUS
<1>6. Range(f) = Frame
  <2>1. ASSUME NEW x \in Frame PROVE x \in Range(f)
    <3>1. x + 1 \in 1..BUFFER_SIZE /\ (x + 1) - 1 = x
      BY <1>1
    <3>2. f[x + 1] = x
      BY <1>5, <3>1
    <3> HIDE DEF f
    <3> QED
      BY <1>3, <3>1, <3>2 DEF Range
  <2>2. ASSUME NEW x \in Range(f) PROVE x \in Frame
    <3> HIDE DEF f
    <3> QED
      BY <1>3 DEF Range
  <2> HIDE DEF f
  <2> QED
    BY <2>1, <2>2
<1>7. SortedBy(f, frame_id)
  <2>1. ASSUME NEW i \in 1..BUFFER_SIZE PROVE frame_id[f[i]] = i - 1
    BY <1>1 DEF frame_id
  <2> HIDE DEF f
  <2> QED
    BY <1>1, <1>3, <2>1 DEF SortedBy
<1>8. v \in [Frame -> CharClass] /\ l \in [Pid -> Lengths \cup {0}]
  BY DEF CharClass
<1>9. 0 \in Pid
  BY SizeAssumption DEF Pid
<1> HIDE DEF f, v, l
<1>10. b \in KeyboardMemory /\ b.used = <<>> /\ b.free = f /\ b.reading = FALSE
  <2>1. <<>> \in Seq(Frame)
    OBVIOUS
  <2> QED
    BY <1>2, <1>3, <1>8, <1>9, <2>1 DEF KeyboardMemory
<1> HIDE DEF b
<1>11. Share(<<>>, f)
  <2>1. <<>> \in Seq(Frame) /\ IsInjective(<<>>) /\ Range(<<>>) = {} /\ Len(<<>>) = 0
    BY DEF IsInjective, Range
  <2> QED
    BY <1>1, <1>3, <1>4, <1>6, <2>1 DEF Share
<1> QED
  BY <1>7, <1>10, <1>11 DEF Buffer, b
=============================================================================

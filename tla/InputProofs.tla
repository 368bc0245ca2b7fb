---------------------------- MODULE InputProofs -----------------------------
(***************************************************************************)
(* The composition of module Keyboard: console input and output together   *)
(* with all the system calls of the kernel, the clock and the keyboard     *)
(* interrupt.                                                              *)
(***************************************************************************)
EXTENDS BufferProofs, KernelProofs

-----------------------------------------------------------------------------
(***************************************************************************)
(* What the calls do to the keyboard buffer.                               *)
(***************************************************************************)

\* A change of the other fields changes no line.
LEMMA OtherFields ==
  ASSUME NEW b, Buffer(b), NEW r \in KeyboardMemory,
         r.used = b.used, r.free = b.free, r.val = b.val
  PROVE  Buffer(r) /\ Typed(r) = Typed(b)
BY DEF Buffer, Typed

\* The argument of a read that blocks is kept, and forgotten at its end.
LEMMA SetLength ==
  ASSUME NEW b, Buffer(b), NEW p \in Pid, NEW n \in Lengths \cup {0}
  PROVE  LET r == [b EXCEPT !.length[p] = n]
         IN  Buffer(r) /\ Typed(r) = Typed(b) /\ r.reading = b.reading
<1> DEFINE l == [b.length EXCEPT ![p] = n]
           r == [b EXCEPT !.length = l]
<1>1. b \in KeyboardMemory
  BY DEF Buffer
<1>2. l \in [Pid -> Lengths \cup {0}]
  BY <1>1 DEF KeyboardMemory
<1> HIDE DEF l
<1>3. /\ r \in KeyboardMemory /\ r.used = b.used /\ r.free = b.free /\ r.val = b.val
      /\ r.reading = b.reading
  BY <1>1, <1>2 DEF KeyboardMemory
<1> HIDE DEF r
<1>4. Buffer(r) /\ Typed(r) = Typed(b) /\ r.reading = b.reading
  BY <1>3, OtherFields
<1> QED
  BY <1>4 DEF r, l

\* A read asks for a line, or gets one.
LEMMA SetReading ==
  ASSUME NEW b, Buffer(b), NEW p \in Pid, NEW on \in BOOLEAN
  PROVE  LET r == [b EXCEPT !.reading = on, !.calling_pid = p]
         IN  Buffer(r) /\ Typed(r) = Typed(b) /\ r.reading = on
<1> DEFINE r == [b EXCEPT !.reading = on, !.calling_pid = p]
<1>1. b \in KeyboardMemory
  BY DEF Buffer
<1>2. /\ r \in KeyboardMemory /\ r.used = b.used /\ r.free = b.free /\ r.val = b.val
      /\ r.reading = on
  BY Zenon, <1>1 DEF KeyboardMemory
<1> HIDE DEF r
<1>3. Buffer(r) /\ Typed(r) = Typed(b) /\ r.reading = on
  BY <1>2, OtherFields
<1> QED
  BY <1>3 DEF r

\* The end of a read takes what it returns.
LEMMA ReadEndBuffer ==
  ASSUME NEW b, Buffer(b), NEW m, m.cur_pid \in Pid, NEW length
  PROVE  LET r == read_end([k |-> m, b |-> b], length).b
         IN  /\ Buffer(r) /\ r.reading = b.reading
             /\ Typed(r) = SubSeq(Typed(b), taken(b, length) + 1, Len(b.used))
<1> DEFINE d == copy_from_buffer(b, length)
           r == [d EXCEPT !.length[m.cur_pid] = 0]
<1>1. read_end([k |-> m, b |-> b], length).b = r
  BY DEF read_end, signal_cons_read_io
<1>2. /\ Buffer(d) /\ d.reading = b.reading
      /\ Typed(d) = SubSeq(Typed(b), taken(b, length) + 1, Len(b.used))
  BY CopyFromBuffer DEF Kept
<1> HIDE DEF d
<1>3. Buffer(r) /\ Typed(r) = Typed(d) /\ r.reading = d.reading
  BY Zenon, <1>2, SetLength
<1> HIDE DEF r
<1> QED
  BY Zenon, <1>1, <1>2, <1>3

\* A read that blocks asks for a line.
LEMMA ReadBlockBuffer ==
  ASSUME NEW b, Buffer(b), NEW m, m.cur_pid \in Pid, NEW length \in Lengths, NEW call
  PROVE  LET r == read_block([k |-> m, b |-> b], length, call).b
         IN  Buffer(r) /\ r.reading /\ Typed(r) = Typed(b)
<1> DEFINE p == m.cur_pid
           d == [b EXCEPT !.length[p] = length]
           r == [d EXCEPT !.reading = TRUE, !.calling_pid = p]
<1>1. read_block([k |-> m, b |-> b], length, call).b = r
  BY Zenon DEF read_block, enable_reading
<1>2. Buffer(d) /\ Typed(d) = Typed(b)
  BY SetLength
<1> HIDE DEF d
<1>3. Buffer(r) /\ Typed(r) = Typed(d) /\ r.reading = TRUE
  BY Zenon, <1>2, SetReading
<1> HIDE DEF r
<1> QED
  BY <1>1, <1>2, <1>3

\* A line with one more character, if there is room.
Pushed(l, ch) == IF Len(l) < BUFFER_SIZE THEN Append(l, ch) ELSE l

\* The line is as long as the queue of the used frames.
LEMMA TypedLine ==
  ASSUME NEW b, Buffer(b)
  PROVE  /\ Len(Typed(b)) = Len(b.used)
         /\ Typed(b) = <<>> <=> queue_empty(b.used)
<1>1. b.used \in Seq(Frame) /\ Len(b.used) \in Nat
  BY Zenon, BufferQueues
<1>2. Typed(b) = [i \in 1..Len(b.used) |-> b.val[b.used[Len(b.used) + 1 - i]]]
  BY DEF Typed, Oldest
<1> QED
  BY <1>1, <1>2 DEF queue_empty

\* What character ch does to buffer b: nothing if no line is asked for; Enter
\* ends the line, the delete key takes a character back, another one is added.
Edited(b, r, ch) ==
  /\ ~b.reading => r = b
  /\ b.reading /\ ch = "cr" => ~r.reading /\ Typed(r) = Pushed(Typed(b), "nul")
  /\ b.reading /\ ch = "del" =>
       /\ r.reading = b.reading
       /\ Typed(r) = IF Typed(b) = <<>> THEN Typed(b)
                     ELSE SubSeq(Typed(b), 1, Len(Typed(b)) - 1)
  /\ b.reading /\ ch \notin {"cr", "del"} =>
       r.reading = b.reading /\ Typed(r) = Pushed(Typed(b), ch)

\* The keyboard interrupt edits the line that was asked for.
LEMMA KeyboardDataBuffer ==
  ASSUME NEW b, Buffer(b), NEW m, NEW ch \in CharClass
  PROVE  LET r == keyboard_data([k |-> m, b |-> b], ch).b
         IN  Buffer(r) /\ Edited(b, r, ch)
<1> DEFINE x == [k |-> m, b |-> b]
           r == keyboard_data(x, ch).b
<1>2. /\ Len(Typed(b)) = Len(b.used)
      /\ Typed(b) = <<>> <=> queue_empty(b.used)
  BY TypedLine
<1>3. CASE ~b.reading
  <2>1. r = b
    BY <1>3 DEF keyboard_data
  <2> HIDE DEF r
  <2> QED
    BY <1>3, <2>1 DEF r, Edited
<1>4. CASE b.reading /\ ch = "cr"
  <2> DEFINE d == insert_key(b, "nul")
             e == [d EXCEPT !.reading = FALSE, !.calling_pid = 0]
  <2>1. r = e
    BY <1>4 DEF keyboard_data, signal_end_io
  <2>2. "nul" \in CharClass /\ 0 \in Pid
    BY SizeAssumption DEF CharClass, Pid
  <2>3. Buffer(d) /\ Typed(d) = Pushed(Typed(b), "nul")
    BY <1>2, <2>2, InsertKey DEF Pushed
  <2> HIDE DEF d
  <2>4. Buffer(e) /\ Typed(e) = Typed(d) /\ e.reading = FALSE
    BY Zenon, <2>2, <2>3, SetReading
  <2> HIDE DEF e, r
  <2> QED
    BY <1>4, <2>1, <2>3, <2>4 DEF r, Edited
<1>5. CASE b.reading /\ ch = "del"
  <2>1. r = delete_key(b)
    BY <1>5 DEF keyboard_data
  <2>2. /\ Buffer(r) /\ r.reading = b.reading
        /\ Typed(r) = IF Typed(b) = <<>> THEN Typed(b)
                      ELSE SubSeq(Typed(b), 1, Len(Typed(b)) - 1)
    <3> HIDE DEF r
    <3> QED
      BY <1>2, <2>1, DeleteKey DEF Kept
  <2> HIDE DEF r
  <2> QED
    BY Zenon, <1>5, <2>2 DEF r, Edited
<1>6. CASE b.reading /\ ch \notin {"cr", "del"}
  <2>1. r = insert_key(b, ch)
    BY <1>6 DEF keyboard_data
  <2>2. Buffer(r) /\ r.reading = b.reading /\ Typed(r) = Pushed(Typed(b), ch)
    <3> HIDE DEF r
    <3> QED
      BY <1>2, <2>1, InsertKey DEF Kept, Pushed
  <2> HIDE DEF r
  <2> QED
    BY Zenon, <1>6, <2>2 DEF r, Edited
<1> QED
  BY Zenon, <1>3, <1>4, <1>5, <1>6

-----------------------------------------------------------------------------
(***************************************************************************)
(* What the calls write on the screen.                                     *)
(***************************************************************************)

\* A line of text, and several.
LEMMA TextLines ==
  ASSUME NEW n \in Nat
  PROVE  /\ text_line \in Seq(CharClass)
         /\ text_lines(n) \o <<"nl">> \in Seq(CharClass)
<1>1. "nl" \in CharClass /\ <<"nl">> \in Seq(CharClass) /\ Len(<<"nl">>) = 1
  BY DEF CharClass
<1>2. printed(1) \in Seq(CharClass) /\ Len(printed(1)) = 1
  BY Zenon, PrintedText
<1>3. /\ text_line \in Seq(CharClass)
      /\ \A j \in 1..2 : text_line[j] \in CharClass
  <2> DEFINE s == printed(1)
             t == <<"nl">>
             u == s \o t
  <2>1. s \in Seq(CharClass) /\ t \in Seq(CharClass) /\ Len(s) = 1 /\ Len(t) = 1
    BY <1>1, <1>2
  <2> HIDE DEF s, t
  <2>2. u \in Seq(CharClass) /\ Len(u) = 2
    BY <2>1
  <2> HIDE DEF u
  <2>3. \A j \in 1..2 : u[j] \in CharClass
    <3>1. ASSUME NEW v \in Seq(CharClass), Len(v) = 2
          PROVE  \A j \in 1..2 : v[j] \in CharClass
      BY <3>1
    <3> QED
      BY Zenon, <2>2, <3>1
  <2> QED
    BY <2>2, <2>3 DEF text_line, s, t, u
<1>4. text_lines(n) \in Seq(CharClass)
  <2>1. ASSUME NEW i \in 1..(2 * n) PROVE text_line[2 - (i % 2)] \in CharClass
    <3>1. 2 - (i % 2) \in 1..2
      OBVIOUS
    <3> QED
      BY Zenon, <1>3, <3>1
  <2>2. 2 * n \in Nat
    OBVIOUS
  <2> QED
    BY <2>1, <2>2 DEF text_lines
<1> QED
  BY <1>1, <1>3, <1>4

\* A set of screens that handle_char and set_col_min do not leave.
Closed(S) ==
  \A c \in S : /\ \A ch : handle_char(c, ch) \in S
               /\ \A limit : set_col_min(c, limit) \in S

\* The set of all screens is closed, and so is the one of those with the text
\* below the clock.
LEMMA ScreensClosed == Closed(Screen) /\ Closed(TextScreen)
BY HandleCharType, SetColMinType, HandleCharText, SetColMinText DEF Closed

\* A text, clear, the echo of a key and the end of a read stay in a closed set.
LEMMA OutputStays ==
  ASSUME NEW S, Closed(S), NEW c \in S
  PROVE  /\ \A s \in Seq(CharClass) : console_putbytes(c, s) \in S
         /\ clear(c) \in S
         /\ \A ch : echo_key(c, ch) \in S
         /\ \A call : read_newline(c, call) \in S
<1>1. \A x \in S : \A ch : handle_char(x, ch) \in S
  BY DEF Closed
<1>2. \A x \in S : \A limit : set_col_min(x, limit) \in S
  BY DEF Closed
<1>3. ASSUME NEW s \in Seq(CharClass) PROVE console_putbytes(c, s) \in S
  BY <1>1, PutBytesStays
<1>4. clear(c) \in S
  BY <1>1, <1>2 DEF clear
<1>5. ASSUME NEW ch PROVE echo_key(c, ch) \in S
  <2>1. printed(2) \in Seq(CharClass)
    BY PrintedText
  <2> QED
    BY <1>1, <1>3, <2>1 DEF echo_key
<1>6. ASSUME NEW call PROVE read_newline(c, call) \in S
  BY <1>1, <1>2 DEF read_newline
<1> QED
  BY <1>3, <1>4, <1>5, <1>6

\* Two queues that share the frames hold them all, once.
LEMMA SharedFrames ==
  ASSUME NEW u, NEW f, Share(u, f)
  PROVE  IsInjective(u \o f) /\ Range(u \o f) = Frame
<1> DEFINE n == Len(u)
           l == Len(f)
           s == u \o f
<1>1. /\ u \in Seq(Frame) /\ f \in Seq(Frame) /\ IsInjective(u) /\ IsInjective(f)
      /\ Range(u) \cap Range(f) = {} /\ Range(u) \cup Range(f) = Frame
  BY DEF Share
<1>2. /\ n \in Nat /\ l \in Nat /\ DOMAIN u = 1..n /\ DOMAIN f = 1..l
      /\ DOMAIN s = 1..(n + l)
      /\ \A i \in 1..n : s[i] = u[i]
      /\ \A i \in 1..l : s[n + i] = f[i]
  BY <1>1
<1>3. ASSUME NEW i \in 1..(n + l)
      PROVE  \/ i \in 1..n /\ s[i] = u[i] /\ s[i] \in Range(u)
             \/ i - n \in 1..l /\ s[i] = f[i - n] /\ s[i] \in Range(f)
  <2> HIDE DEF n, l, s
  <2>1. CASE i <= n
    BY <1>2, <2>1 DEF Range
  <2>2. CASE ~(i <= n)
    <3>1. i - n \in 1..l /\ n + (i - n) = i
      BY <1>2, <2>2
    <3>2. s[i] = f[i - n]
      BY <1>2, <3>1
    <3> QED
      BY <1>2, <3>1, <3>2 DEF Range
  <2> QED
    BY <2>1, <2>2
<1>4. IsInjective(s)
  <2> SUFFICES ASSUME NEW i \in 1..(n + l), NEW j \in 1..(n + l), s[i] = s[j] PROVE i = j
    BY <1>2 DEF IsInjective
  <2> HIDE DEF n, l, s
  <2>1. CASE i \in 1..n /\ j \in 1..n /\ u[i] = u[j]
    BY <1>1, <1>2, <2>1 DEF IsInjective
  <2>2. CASE i - n \in 1..l /\ j - n \in 1..l /\ f[i - n] = f[j - n]
    <3>1. i - n = j - n
      BY <1>1, <1>2, <2>2 DEF IsInjective
    <3> QED
      BY <1>2, <3>1
  <2> QED
    BY <1>1, <1>3, <2>1, <2>2
<1>5. \A x \in Range(s) : x \in Frame
  <2> HIDE DEF n, l, s
  <2> QED
    BY <1>1, <1>2, <1>3 DEF Range
<1>6. \A x \in Frame : x \in Range(s)
  <2> SUFFICES ASSUME NEW x \in Frame PROVE x \in Range(s)
    OBVIOUS
  <2> HIDE DEF n, l, s
  <2>1. CASE x \in Range(u)
    <3>1. PICK i \in 1..n : x = u[i]
      BY <1>2, <2>1 DEF Range
    <3>2. i \in 1..(n + l) /\ s[i] = x
      BY <1>2, <3>1
    <3> QED
      BY <1>2, <3>2 DEF Range
  <2>2. CASE x \in Range(f)
    <3>1. PICK i \in 1..l : x = f[i]
      BY <1>2, <2>2 DEF Range
    <3>2. n + i \in 1..(n + l) /\ s[n + i] = x
      BY <1>2, <3>1
    <3> QED
      BY <1>2, <3>2 DEF Range
  <2> QED
    BY <1>1, <2>1, <2>2
<1> QED
  BY Zenon, <1>4, <1>5, <1>6

-----------------------------------------------------------------------------
(***************************************************************************)
(* The reading calls and the keyboard interrupt keep the kernel settled.   *)
(***************************************************************************)

\* The end of a read moves the reader to the actionable queue, or fails.
LEMMA SignalEndIoSettled ==
  ASSUME NEW c \in Pid, NEW m \in Entered(c), NEW b, NEW pid \in Pid
  PROVE  Settled(signal_end_io([k |-> m, b |-> b], pid).k)
<1> DEFINE u == unchain_from(m, pid, "io_blocked")
           r == place(u, pid, "actionable", m.prio)
<1>1. /\ m \in Held(c, <<>>, {c}, {}) /\ {c} \in SUBSET Pid
      /\ "io_blocked" \in list_type /\ "actionable" \in list_type
  BY DEF Entered, list_type
<1>2. m.prio \in [Pid -> Int]
  BY <1>1, HeldKeys
<1>3. u \in Held(c, <<>>, {c}, {pid})
  BY <1>1, UnchainFrom
<1> HIDE DEF u
<1>4. r \in Held(c, <<>>, {c}, {})
  BY <1>1, <1>2, <1>3, Place
<1>5. signal_end_io([k |-> m, b |-> b], pid).k = scheduler(r)
  BY DEF signal_end_io, u
<1> HIDE DEF r
<1>6. Settled(scheduler(r))
  BY <1>4, Yield DEF Entered
<1> QED
  BY <1>5, <1>6

\* The wake-up of another reader at the end of a read.
LEMMA SignalConsReadIoSettled ==
  ASSUME NEW c \in Pid, NEW m \in Entered(c), NEW b
  PROVE  Settled(signal_cons_read_io([k |-> m, b |-> b]).k)
<1> DEFINE q == m.queue_table["io_blocked"]
           p == queue_top(q)
           u == unchain(m, p)
           r == place(u, p, "actionable", m.prio)
<1>1. /\ m \in Held(c, <<>>, {c}, {}) /\ {c} \in SUBSET Pid
      /\ "io_blocked" \in list_type /\ "actionable" \in list_type
  BY DEF Entered, list_type
<1>2. m.prio \in [Pid -> Int]
  BY <1>1, HeldKeys
<1>3. q \in Seq(Pid)
  BY <1>1, HeldQueues
<1> HIDE DEF q
<1>4. CASE queue_empty(q)
  <2>1. signal_cons_read_io([k |-> m, b |-> b]).k = m
    BY <1>4 DEF signal_cons_read_io, q
  <2> QED
    BY <2>1, Stay
<1>5. CASE ~queue_empty(q)
  <2>1. p \in Pid
    BY <1>3, <1>5, QueueOut
  <2>2. signal_cons_read_io([k |-> m, b |-> b]).k = scheduler(r)
    BY <1>5 DEF signal_cons_read_io, q
  <2> HIDE DEF p
  <2>3. u \in Held(c, <<>>, {c}, {p})
    BY <1>1, <2>1, Unchain
  <2> HIDE DEF u
  <2>4. r \in Held(c, <<>>, {c}, {})
    BY <1>1, <1>2, <2>1, <2>3, Place
  <2> HIDE DEF r
  <2>5. Settled(scheduler(r))
    BY <2>4, Yield DEF Entered
  <2> QED
    BY <2>2, <2>5
<1> QED
  BY <1>4, <1>5

\* The field cont has nothing to do with the queues.
LEMMA SetCont ==
  ASSUME NEW c \in Pid, NEW m \in Entered(c), NEW p \in Pid,
         NEW call \in {"user", "waitpid", "cons_read", "shell_cons_read"}
  PROVE  [m EXCEPT !.cont[p] = call] \in Entered(c)
<1> DEFINE r == [m EXCEPT !.cont[p] = call]
<1>1. m \in Held(c, <<>>, {c}, {}) /\ m \in Memory
  BY DEF Entered, Held
<1>2. /\ r \in Memory /\ r.cur_pid = m.cur_pid /\ r.fault = m.fault
      /\ r.garbage_collection_list = m.garbage_collection_list
      /\ r.queue_table = m.queue_table /\ r.state = m.state
  BY Zenon, <1>1 DEF Memory
<1> HIDE DEF r
<1>3. r \in Held(c, <<>>, {c}, {})
  BY <1>1, <1>2, Unmoved
<1> QED
  BY <1>3 DEF r, Entered

\* A read that finds characters returns.
LEMMA ReadEndSettled ==
  ASSUME NEW c \in Pid, NEW m \in Entered(c), NEW b, NEW length
  PROVE  Settled(read_end([k |-> m, b |-> b], length).k)
<1> DEFINE a == [m EXCEPT !.cont[c] = "user"]
           d == [copy_from_buffer(b, length) EXCEPT !.length[c] = 0]
<1>1. m.cur_pid = c
  BY HeldBasic DEF Entered
<1>2. a \in Entered(c)
  BY Zenon, SetCont
<1>3. read_end([k |-> m, b |-> b], length) = signal_cons_read_io([k |-> a, b |-> d])
  BY <1>1 DEF read_end
<1> HIDE DEF a, d
<1> QED
  BY Zenon, <1>2, <1>3, SignalConsReadIoSettled

\* A read that finds none blocks.
LEMMA ReadBlockSettled ==
  ASSUME NEW c \in Pid, c # 0, NEW m \in Entered(c), NEW b, NEW length,
         NEW call \in {"cons_read", "shell_cons_read"}
  PROVE  Settled(read_block([k |-> m, b |-> b], length, call).k)
<1> DEFINE a == [m EXCEPT !.cont[c] = call]
<1>1. m.cur_pid = c
  BY HeldBasic DEF Entered
<1>2. a \in Held(c, <<>>, {c}, {})
  BY Zenon, SetCont DEF Entered
<1>3. read_block([k |-> m, b |-> b], length, call).k = scheduler(place(a, c, "io_blocked", a.prio))
  BY <1>1 DEF read_block
<1> HIDE DEF a
<1>4. a.prio \in [Pid -> Int] /\ "io_blocked" \in list_type
  BY <1>2, HeldKeys DEF list_type
<1> QED
  BY <1>2, <1>3, <1>4, Block

-----------------------------------------------------------------------------
(***************************************************************************)
(* The screen.                                                             *)
(***************************************************************************)

\* The listings of the shell, which count processes and semaphores, and the
\* prompt.
LEMMA ListingStays ==
  ASSUME NEW S, Closed(S), NEW c \in S, NEW m \in Memory
  PROVE  list_ps(c, m) \in S /\ list_sem_info(c, m) \in S /\ print_prompt(c) \in S
<1>1. \A x \in S : \A limit : set_col_min(x, limit) \in S
  BY DEF Closed
<1>2. ASSUME NEW x \in S, NEW n \in Nat
      PROVE  console_putbytes(x, text_lines(n) \o <<"nl">>) \in S
  BY Zenon, TextLines, OutputStays
<1>3. list_ps(c, m) \in S
  <2> DEFINE listed == {p \in Pid : chained(m, p) /\ m.state[p] # "freepid"}
             n == Cardinality(listed)
  <2>1. IsFiniteSet(Pid) /\ listed \in SUBSET Pid
    BY SizeAssumption, FS_Interval DEF Pid
  <2> HIDE DEF listed
  <2>2. n \in Nat
    BY <2>1, FS_Subset, FS_CardinalityType
  <2> HIDE DEF n
  <2>3. 2 + n \in Nat
    BY <2>2
  <2>4. console_putbytes(set_col_min(c, 0), text_lines(2 + n) \o <<"nl">>) \in S
    BY <1>1, <1>2, <2>3
  <2> QED
    BY <2>4 DEF list_ps, listed, n
<1>4. list_sem_info(c, m) \in S
  <2> DEFINE n == Cardinality(m.sem_used)
             l == Len(m.queue_table["sem_blocked"])
  <2>1. m.sem_used \in SUBSET Sem /\ m.queue_table["sem_blocked"] \in Seq(Pid)
    BY DEF Memory, list_type
  <2>2. IsFiniteSet(Sem)
    BY SizeAssumption, FS_Interval DEF Sem
  <2>3. n \in Nat
    BY <2>1, <2>2, FS_Subset, FS_CardinalityType
  <2>4. l \in Nat
    BY <2>1
  <2> HIDE DEF n, l
  <2>5. 2 + n * (1 + l) \in Nat
    BY <2>3, <2>4
  <2>6. console_putbytes(c, text_lines(2 + n * (1 + l)) \o <<"nl">>) \in S
    BY <1>2, <2>5
  <2> QED
    BY <2>6 DEF list_sem_info, n, l
<1>5. print_prompt(c) \in S
  <2>1. printed(PROMPT_SIZE) \in Seq(CharClass)
    BY KeyboardAssumption, PrintedText
  <2>2. console_putbytes(set_col_min(c, 0), printed(PROMPT_SIZE)) \in S
    BY <1>1, <2>1, OutputStays
  <2> QED
    BY <1>1, <2>2 DEF print_prompt
<1> QED
  BY <1>3, <1>4, <1>5

\* Whatever happens but a tick of the clock, the screen stays in a closed set.
LEMMA ConsoleStep ==
  ASSUME NEW S, Closed(S), con \in S, Settled(k), [KbNext]_vars
  PROVE  con' \in S \/ Tick
<1>1. k \in Memory
  BY DEF Settled
<1>2. CASE ConsRead
  <2>1. \/ con' = con
        \/ \E call \in {"cons_read", "shell_cons_read"} : con' = read_newline(con, call)
    BY <1>2 DEF ConsRead
  <2> QED
    BY <2>1, OutputStays
<1>3. CASE ResumeRead
  <2>1. con' = read_newline(con, k.cont[k.cur_pid])
    BY <1>3 DEF ResumeRead
  <2> QED
    BY <2>1, OutputStays
<1>4. CASE KeyboardInterrupt
  <2>1. con' = con \/ \E ch \in Keys : con' = echo_key(con, ch)
    BY <1>4 DEF KeyboardInterrupt
  <2> QED
    BY <2>1, OutputStays
<1>5. CASE ConsEcho \/ ShellEcho \/ UpdateBuffer \/ Other \/ UNCHANGED vars
  BY <1>5 DEF ConsEcho, ShellEcho, UpdateBuffer, Other, vars
<1>6. CASE PrintPrompt
  <2>1. con' = print_prompt(con)
    BY <1>6 DEF PrintPrompt
  <2> QED
    BY <1>1, <2>1, ListingStays
<1>7. CASE ConsWrite
  <2>1. \/ \E ch \in CharClass : con' = handle_char(con, ch)
        \/ con' = clear(con)
        \/ \E limit \in Margins : con' = set_col_min(con, limit)
        \/ con' = list_ps(con, k)
        \/ con' = list_sem_info(con, k)
    BY <1>7 DEF ConsWrite
  <2>2. /\ \A ch : handle_char(con, ch) \in S
        /\ \A limit : set_col_min(con, limit) \in S
    BY DEF Closed
  <2>3. clear(con) \in S /\ list_ps(con, k) \in S /\ list_sem_info(con, k) \in S
    BY <1>1, OutputStays, ListingStays
  <2> QED
    BY Zenon, <2>1, <2>2, <2>3
<1>8. CASE InvalidInstruction
  <2>1. con' = console_putbytes(con, text_line) /\ text_line \in Seq(CharClass)
    BY <1>8, TextLines DEF InvalidInstruction
  <2> QED
    BY <2>1, OutputStays
<1> QED
  BY <1>2, <1>3, <1>4, <1>5, <1>6, <1>7, <1>8 DEF KbNext

-----------------------------------------------------------------------------
(***************************************************************************)
(* The steps.                                                              *)
(***************************************************************************)

\* A user process that runs may enter the kernel.
LEMMA EnterUser ==
  ASSUME Settled(k), ~k.fault, k.cur_pid \in UserPid
  PROVE  /\ k.cur_pid \in Pid /\ k.cur_pid # 0
         /\ k \in Entered(k.cur_pid)
<1>1. k.cur_pid \in Pid /\ k.cur_pid # 0
  BY SizeAssumption DEF Pid, UserPid
<1> QED
  BY <1>1, Enter

\* cons_read and shell_cons_read leave the kernel settled, and the buffer in
\* order; if no read is going on, they take a piece of the line, or ask for one.
LEMMA ConsReadStep ==
  ASSUME Settled(k), Buffer(kb), ConsRead
  PROVE  /\ Settled(k') /\ Buffer(kb')
         /\ \/ kb' = kb
            \/ /\ kb'.reading = kb.reading
               /\ \E n \in 1..Len(kb.used) :
                    /\ \A i \in 1..(n - 1) : Typed(kb)[i] # "nul"
                    /\ Typed(kb') = SubSeq(Typed(kb), n + 1, Len(kb.used))
            \/ kb'.reading /\ kb.used = <<>> /\ Typed(kb') = Typed(kb)
<1> DEFINE c == k.cur_pid
           x == [k |-> k, b |-> kb]
<1>1. c \in Pid /\ c # 0 /\ k \in Entered(c)
  BY EnterUser DEF ConsRead, InUser
<1>2. PICK length \in Lengths, call \in {"cons_read", "shell_cons_read"} :
        RunIO(cons_read(x, length, call))
  BY DEF ConsRead
<1> DEFINE y == cons_read(x, length, call)
<1>3. Run(y.k) /\ kb' = y.b
  BY <1>2 DEF RunIO
<1>4. y = IF length = 0 THEN signal_cons_read_io(x)
          ELSE IF ~buff_empty(kb) THEN read_end(x, length)
          ELSE read_block(x, length, call)
  BY DEF cons_read, wait_on_io
<1> HIDE DEF y
<1>5. CASE length = 0
  <2>1. y = signal_cons_read_io(x)
    BY <1>4, <1>5
  <2>2. signal_cons_read_io(x).b = kb
    BY DEF signal_cons_read_io
  <2>3. Settled(y.k)
    BY <1>1, <2>1, SignalConsReadIoSettled
  <2>4. Settled(k')
    BY <1>3, <2>3, RunSettled
  <2> QED
    BY <1>3, <2>1, <2>2, <2>4
<1>6. CASE length # 0 /\ ~buff_empty(kb)
  <2>1. y = read_end(x, length)
    BY <1>4, <1>6
  <2>2. Settled(y.k)
    BY <1>1, <2>1, ReadEndSettled
  <2>3. Settled(k')
    BY <1>3, <2>2, RunSettled
  <2>4. /\ Buffer(kb') /\ kb'.reading = kb.reading
        /\ Typed(kb') = SubSeq(Typed(kb), taken(kb, length) + 1, Len(kb.used))
    BY <1>1, <1>3, <2>1, ReadEndBuffer
  <2>5. taken(kb, length) \in 1..Len(kb.used)
    <3>1. kb.used # <<>>
      BY <1>6 DEF buff_empty, queue_empty
    <3>2. taken(kb, length) \in 0..Len(kb.used) /\ taken(kb, length) # 0
      BY <3>1, Taken
    <3> QED
      BY <3>2
  <2>6. \A i \in 1..(taken(kb, length) - 1) : Typed(kb)[i] # "nul"
    BY Taken
  <2> QED
    BY Zenon, <2>3, <2>4, <2>5, <2>6
<1>7. CASE length # 0 /\ buff_empty(kb)
  <2>1. y = read_block(x, length, call)
    BY <1>4, <1>7
  <2>2. Settled(y.k)
    BY <1>1, <2>1, ReadBlockSettled
  <2>3. Settled(k')
    BY <1>3, <2>2, RunSettled
  <2>4. Buffer(kb') /\ kb'.reading /\ Typed(kb') = Typed(kb)
    <3> DEFINE b == read_block(x, length, call).b
    <3>1. Buffer(b) /\ b.reading /\ Typed(b) = Typed(kb)
      BY <1>1, <1>2, ReadBlockBuffer
    <3>2. kb' = b
      BY <1>3, <2>1
    <3> QED
      BY Zenon, <3>1, <3>2
  <2>5. kb.used = <<>>
    BY <1>7 DEF buff_empty, queue_empty
  <2> QED
    BY <2>3, <2>4, <2>5
<1> QED
  BY Zenon, <1>5, <1>6, <1>7

\* A reader that runs again takes its line.
LEMMA ResumeReadStep ==
  ASSUME Settled(k), Buffer(kb), ResumeRead
  PROVE  /\ Settled(k') /\ Buffer(kb')
         /\ kb'.reading = kb.reading
         /\ \E n \in 0..Len(kb.used) :
              /\ \A i \in 1..(n - 1) : Typed(kb)[i] # "nul"
              /\ Typed(kb') = SubSeq(Typed(kb), n + 1, Len(kb.used))
<1> DEFINE c == k.cur_pid
           x == [k |-> k, b |-> kb]
           n == kb.length[c]
<1>1. c \in Pid /\ k \in Entered(c)
  BY EnterUser DEF ResumeRead
<1>2. Run(read_end(x, n).k) /\ kb' = read_end(x, n).b
  BY DEF ResumeRead, RunIO
<1>3. Settled(read_end(x, n).k)
  BY <1>1, ReadEndSettled
<1>4. Settled(k')
  BY Zenon, <1>2, <1>3, RunSettled
<1>5. /\ Buffer(kb') /\ kb'.reading = kb.reading
      /\ Typed(kb') = SubSeq(Typed(kb), taken(kb, n) + 1, Len(kb.used))
  BY <1>1, <1>2, ReadEndBuffer
<1>6. /\ taken(kb, n) \in 0..Len(kb.used)
      /\ \A i \in 1..(taken(kb, n) - 1) : Typed(kb)[i] # "nul"
  BY Zenon, Taken
<1> HIDE DEF n
<1> QED
  BY Zenon, <1>4, <1>5, <1>6

\* The keyboard interrupt: nothing, a key or a deletion in the line asked for,
\* or its end.
LEMMA KeyboardStep ==
  ASSUME Settled(k), Buffer(kb), KeyboardInterrupt
  PROVE  /\ Settled(k') /\ Buffer(kb')
         /\ \/ kb' = kb
            \/ /\ kb.reading /\ ~kb'.reading
               /\ Typed(kb') = Pushed(Typed(kb), "nul")
            \/ /\ kb.reading /\ kb'.reading = kb.reading
               /\ Typed(kb') = IF Typed(kb) = <<>> THEN Typed(kb)
                               ELSE SubSeq(Typed(kb), 1, Len(Typed(kb)) - 1)
            \/ /\ kb.reading /\ kb'.reading = kb.reading
               /\ \E ch \in CharClass : Typed(kb') = Pushed(Typed(kb), ch)
<1> DEFINE c == k.cur_pid
           x == [k |-> k, b |-> kb]
<1>1. c \in Pid /\ k \in Entered(c)
  BY Enter DEF KeyboardInterrupt
<1>2. PICK ch \in Keys : RunIO(keyboard_data(x, ch))
  BY DEF KeyboardInterrupt
<1>3. ch \in CharClass
  BY <1>2, KeyboardAssumption
<1> DEFINE y == keyboard_data(x, ch)
<1>4. Run(y.k) /\ kb' = y.b
  BY <1>2 DEF RunIO
<1>5. y.k = k \/ \E b : y.k = signal_end_io([k |-> k, b |-> b], kb.calling_pid).k
  BY DEF keyboard_data
<1>6. Buffer(y.b) /\ Edited(kb, y.b, ch)
  BY Zenon, <1>3, KeyboardDataBuffer
<1>7. kb.calling_pid \in Pid
  BY DEF Buffer, KeyboardMemory
<1> HIDE DEF y
<1>8. Settled(y.k)
  BY Zenon, <1>1, <1>5, <1>7, SignalEndIoSettled
<1>9. Settled(k')
  BY <1>4, <1>8, RunSettled
<1> QED
  BY Zenon, <1>3, <1>4, <1>6, <1>9 DEF Edited

\* The calls that switch the echo leave the line alone.
LEMMA EchoStep ==
  ASSUME Buffer(kb), ConsEcho \/ ShellEcho
  PROVE  Buffer(kb') /\ kb'.reading = kb.reading /\ Typed(kb') = Typed(kb) /\ k' = k
<1>1. kb \in KeyboardMemory
  BY DEF Buffer
<1>2. /\ kb' \in KeyboardMemory /\ kb'.reading = kb.reading
      /\ kb'.used = kb.used /\ kb'.free = kb.free /\ kb'.val = kb.val /\ k' = k
  <2>1. CASE ConsEcho
    BY Zenon, <1>1, <2>1 DEF ConsEcho, KeyboardMemory
  <2>2. CASE ShellEcho
    <3>1. 1 - kb.on \in {0, 1} /\ (kb.on = 0) \in BOOLEAN
      BY <1>1 DEF KeyboardMemory
    <3> QED
      BY Zenon, <1>1, <2>2, <3>1 DEF ShellEcho, KeyboardMemory
  <2> QED
    BY <2>1, <2>2
<1> QED
  BY <1>2, OtherFields

\* update_buffer throws the line away.
LEMMA FlushStep ==
  ASSUME Buffer(kb), UpdateBuffer \/ PrintPrompt
  PROVE  Buffer(kb') /\ kb'.reading = kb.reading /\ Typed(kb') = <<>> /\ k' = k
<1>1. kb' = update_buffer(kb) /\ k' = k
  BY DEF UpdateBuffer, PrintPrompt
<1>2. Buffer(kb') /\ kb'.reading = kb.reading /\ kb'.used = <<>>
  BY <1>1, UpdateBufferEmpties DEF Kept
<1> QED
  BY <1>1, <1>2, TypedLine DEF queue_empty

\* The steps of the kernel that have nothing to do with the console.
LEMMA KernelStep ==
  ASSUME Settled(k), InvalidInstruction \/ Tick \/ Other
  PROVE  Settled(k') /\ kb' = kb
<1>1. CASE InvalidInstruction
  <2>1. /\ ~k.fault /\ k.cur_pid \in UserPid /\ Run(exit(k, 0)) /\ kb' = kb
    BY <1>1 DEF InvalidInstruction, InUser
  <2>2. Settled(exit(k, 0))
    BY <2>1, EnterUser, ExitSettled
  <2> QED
    BY <2>1, <2>2, RunSettled
<1>2. CASE Tick
  BY <1>2, SettledStep DEF Tick, Next
<1>3. CASE Other
  <2>1. KillOther => Kill
    BY DEF KillOther, Kill
  <2>2. Next
    BY <1>3, <2>1 DEF Other, Next
  <2> QED
    BY <1>3, <2>2, SettledStep DEF Other
<1> QED
  BY <1>1, <1>2, <1>3

-----------------------------------------------------------------------------
(***************************************************************************)
(* The invariant of the composition, and what follows from it.             *)
(***************************************************************************)

KbInv == Settled(k) /\ Buffer(kb) /\ con \in Screen /\ tod \in TimeOfDay

\* The invariant holds after the boot, with the clock on the screen.
LEMMA KbInvInit == KbInit => KbInv /\ con \in TextScreen
<1>1. init_clock \in Screen
  BY InitClockText DEF TextScreen
<1> QED
  BY <1>1, InitSettled, InitBuffer, InitClockText DEF KbInit, Init, KbInv

\* The kernel stays settled and the buffer in order.
LEMMA InputStep ==
  ASSUME Settled(k), Buffer(kb), [KbNext]_vars
  PROVE  Settled(k') /\ Buffer(kb')
<1>1. CASE ConsRead
  BY Zenon, <1>1, ConsReadStep
<1>2. CASE ResumeRead
  BY Zenon, <1>2, ResumeReadStep
<1>3. CASE KeyboardInterrupt
  BY Zenon, <1>3, KeyboardStep
<1>4. CASE ConsEcho \/ ShellEcho
  BY Zenon, <1>4, EchoStep
<1>5. CASE UpdateBuffer \/ PrintPrompt
  BY Zenon, <1>5, FlushStep
<1>6. CASE ConsWrite \/ UNCHANGED vars
  BY <1>6 DEF ConsWrite, vars
<1>7. CASE InvalidInstruction \/ Tick \/ Other
  BY Zenon, <1>7, KernelStep
<1> QED
  BY Zenon, <1>1, <1>2, <1>3, <1>4, <1>5, <1>6, <1>7 DEF KbNext

\* The clock on the screen: the display of a tick, and the time of day.
LEMMA TickStep ==
  ASSUME tod \in TimeOfDay, con \in Screen, Tick
  PROVE  /\ tod' \in TimeOfDay
         /\ con' = con \/ con' = refresh_clock(con, tod')
BY NextSecondType DEF Tick, clock_display

\* Any other step leaves the time of day.
LEMMA NoTickStep ==
  ASSUME [KbNext]_vars
  PROVE  Tick \/ tod' = tod
BY DEF KbNext, vars, ConsRead, ResumeRead, KeyboardInterrupt, ConsEcho, ShellEcho,
       UpdateBuffer, PrintPrompt, ConsWrite, InvalidInstruction, Other

\* The invariant is inductive.
LEMMA KbInvStep == KbInv /\ [KbNext]_vars => KbInv'
<1> SUFFICES ASSUME KbInv, [KbNext]_vars PROVE KbInv'
  OBVIOUS
<1>1. Settled(k) /\ Buffer(kb) /\ con \in Screen /\ tod \in TimeOfDay
  BY DEF KbInv
<1>2. Settled(k') /\ Buffer(kb')
  BY Zenon, <1>1, InputStep
<1>3. CASE Tick
  <2>1. tod' \in TimeOfDay /\ (con' = con \/ con' = refresh_clock(con, tod'))
    BY Zenon, <1>1, <1>3, TickStep
  <2>2. con' \in Screen
    BY <1>1, <2>1, RefreshClockType
  <2> QED
    BY <1>2, <2>1, <2>2 DEF KbInv
<1>4. CASE ~Tick
  <2>1. tod' = tod
    BY Zenon, <1>4, NoTickStep
  <2>2. con' \in Screen
    BY Zenon, <1>1, <1>4, ScreensClosed, ConsoleStep
  <2> QED
    BY <1>1, <1>2, <2>1, <2>2 DEF KbInv
<1> QED
  BY <1>3, <1>4

\* No frame of the keyboard buffer is ever lost or used twice, and the types of
\* the buffer, the screen and the time of day are kept: for any number of
\* processes and frames, any keys and any interleaving of the reading calls,
\* the interrupts and the other system calls, with several readers or one.
THEOREM FramesAreKept == KbSpec => []FramesKept
<1>1. KbInit => KbInv
  BY KbInvInit
<1>2. KbInv => FramesKept
  <2> SUFFICES ASSUME KbInv PROVE FramesKept
    OBVIOUS
  <2>1. /\ kb \in KeyboardMemory /\ con \in Screen /\ tod \in TimeOfDay
        /\ Share(kb.used, kb.free) /\ SortedBy(kb.free, frame_id)
    BY DEF KbInv, Buffer
  <2>2. IsInjective(kb.used \o kb.free) /\ Range(kb.used \o kb.free) = Frame
    BY <2>1, SharedFrames
  <2> QED
    BY Zenon, <2>1, <2>2 DEF FramesKept, KbTypeOK
<1> QED
  BY <1>1, <1>2, KbInvStep, PTL DEF KbSpec

\* The state queues agree with the process table also with the console: the
\* reading calls and the keyboard interrupt put readers back in their queue.
THEOREM InputQueuesAgree == KbSpec => [](TypeOK /\ QueueInv)
<1>1. KbInit => KbInv
  BY KbInvInit
<1>2. KbInv => TypeOK /\ QueueInv
  BY SettledQueues DEF KbInv, Settled, TypeOK
<1> QED
  BY <1>1, <1>2, KbInvStep, PTL DEF KbSpec

\* Text and clock stay apart on the screen, as long as the hour has two digits:
\* whatever the processes print, the keyboard echoes and the clock displays.
THEOREM ClockStaysApart ==
  KbSpec /\ [](tod.hour < TWO_DIGITS) => []ClockApart
<1> DEFINE I == KbInv /\ con \in TextScreen
           H == tod.hour < TWO_DIGITS
<1>1. KbInit => I
  BY KbInvInit
<1>2. I /\ [KbNext]_vars /\ H' => I'
  <2> SUFFICES ASSUME KbInv, con \in TextScreen, [KbNext]_vars, tod'.hour < TWO_DIGITS
               PROVE  KbInv' /\ con' \in TextScreen
    OBVIOUS
  <2>1. Settled(k) /\ con \in Screen /\ tod \in TimeOfDay
    BY DEF KbInv
  <2>2. KbInv'
    BY KbInvStep
  <2>3. CASE Tick
    <3>1. con' = con \/ con' = refresh_clock(con, tod')
      BY Zenon, <2>1, <2>3, TickStep
    <3>2. con' \in TextScreen
      BY <3>1, RefreshClockText
    <3> QED
      BY <2>2, <3>2
  <2>4. CASE ~Tick
    BY Zenon, <2>1, <2>2, <2>4, ScreensClosed, ConsoleStep
  <2> QED
    BY <2>3, <2>4
<1>3. I => ClockApart
  BY DEF TextScreen, Inked, ClockApart
<1> QED
  BY <1>1, <1>2, <1>3, PTL DEF KbSpec

=============================================================================

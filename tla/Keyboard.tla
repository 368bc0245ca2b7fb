------------------------------ MODULE Keyboard ------------------------------
(***************************************************************************)
(* Console input and output: the keyboard buffer of kernel/kbd.c, the      *)
(* reading calls of kernel/process_handler.c, the screen and the clock on  *)
(* it, composed with the processes, semaphores and interrupts of module    *)
(* Kernel.                                                                 *)
(*                                                                         *)
(* The keyboard interrupt stores keys in frames only while a read is going *)
(* on; Enter ends the read and wakes the reader.  A read of a non-empty    *)
(* buffer does not block.  With SoleReader = TRUE the programs keep away   *)
(* from each other: nobody reads, empties the buffer or kills the reader   *)
(* while another process is inside a read.                                 *)
(***************************************************************************)
EXTENDS Kernel, Console

CONSTANTS
  BUFFER_SIZE,  \* frames of the keyboard buffer: 100
  Keys,         \* classes of characters the keyboard sends
  Lengths,      \* lengths given to cons_read
  Margins,      \* limits given to set_col_min
  PROMPT_SIZE,  \* length of the prompt: 22
  SoleReader    \* BOOLEAN

ASSUME KeyboardAssumption ==
  /\ BUFFER_SIZE \in Nat \ {0} /\ PROMPT_SIZE \in Nat
  /\ Keys \subseteq CharClass
  /\ Lengths \subseteq Nat /\ Margins \subseteq Int
  /\ SoleReader \in BOOLEAN

VARIABLES kb, con, tod

vars == <<k, kb, con, tod>>

Frame == 0..(BUFFER_SIZE - 1)

\* The statics of kbd.c and "on" of it49_syslib_body.c; "length" is the argument
\* of a read that is blocked.  nb_chars is left out: no code reads it.
KeyboardMemory ==
  [echo : BOOLEAN, on : {0, 1}, reading : BOOLEAN, calling_pid : Pid,
   length : [Pid -> Lengths \cup {0}],
   used : Seq(Frame), free : Seq(Frame), val : [Frame -> CharClass]]

-----------------------------------------------------------------------------
(***************************************************************************)
(* kbd.c.                                                                  *)
(***************************************************************************)

frame_id == [f \in Frame |-> f]

\* All frames arrive at time 1: a new one goes to the bottom, the oldest is at
\* the top.
arrival == [f \in Frame |-> 1]

init_buffer ==
  [echo |-> TRUE, on |-> 1, reading |-> FALSE, calling_pid |-> 0,
   length |-> [p \in Pid |-> 0],
   used |-> <<>>, free |-> [i \in 1..BUFFER_SIZE |-> i - 1],
   val |-> [f \in Frame |-> "nul"]]

buff_empty(b) == queue_empty(b.used)

\* Mutant: the frame does not go back to the free ones.
release_lost(b, f) == [b EXCEPT !.used = queue_del(f, @)]

\* Frame f leaves the used queue for the free one.
release(b, f) ==
  [b EXCEPT !.used = queue_del(f, @), !.free = queue_add(f, @, frame_id)]

remove_buff(b) == IF buff_empty(b) THEN b ELSE release(b, queue_top(b.used))

\* n turns of a loop around remove_buff.
remove_times(b, n) ==
  LET it[i \in 0..n] == IF i = 0 THEN b ELSE remove_buff(it[i - 1])
  IN  it[n]

update_buffer(b) == remove_times(b, BUFFER_SIZE)

\* A character that finds no free frame is dropped.
insert_key(b, ch) ==
  IF queue_empty(b.free) THEN b
  ELSE LET id == queue_bottom(b.free)
       IN  [b EXCEPT !.free = queue_out_bot(@), !.val[id] = ch,
                     !.used = queue_add(id, @, arrival)]

\* Mutant: the delete key takes the oldest character.
delete_key_oldest(b) == remove_buff(b)

delete_key(b) == IF buff_empty(b) THEN b ELSE release(b, queue_bottom(b.used))

enable_reading(b, pid) == [b EXCEPT !.calling_pid = pid, !.reading = TRUE]

\* The number of frames copy_from_buffer takes: up to the one that completes
\* the asked length, up to the first NUL, or all.  Characters that are not in
\* 0..126 are taken and not copied.
taken(b, length) ==
  LET s(i)    == b.val[b.used[Len(b.used) + 1 - i]]
      Copy(n) == {i \in 1..n : s(i) \notin {"del", "high"}}
      stop    == {n \in 1..Len(b.used) :
                    s(n) = "nul" \/ Cardinality(Copy(n)) = length}
  IN  IF stop = {} THEN Len(b.used) ELSE Min(stop)

copy_from_buffer(b, length) == remove_times(b, taken(b, length))

-----------------------------------------------------------------------------
(***************************************************************************)
(* Input and output of process_handler.c.  Two memories change together,   *)
(* so an operator maps a pair x = [k, b] to a pair.                        *)
(***************************************************************************)

\* find_pid returns NULL when the reader is no longer in the queue.
signal_end_io(x, pid) ==
  [k |-> scheduler(place(unchain_from(x.k, pid, "io_blocked"),
                         pid, "actionable", x.k.prio)),
   b |-> x.b]

signal_cons_read_io(x) ==
  LET q == x.k.queue_table["io_blocked"]
  IN  IF queue_empty(q) THEN x
      ELSE [k |-> scheduler(place(unchain(x.k, queue_top(q)), queue_top(q),
                                  "actionable", x.k.prio)),
            b |-> x.b]

\* The test read_mutex < 0 of wait_on_io: the counter starts at 1 and the code
\* only ever increments it, so the test fails and nobody is kept out.
wait_on_io(x) == x

\* The end of a read: the copy, then the wake-up of another reader.
read_end(x, length) ==
  signal_cons_read_io([k |-> [x.k EXCEPT !.cont[x.k.cur_pid] = "user"],
                       b |-> [copy_from_buffer(x.b, length) EXCEPT
                                !.length[x.k.cur_pid] = 0]])

read_block(x, length, call) ==
  LET p == x.k.cur_pid
      m == [x.k EXCEPT !.cont[p] = call]
  IN  [k |-> scheduler(place(m, p, "io_blocked", m.prio)),
       b |-> enable_reading([x.b EXCEPT !.length[p] = length], p)]

\* cons_read and shell_cons_read; "call" says which.
cons_read(x0, length, call) ==
  LET x == wait_on_io(x0)
  IN  IF length = 0 THEN signal_cons_read_io(x)
      ELSE IF ~buff_empty(x.b) THEN read_end(x, length)
      ELSE read_block(x, length, call)

\* What a read writes on the screen when it returns.
read_newline(c, call) ==
  handle_char(IF call = "shell_cons_read" THEN set_col_min(c, 0) ELSE c, "nl")

\* Mutant: Enter stores no end of line.
keyboard_data_open(x, ch) ==
  IF ~x.b.reading THEN x
  ELSE IF ch = "cr"
       THEN signal_end_io([x EXCEPT !.b =
                             [@ EXCEPT !.reading = FALSE, !.calling_pid = 0]],
                          x.b.calling_pid)
       ELSE [x EXCEPT !.b = IF ch = "del" THEN delete_key(@)
                            ELSE insert_key(@, ch)]

keyboard_data(x, ch) ==
  IF ~x.b.reading THEN x
  ELSE IF ch = "cr"
       THEN signal_end_io([x EXCEPT !.b =
                             [insert_key(@, "nul") EXCEPT
                                !.reading = FALSE, !.calling_pid = 0]],
                          x.b.calling_pid)
       ELSE [x EXCEPT !.b = IF ch = "del" THEN delete_key(@)
                            ELSE insert_key(@, ch)]

text_line == printed(1) \o <<"nl">>

text_lines(n) == [i \in 1..(2 * n) |-> text_line[2 - (i % 2)]]

\* Two lines of title, one per entry, and an empty line.  list_of_sem, called
\* for each semaphore, lists everyone blocked on any.
list_ps(c, m) ==
  LET listed == {p \in Pid : chained(m, p) /\ m.state[p] # "freepid"}
  IN  console_putbytes(set_col_min(c, 0),
                       text_lines(2 + Cardinality(listed)) \o <<"nl">>)

list_sem_info(c, m) ==
  LET lines == Cardinality(m.sem_used) * (1 + Len(m.queue_table["sem_blocked"]))
  IN  console_putbytes(c, text_lines(2 + lines) \o <<"nl">>)

print_prompt(c) ==
  set_col_min(console_putbytes(set_col_min(c, 0), printed(PROMPT_SIZE)),
              PROMPT_SIZE)

-----------------------------------------------------------------------------
(***************************************************************************)
(* Steps.                                                                  *)
(***************************************************************************)

KbInit ==
  /\ Init /\ kb = init_buffer
  /\ con = init_clock /\ tod = midnight

RunIO(x) == Run(x.k) /\ kb' = x.b

Reading(p) == k.cont[p] \in {"cons_read", "shell_cons_read"}

Undisturbed == SoleReader => \A p \in Pid : ~Reading(p)

ConsRead ==
  /\ InUser /\ Undisturbed
  /\ \E length \in Lengths, call \in {"cons_read", "shell_cons_read"} :
       LET x == [k |-> k, b |-> kb]
       IN  /\ RunIO(cons_read(x, length, call))
           /\ con' = IF length # 0 /\ ~buff_empty(kb)
                     THEN read_newline(con, call) ELSE con
  /\ UNCHANGED tod

\* A reader that was descheduled inside its read has been chosen again.
ResumeRead ==
  /\ ~k.fault /\ k.cur_pid \in UserPid /\ Reading(k.cur_pid)
  /\ RunIO(read_end([k |-> k, b |-> kb], kb.length[k.cur_pid]))
  /\ con' = read_newline(con, k.cont[k.cur_pid])
  /\ UNCHANGED tod

\* it33_kbd_handler, do_scancode and keyboard_data, once a key has a character.
KeyboardInterrupt ==
  /\ ~k.fault /\ k.cur_pid \in Pid /\ k.cont[k.cur_pid] = "user"
  /\ \E ch \in Keys :
       /\ RunIO(keyboard_data([k |-> k, b |-> kb], ch))
       /\ con' = IF kb.echo THEN echo_key(con, ch) ELSE con
  /\ UNCHANGED tod

ConsEcho ==
  /\ InUser
  /\ \E on \in BOOLEAN : kb' = [kb EXCEPT !.echo = on]
  /\ UNCHANGED <<k, con, tod>>

ShellEcho ==
  /\ InUser
  /\ kb' = [kb EXCEPT !.on = 1 - @, !.echo = (kb.on = 0)]
  /\ UNCHANGED <<k, con, tod>>

UpdateBuffer ==
  /\ InUser /\ Undisturbed
  /\ kb' = update_buffer(kb)
  /\ UNCHANGED <<k, con, tod>>

PrintPrompt ==
  /\ InUser /\ Undisturbed
  /\ kb' = update_buffer(kb) /\ con' = print_prompt(con)
  /\ UNCHANGED <<k, tod>>

\* Output: one character at a time, clear, a change of the margin, and the two
\* listings of the shell.
ConsWrite ==
  /\ InUser
  /\ \/ \E ch \in CharClass : con' = handle_char(con, ch)
     \/ con' = clear(con)
     \/ \E limit \in Margins : con' = set_col_min(con, limit)
     \/ con' = list_ps(con, k)
     \/ con' = list_sem_info(con, k)
  /\ UNCHANGED <<k, kb, tod>>

\* The exception of a protected instruction ends the process.
InvalidInstruction ==
  /\ InUser /\ MayDie(k.cur_pid)
  /\ Run(exit(k, 0))
  /\ con' = console_putbytes(con, text_line)
  /\ UNCHANGED <<kb, tod>>

Tick ==
  /\ ClockInterrupt
  /\ LET ticks == (k.clock_ticks + 1) % CLOCK_MOD
     IN  tod' = clock_second(tod, ticks) /\ con' = clock_display(con, tod, ticks)
  /\ UNCHANGED kb

\* The system calls that have nothing to do with the console.
KillOther ==
  InUser /\ \E pid \in Pid :
    MayDie(pid) /\ (SoleReader => ~Reading(pid)) /\ Run(kill(k, pid))

Other ==
  /\ \/ Start \/ Exit \/ KillOther \/ Waitpid \/ ResumeWaitpid \/ Chprio
     \/ WaitClock \/ SemNext \/ GarbageCollector
  /\ UNCHANGED <<kb, con, tod>>

KbNext ==
  \/ ConsRead \/ ResumeRead \/ KeyboardInterrupt \/ ConsEcho \/ ShellEcho
  \/ UpdateBuffer \/ PrintPrompt \/ ConsWrite \/ InvalidInstruction
  \/ Tick \/ Other

KbSpec == KbInit /\ [][KbNext]_vars

-----------------------------------------------------------------------------
(***************************************************************************)
(* Properties.                                                             *)
(***************************************************************************)

\* The keyboard memory, the screen and the time of day keep their types.
KbTypeOK ==
  /\ kb \in KeyboardMemory
  /\ con \in Screen /\ tod \in TimeOfDay

\* No frame of the buffer is lost or in both queues, and the free ones are
\* handed out in order of their number.
FramesKept ==
  /\ KbTypeOK
  /\ IsInjective(kb.used \o kb.free)
  /\ Range(kb.used \o kb.free) = Frame
  /\ SortedBy(kb.free, frame_id)

\* A read is going on exactly when a process is blocked in it, Enter will find
\* that process (it is the one calling_pid names), and a reader that Enter has
\* woken finds its line when it runs again: the end of the line is the last
\* character of the buffer, or the buffer is full.  The kernel does not fault.
LineReady ==
  /\ ~k.fault
  /\ kb.reading <=> k.queue_table["io_blocked"] # <<>>
  /\ kb.reading => k.queue_table["io_blocked"] = <<kb.calling_pid>>
  /\ \A p \in UserPid :
       Reading(p) /\ k.state[p] = "actionable" =>
         /\ kb.used # <<>>
         /\ kb.val[queue_bottom(kb.used)] = "nul" \/ queue_empty(kb.free)

\* What is in the buffer, oldest first, changes as the line editor of module
\* LineInput says: keys of one read, in order, taken from the front in pieces
\* that no NUL divides.  A NUL that is typed ends a piece as Enter does, and the
\* rest of the line waits for the next read.
Line == INSTANCE LineInput
          WITH Key <- CharClass, NUL <- "nul", Size <- BUFFER_SIZE,
               asked <- kb.reading,
               line <- [i \in 1..Len(kb.used) |->
                          kb.val[kb.used[Len(kb.used) + 1 - i]]]

KeepsLine == Line!LineSpec

\* Between two steps the cursor is on one of the lines of the text; the clock
\* stays on the first line, the text stays below it, and neither is written
\* after the end of the screen.
ClockApart ==
  /\ con.line_cur \in FIRST_LINE..(NB_LINES - 1) /\ con.col_cur \in 0..(NB_COLUMNS - 1)
  /\ con.colour = "text"
  /\ con.ink[0] = {"clock"} /\ con.ink[NB_LINES] = {}
  /\ \A i \in FIRST_LINE..(NB_LINES - 1) : con.ink[i] \subseteq {"text"}

=============================================================================

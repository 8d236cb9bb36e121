------------------------------ MODULE Terminal ------------------------------
(***************************************************************************)
(* kernel/drivers/keyboard.c and tty.c over Console: keys become           *)
(* characters, characters lines, lines what read returns, and everything   *)
(* typed or written an image on the screen.  A key is an interrupt and one *)
(* step; a system call runs with interrupts off from one sleep to the      *)
(* next, so a call, or its continuation after a wake-up, is one step.      *)
(***************************************************************************)
EXTENDS Console

CONSTANTS TTY_BUF_SIZE, TTY_LINE_MAX, Readers, Counts, Keys, Outputs,
          MaxOps, MaxCalls

VARIABLES kb,         \* [shift, ctrl, alt, caps]
          tty,        \* [buf, head, tail, lines, line, fg_pgid]
          reader,     \* reader[r] = [state, count]: one process per group
          waitq,      \* tty_read_wq
          scr,        \* the ANSI parser and the frame buffer
          vts, active,
          signalled,  \* groups sent SIGINT or SIGTSTP
          hist,       \* [clean, lost, split], about the past
          ops         \* calls and keys so far, by kind, up to MaxOps
vars == <<kb, tty, reader, waitq, scr, vts, active, signalled, hist, ops>>

NoGroup == 0

\* Bounds: at most MaxOps[k] events of kind k, and MaxCalls in all.
Kinds == {"modifier", "key", "read", "write"}
Calls == ops.modifier + ops.key + ops.read + ops.write
Spend(k) == ops[k] < MaxOps[k] /\ Calls < MaxCalls /\ ops' = [ops EXCEPT ![k] = @ + 1]

\* A kprintf message: one letter and a newline, drawn past the ANSI parser.
Message == <<"k", "NL">>

\* scancode_to_ascii, on the keys of the model, and scancode_shift.
Plain == [k \in {"c", "z", "NL", "BS", "ESC"} |-> k]
Shifted == [Plain EXCEPT !["c"] = "C", !["z"] = "Z"]
ControlCode == [k \in {"c", "z"} |-> IF k = "c" THEN "ETX" ELSE "SUB"]
Function == [f \in {"F1", "F2"} |-> IF f = "F1" THEN 0 ELSE 1]

Init ==
    /\ kb = [shift |-> FALSE, ctrl |-> FALSE, alt |-> FALSE, caps |-> FALSE]
    /\ tty = [buf |-> [i \in 0 .. TTY_BUF_SIZE - 1 |-> " "], head |-> 0, tail |-> 0,
              lines |-> 0, line |-> <<>>, fg_pgid |-> NoGroup]
    /\ reader = [r \in Readers |-> [state |-> "IDLE", count |-> 0]]
    /\ waitq = <<>>
    /\ scr = ansi_init(fb_console_puts(fb_console_init, Message))
    /\ vts = vt_init
    /\ active = 0
    /\ signalled = {}
    /\ hist = [clean |-> TRUE, lost |-> FALSE, split |-> FALSE]
    /\ ops = [k \in Kinds |-> 0]

-----------------------------------------------------------------------------
\* tty_emit through tty_dual_output
tty_emit(s, chars) == FoldLeft(ansi_putchar, s, chars)

\* Mutant: the erased character is blanked but the cursor stays behind it.
EraseEcho_short(line) == IF line = <<>> THEN <<>> ELSE <<"BS", " ">>

EraseEcho(line) == IF line = <<>> THEN <<>> ELSE <<"BS", " ", "BS">>

\* What tty_input_char echoes for character c.
Echo(c) ==
    CASE c = "ETX" -> <<"^", "C", "NL">>
      [] c = "SUB" -> <<"^", "Z", "NL">>
      [] c = "BS" -> EraseEcho(tty.line)
      [] c = "NL" -> <<"NL">>
      [] c \notin {"ETX", "SUB", "BS", "NL"} ->
           IF Len(tty.line) < TTY_LINE_MAX - 1 THEN <<c>> ELSE <<>>

\* The ring with chars written from position head on.
Put(buf, head, chars) ==
    FoldLeft(LAMBDA b, i : [b EXCEPT ![(head + i - 1) % TTY_BUF_SIZE] = chars[i]],
             buf, [i \in 1 .. Len(chars) |-> i])

\* The line and its newline go to the ring, whether or not there is room.
Complete(t) ==
    [t EXCEPT !.buf = Put(@, t.head, Append(t.line, "NL")),
              !.head = @ + Len(t.line) + 1, !.line = <<>>, !.lines = @ + 1]

\* line_buf and the ring after character c.
Typed(c) ==
    CASE c \in {"ETX", "SUB"} -> tty
      [] c = "BS" -> [tty EXCEPT !.line = IF @ = <<>> THEN @ ELSE Front(@)]
      [] c = "NL" -> Complete(tty)
      [] c \notin {"ETX", "SUB", "BS", "NL"} ->
           [tty EXCEPT !.line = IF Len(@) < TTY_LINE_MAX - 1 THEN Append(@, c) ELSE @]

\* Mutant: nobody is woken.
Woken_none(c) == <<>>

\* wq_wake, for a newline: the first sleeper, if there is one.
Woken(c) == IF c = "NL" /\ waitq # <<>> THEN <<Head(waitq)>> ELSE <<>>

tty_input_char(c) ==
    /\ tty' = Typed(c)
    /\ scr' = tty_emit(scr, Echo(c))
    /\ signalled' = IF c \in {"ETX", "SUB"} /\ tty.fg_pgid # NoGroup
                    THEN signalled \cup {<<tty.fg_pgid, c>>} ELSE signalled
    /\ waitq' = SubSeq(waitq, Len(Woken(c)) + 1, Len(waitq))
    /\ reader' = [r \in Readers |-> IF Contains(Woken(c), r)
                                    THEN [reader[r] EXCEPT !.state = "AWAKE"] ELSE reader[r]]
    /\ hist' = [hist EXCEPT
          !.lost = @ \/ tty'.head - tty'.tail > TTY_BUF_SIZE,
          !.clean = \/ c = "NL" /\ scr.state = "NORMAL"
                    \/ @ /\ c \notin {"ETX", "SUB", "ESC"} /\ Len(tty'.line) < Cols]

\* What keyboard_irq_handler makes of a key that is not a modifier.
Translate(k) ==
    LET c == IF kb.shift # kb.caps THEN Shifted[k] ELSE Plain[k]
    IN IF kb.ctrl /\ c \in DOMAIN ControlCode THEN ControlCode[c] ELSE c

Modifier(k) ==
    CASE k = "SHIFT" -> [kb EXCEPT !.shift = TRUE]
      [] k = "-SHIFT" -> [kb EXCEPT !.shift = FALSE]
      [] k = "CTRL" -> [kb EXCEPT !.ctrl = TRUE]
      [] k = "-CTRL" -> [kb EXCEPT !.ctrl = FALSE]
      [] k = "ALT" -> [kb EXCEPT !.alt = TRUE]
      [] k = "-ALT" -> [kb EXCEPT !.alt = FALSE]
      [] k = "CAPS" -> [kb EXCEPT !.caps = ~@]

Modifiers == {"SHIFT", "-SHIFT", "CTRL", "-CTRL", "ALT", "-ALT", "CAPS"}

PressModifier(k) ==
    /\ k \in Modifiers /\ Spend("modifier")
    /\ Modifier(k) # kb /\ kb' = Modifier(k)
    /\ UNCHANGED <<tty, reader, waitq, scr, vts, active, signalled, hist>>

PressChar(k) ==
    /\ k \in DOMAIN Plain /\ Spend("key")
    /\ tty_input_char(Translate(k))
    /\ UNCHANGED <<kb, vts, active>>

\* Alt with a function key: the new terminal is drawn and a message announces it.
vt_switch(n) ==
    /\ n # active
    /\ active' = n
    /\ vts' = [vts EXCEPT ![active].col = scr.fb.col, ![active].row = scr.fb.row]
    /\ scr' = [scr EXCEPT !.fb = fb_console_puts(vt_redraw(@, vts[n]), Message)]
    /\ hist' = [hist EXCEPT !.clean = FALSE]

PressFunction(k) ==
    /\ k \in DOMAIN Function /\ Spend("key")
    /\ kb.alt
    /\ vt_switch(Function[k])
    /\ UNCHANGED <<kb, tty, reader, waitq, signalled>>

-----------------------------------------------------------------------------
Unread == [i \in 1 .. tty.head - tty.tail |-> tty.buf[(tty.tail + i - 1) % TTY_BUF_SIZE]]

\* Mutant: the copy runs past the newline.
Taken_past(count) == Min({count, Len(Unread)})

\* How many characters the copy loop takes: to the newline, the count or the end.
Taken(count) ==
    LET nl == SelectInSeq(Unread, LAMBDA c : c = "NL")
    IN Min({count, Len(Unread)} \cup (IF nl = 0 THEN {} ELSE {nl}))

Copy(r, count, fg) ==
    LET n == Taken(count)
        whole == n > 0 /\ Unread[n] = "NL"
    IN /\ tty' = [tty EXCEPT !.tail = @ + n, !.fg_pgid = fg,
                             !.lines = IF whole THEN @ - 1 ELSE @]
       /\ reader' = [reader EXCEPT ![r] = [state |-> "IDLE", count |-> 0]]
       /\ hist' = [hist EXCEPT !.split = tty'.lines > 0 /\ (@ \/ ~whole)]
       /\ waitq' = waitq

Sleep(r, count, fg) ==
    /\ reader' = [reader EXCEPT ![r] = [state |-> "ASLEEP", count |-> count]]
    /\ waitq' = Append(waitq, r)
    /\ tty' = [tty EXCEPT !.fg_pgid = fg]
    /\ hist' = hist

\* The call, and its continuation after wq_sleep returns: the count of
\* complete lines is looked at again.
tty_read(r, count) ==
    /\ reader[r].state = "IDLE" /\ Spend("read")
    /\ \/ tty.lines = 0 /\ Sleep(r, count, r)
       \/ tty.lines > 0 /\ Copy(r, count, r)
    /\ UNCHANGED <<kb, scr, vts, active, signalled>>

Resume(r) ==
    /\ reader[r].state = "AWAKE"
    /\ \/ tty.lines = 0 /\ Sleep(r, reader[r].count, tty.fg_pgid)
       \/ tty.lines > 0 /\ Copy(r, reader[r].count, tty.fg_pgid)
    /\ UNCHANGED <<kb, scr, vts, active, signalled, ops>>

tty_write(s) ==
    /\ Spend("write")
    /\ scr' = tty_emit(scr, s)
    /\ hist' = [hist EXCEPT !.clean = FALSE]
    /\ UNCHANGED <<kb, tty, reader, waitq, vts, active, signalled>>

tty_set_fg_pgid(g) ==
    /\ tty.fg_pgid # g /\ Spend("write")
    /\ tty' = [tty EXCEPT !.fg_pgid = g]
    /\ UNCHANGED <<kb, reader, waitq, scr, vts, active, signalled, hist>>

Next ==
    \/ \E k \in Keys : PressModifier(k) \/ PressChar(k) \/ PressFunction(k)
    \/ \E r \in Readers : Resume(r) \/ (\E n \in Counts : tty_read(r, n))
    \/ \E s \in Outputs : tty_write(s)
    \/ \E r \in Readers : tty_set_fg_pgid(r)

\* The scheduler's queue is round robin: a woken reader runs.
Fairness == \A r \in Readers : WF_vars(Resume(r))

Spec == Init /\ [][Next]_vars /\ Fairness

-----------------------------------------------------------------------------
\* Keyboard, line, ring and readers have their types; the line leaves room for
\* its newline, and the sleeping readers are those in the wait queue.
TypeOK ==
    /\ kb \in [shift : BOOLEAN, ctrl : BOOLEAN, alt : BOOLEAN, caps : BOOLEAN]
    /\ tty.tail <= tty.head /\ tty.lines \in 0 .. MaxCalls
    /\ Len(tty.line) < TTY_LINE_MAX
    /\ \A r \in Readers : reader[r].state \in {"IDLE", "ASLEEP", "AWAKE"}
    /\ {r \in Readers : reader[r].state = "ASLEEP"} = ToSet(waitq)
    /\ scr.state \in {"NORMAL", "ESC", "CSI"} /\ active \in DOMAIN vts

\* Whatever is typed, written, scrolled or switched to, in whatever state of an
\* escape sequence, the next character falls inside the frame buffer and the
\* next digit inside ansi.c's parameter array.
CursorInside ==
    /\ scr.fb.col \in 0 .. Cols - 1 /\ scr.fb.row \in 0 .. Rows - 1
    /\ DOMAIN scr.fb.cells = 0 .. Rows - 1
    /\ \A r \in 0 .. Rows - 1 : DOMAIN scr.fb.cells[r] = 0 .. Cols - 1
    /\ scr.count \in 0 .. MAX_PARAMS /\ DOMAIN scr.params = 1 .. MAX_PARAMS

\* Until the ring overflows, lines_ready counts the newlines nobody has read:
\* tty_read neither sleeps on a line nor returns without one.
LinesCounted ==
    hist.lost \/ tty.lines = Cardinality({i \in DOMAIN Unread : Unread[i] = "NL"})

\* What the user sees is what the shell will get: as long as nothing else was
\* drawn since the last newline and the line fits the row, the cursor's row
\* shows line_buf up to the cursor.
EchoMatches ==
    hist.clean =>
        /\ scr.fb.col = Len(tty.line)
        /\ \A i \in DOMAIN tty.line : scr.fb.cells[scr.fb.row][i - 1][1] = tty.line[i]

\* The screen is sound, and shows the line being typed.
ScreenSound == TypeOK /\ CursorInside /\ EchoMatches

\* The unread input is a queue: until the ring overflows it only grows by the
\* line being edited, whole and closed by its newline, and only shrinks from
\* the front, by at most one line; and lines_ready keeps counting its newlines.
InputKept ==
    [][\/ hist'.lost
       \/ /\ LinesCounted'
          /\ \/ Unread' = Unread
             \/ Unread' = Unread \o Append(tty.line, "NL")
             \/ \E n \in 1 .. Len(Unread) :
                   /\ Unread' = SubSeq(Unread, n + 1, Len(Unread))
                   /\ \A i \in 1 .. n - 1 : Unread[i] # "NL"]_<<Unread, tty>>

\* A complete line and a sleeping reader do not stay together: some reader
\* takes the line, unless a short read split it (and with it took the only
\* wake-up) or the ring overflowed.
LineServed ==
    (waitq # <<>> /\ tty.lines > 0)
        ~> (waitq = <<>> \/ tty.lines = 0 \/ hist.split \/ hist.lost)

\* A terminal that is switched away keeps in its buffer what it showed, for
\* vt_redraw to show it again.
VtBuffered ==
    [][active' # active =>
         \A r \in 0 .. Rows - 1, c \in 0 .. Cols - 1 :
             vts'[active].buffer[r][c][1] = scr.fb.cells[r][c][1]]_vars
=============================================================================

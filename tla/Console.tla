------------------------------- MODULE Console -------------------------------
(***************************************************************************)
(* kernel/drivers/fb_console.c, ansi.c and vt.c: the text screen, the      *)
(* escape sequence parser in front of it and the virtual terminals behind  *)
(* it.  A colour is 0..7, 8..15 when bright; a glyph is drawn as a cell    *)
(* <<character, foreground, background>>, and a space shows no foreground. *)
(* A character is a string: one letter, digit or sign, or the name of a    *)
(* control character.                                                      *)
(***************************************************************************)
EXTENDS Integers, Sequences, SequencesExt, FiniteSets, FiniteSetsExt

CONSTANTS Rows, Cols, TABSTOP, MAX_PARAMS, VT_COUNT

DEFAULT_FG == 7
DEFAULT_BG == 0
Control == {"NL", "CR", "TAB", "BS", "ESC", "ETX", "SUB"}
Digit == [d \in {"0", "1", "2", "3", "4"} |->
            CASE d = "0" -> 0 [] d = "1" -> 1 [] d = "2" -> 2 [] d = "3" -> 3 [] d = "4" -> 4]

Glyph(ch, fg, bg) == IF ch = " " THEN <<" ", 0, bg>> ELSE <<ch, fg, bg>>
BlankRow == [c \in 0 .. Cols - 1 |-> Glyph(" ", 0, 0)]
BlankScreen == [r \in 0 .. Rows - 1 |-> BlankRow]

-----------------------------------------------------------------------------
\* fb = [cells, col, row, fg, bg]
fb_console_clear(fb) == [fb EXCEPT !.cells = BlankScreen, !.col = 0, !.row = 0]

fb_console_init ==
    fb_console_clear([cells |-> BlankScreen, col |-> 0, row |-> 0,
                      fg |-> DEFAULT_FG, bg |-> DEFAULT_BG])

scroll_up(fb) ==
    [fb EXCEPT !.cells = [r \in 0 .. Rows - 1 |-> IF r < Rows - 1 THEN @[r + 1] ELSE BlankRow]]

newline(fb) ==
    IF fb.row + 1 >= Rows THEN [scroll_up(fb) EXCEPT !.col = 0, !.row = Rows - 1]
    ELSE [fb EXCEPT !.col = 0, !.row = @ + 1]

\* The cells of a set of positions painted with the background.
clear_cells(fb, at) ==
    [fb EXCEPT !.cells = [r \in 0 .. Rows - 1 |-> [c \in 0 .. Cols - 1 |->
        IF <<c, r>> \in at THEN Glyph(" ", 0, fb.bg) ELSE @[r][c]]]]

\* The next column, or the next line when the column is past the last.
Advance(fb, col) == IF col >= Cols THEN newline([fb EXCEPT !.col = col]) ELSE [fb EXCEPT !.col = col]

fb_console_putchar(fb, c) ==
    CASE c = "NL" -> newline(fb)
      [] c = "CR" -> [fb EXCEPT !.col = 0]
      [] c = "TAB" -> Advance(fb, (fb.col \div TABSTOP + 1) * TABSTOP)
      [] c = "BS" -> IF fb.col = 0 THEN fb
                     ELSE clear_cells([fb EXCEPT !.col = @ - 1], {<<fb.col - 1, fb.row>>})
      [] c \in {"ESC", "ETX", "SUB"} -> fb
      [] c \notin Control ->
           Advance([fb EXCEPT !.cells[fb.row][fb.col] = Glyph(c, fb.fg, fb.bg)], fb.col + 1)

fb_console_puts(fb, s) == FoldLeft(fb_console_putchar, fb, s)

fb_console_set_colors(fb, fg, bg) == [fb EXCEPT !.fg = fg, !.bg = bg]

fb_console_set_cursor(fb, col, row) ==
    [fb EXCEPT !.col = Min({col, Cols - 1}), !.row = Min({row, Rows - 1})]

Cells == (0 .. Cols - 1) \X (0 .. Rows - 1)
Before(fb) == {p \in Cells : p[2] < fb.row \/ (p[2] = fb.row /\ p[1] <= fb.col)}
After(fb) == {p \in Cells : p[2] > fb.row \/ (p[2] = fb.row /\ p[1] >= fb.col)}

fb_console_erase_display(fb, mode) ==
    CASE mode = 2 -> fb_console_clear(fb)
      [] mode = 0 -> clear_cells(fb, After(fb))
      [] mode = 1 -> clear_cells(fb, Before(fb))
      [] mode > 2 -> fb

fb_console_erase_line(fb, mode) ==
    LET line == {p \in Cells : p[2] = fb.row}
    IN CASE mode = 2 -> clear_cells(fb, line)
         [] mode = 0 -> clear_cells(fb, line \cap After(fb))
         [] mode = 1 -> clear_cells(fb, line \cap Before(fb))
         [] mode > 2 -> fb

-----------------------------------------------------------------------------
\* s = [fb, state, params, count, fg, bg, bold]
ansi_init(fb) ==
    [fb |-> fb, state |-> "NORMAL", params |-> [i \in 1 .. MAX_PARAMS |-> 0], count |-> 0,
     fg |-> DEFAULT_FG, bg |-> DEFAULT_BG, bold |-> FALSE]

get_param(s, idx, def) ==
    IF idx <= s.count /\ s.params[idx] > 0 THEN s.params[idx] ELSE def

Sgr(s, p) ==
    CASE p = 0 -> [s EXCEPT !.fg = DEFAULT_FG, !.bg = DEFAULT_BG, !.bold = FALSE]
      [] p = 1 -> [s EXCEPT !.bold = TRUE]
      [] p \in 30 .. 37 -> [s EXCEPT !.fg = (p - 30) + (IF s.bold THEN 8 ELSE 0)]
      [] p = 39 -> [s EXCEPT !.fg = DEFAULT_FG]
      [] p \in 40 .. 47 -> [s EXCEPT !.bg = p - 40]
      [] p = 49 -> [s EXCEPT !.bg = DEFAULT_BG]
      [] p \in 90 .. 97 -> [s EXCEPT !.fg = p - 90 + 8]
      [] p \in 100 .. 107 -> [s EXCEPT !.bg = p - 100 + 8]
      [] p \notin {0, 1, 39, 49} \cup 30 .. 37 \cup 40 .. 47 \cup 90 .. 97 \cup 100 .. 107 -> s

handle_sgr(s) ==
    LET Coloured(t) == [t EXCEPT !.fb = fb_console_set_colors(@, t.fg, t.bg)]
    IN Coloured(FoldLeft(Sgr, s, IF s.count = 0 THEN <<0>> ELSE SubSeq(s.params, 1, s.count)))

dispatch_csi(s, final) ==
    LET col == s.fb.col
        row == s.fb.row
        n == get_param(s, 1, 1)
        At(c, r) == [s EXCEPT !.fb = fb_console_set_cursor(@, c, r)]
    IN CASE final = "A" -> At(col, Max({0, row - n}))
         [] final = "B" -> At(col, row + n)
         [] final = "C" -> At(col + n, row)
         [] final = "D" -> At(Max({0, col - n}), row)
         [] final \in {"H", "f"} -> At(get_param(s, 2, 1) - 1, n - 1)
         [] final = "J" -> [s EXCEPT !.fb = fb_console_erase_display(@, get_param(s, 1, 0))]
         [] final = "K" -> [s EXCEPT !.fb = fb_console_erase_line(@, get_param(s, 1, 0))]
         [] final = "m" -> handle_sgr(s)
         [] final \notin {"A", "B", "C", "D", "H", "f", "J", "K", "m"} -> s

NextParam(s) == [s EXCEPT !.count = IF @ < MAX_PARAMS THEN @ + 1 ELSE @]

ansi_putchar(s, c) ==
    LET k == Max({1, s.count})
    IN CASE s.state = "NORMAL" /\ c = "ESC" -> [s EXCEPT !.state = "ESC"]
         [] s.state = "NORMAL" /\ c # "ESC" -> [s EXCEPT !.fb = fb_console_putchar(@, c)]
         [] s.state = "ESC" /\ c = "[" ->
              [s EXCEPT !.state = "CSI", !.count = 0, !.params = [i \in 1 .. MAX_PARAMS |-> 0]]
         [] s.state = "ESC" /\ c # "[" -> [s EXCEPT !.state = "NORMAL"]
         [] s.state = "CSI" /\ c \in DOMAIN Digit ->
              [s EXCEPT !.count = k, !.params[k] = @ * 10 + Digit[c]]
         [] s.state = "CSI" /\ c = ";" -> NextParam(s)
         [] s.state = "CSI" /\ c \notin DOMAIN Digit \cup {";"} ->
              [dispatch_csi(s, c) EXCEPT !.state = "NORMAL"]

-----------------------------------------------------------------------------
\* vts[i] = [buffer, col, row, fg, bg]; its buffer is a screen of raw cells.
vt_init ==
    [i \in 0 .. VT_COUNT - 1 |->
        [buffer |-> [r \in 0 .. Rows - 1 |-> [c \in 0 .. Cols - 1 |->
                        <<" ", DEFAULT_FG, DEFAULT_BG>>]],
         col |-> 0, row |-> 0, fg |-> DEFAULT_FG, bg |-> DEFAULT_BG]]

\* Every cell that is not blank on black is drawn by putchar at its place, row
\* by row; the last cell of a row wraps, and that of the last row scrolls.
vt_redraw(fb, vt) ==
    LET Draw(f, p) ==
            LET cell == vt.buffer[p[2]][p[1]]
            IN IF cell[1] = " " /\ cell[3] = 0 THEN f
               ELSE fb_console_putchar(
                        fb_console_set_cursor(fb_console_set_colors(f, cell[2], cell[3]),
                                              p[1], p[2]), cell[1])
        places == [i \in 1 .. Rows * Cols |-> <<(i - 1) % Cols, (i - 1) \div Cols>>]
        Restored(f) == fb_console_set_cursor(fb_console_set_colors(f, vt.fg, vt.bg), vt.col, vt.row)
    IN Restored(FoldLeft(Draw, fb_console_clear(fb), places))
=============================================================================

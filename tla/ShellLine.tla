----------------------------- MODULE ShellLine -----------------------------
(***************************************************************************)
(* How the shell reads a line: the variable table, expand_variables,       *)
(* find_pipe, parse_line and parse_redirects of userland/shell/shell.c.    *)
(*                                                                         *)
(* Text is a sequence of one-character strings.  parse_line works in place *)
(* on the C buffer, a function on 0..n with NUL at n, and its argv holds   *)
(* offsets into it: what a word is is read back from the buffer it leaves. *)
(* Names and values are taken to fit their slots.                          *)
(***************************************************************************)
EXTENDS Naturals, Sequences, SequencesExt

CONSTANTS
    MAX_VARS,      \* slots of the variable table
    MAX_ARGS,      \* words parse_line takes
    output_size    \* the room expand_variables has

NUL == "NUL"
NoText == <<NUL>>      \* a NULL char pointer

----------------------------------------------------------------------------
(* Variables: a table of <<name, value>>, in slot order                    *)

shell_findvar(T, name) == SelectInSeq(T, LAMBDA v : v[1] = name)

shell_getvar(T, name) ==
    LET i == shell_findvar(T, name) IN IF i = 0 THEN NoText ELSE T[i][2]

shell_setvar(T, name, value) ==
    LET i == shell_findvar(T, name)
    IN  CASE i # 0 -> [T EXCEPT ![i][2] = value]
          [] i = 0 /\ Len(T) >= MAX_VARS -> T
          [] OTHER -> Append(T, <<name, value>>)

\* The last variable moves into the slot of the removed one.
shell_unsetvar(T, name) ==
    LET i == shell_findvar(T, name)
    IN  IF i = 0 THEN T ELSE Front([T EXCEPT ![i] = Last(T)])

----------------------------------------------------------------------------
(* The algorithms                                                          *)

Char(s, i) == IF i \in 1..Len(s) THEN s[i] ELSE NUL

is_var_start(c) == c = "a"          \* the one letter of the model's alphabet

\* The characters $NAME takes when its name starts at i.
NameEnd(s, i) == CHOOSE e \in i..(Len(s) + 1) :
    ~is_var_start(Char(s, e)) /\ \A k \in i..(e - 1) : is_var_start(Char(s, k))

\* What the loop appends at ri, and where it goes on; q is "'", "\"" or "" when
\* neither in_single nor in_double is set, e the end of a name after a $ at ri and
\* val its value.
Piece(s, ri, q, e, val) ==
    LET ch   == s[ri]
        next == Char(s, ri + 1)
        Step(out, to, mode) == [out |-> out, ri |-> to, q |-> mode]
    IN  CASE ch \in {"'", "\""} /\ q \in {"", ch} ->
                Step(<<ch>>, ri + 1, IF q = "" THEN ch ELSE "")
          [] ch = "\\" /\ (\/ q = "\"" /\ next \in {"$", "\"", "\\"}
                           \/ q = "" /\ next = "$") ->
                Step(<<next>>, ri + 2, q)
          [] ch = "$" /\ q # "'" /\ next = "$" -> Step(<<"$">>, ri + 2, q)
          [] ch = "$" /\ q # "'" /\ is_var_start(next) ->
                Step(IF val = NoText THEN <<>> ELSE val, e, q)
          [] OTHER -> Step(<<ch>>, ri + 1, q)

PieceAt(T, s, ri, q, e) == Piece(s, ri, q, e, shell_getvar(T, SubSeq(s, ri + 1, e - 1)))

\* The loop, with the output so far.
RECURSIVE Expanded(_, _, _)
Expanded(T, s, p) ==
    IF p.ri > Len(s) THEN p.out
    ELSE LET Further(n) == Expanded(T, s, [n EXCEPT !.out = p.out \o @])
         IN  Further(PieceAt(T, s, p.ri, p.q, NameEnd(s, p.ri + 1)))

\* Every store checks for room: -1 when the text and its NUL do not fit.
Fitted(out) == [ret |-> IF Len(out) > output_size - 1 THEN -1 ELSE 0, out |-> out]

expand_variables(T, s) == Fitted(Expanded(T, s, [out |-> <<>>, ri |-> 1, q |-> ""]))

RECURSIVE FindPipeFrom(_, _, _)
FindPipeFrom(s, i, q) ==
    LET ch == Char(s, i)
    IN  CASE ch = NUL -> 0
          [] ch = "\\" /\ Char(s, i + 1) # NUL /\ q # "'" -> FindPipeFrom(s, i + 2, q)
          [] ch \in {"'", "\""} /\ q \in {"", ch} ->
                FindPipeFrom(s, i + 1, IF q = "" THEN ch ELSE "")
          [] ch = "|" /\ q = "" -> i
          [] OTHER -> FindPipeFrom(s, i + 1, q)

find_pipe(s) == FindPipeFrom(s, 1, "")

Buffer(s) == [i \in 0..Len(s) |-> Char(s, i + 1)]

\* The inner loops: copy up to the closing quote q; the result's ri is where the
\* outer loop's ri++ starts from.
RECURSIVE CopyQuoted(_, _, _, _)
CopyQuoted(line, ri, wi, q) ==
    CASE line[ri] = q -> [line |-> line, ri |-> ri, wi |-> wi]
      [] line[ri] = NUL -> [line |-> line, ri |-> ri - 1, wi |-> wi]
      [] q = "\"" /\ line[ri] = "\\" /\ line[ri + 1] \in {"\"", "\\", "$"} ->
            CopyQuoted([line EXCEPT ![wi] = line[ri + 1]], ri + 2, wi + 1, q)
      [] OTHER -> CopyQuoted([line EXCEPT ![wi] = line[ri]], ri + 1, wi + 1, q)

\* Mutant: the NUL that ends a word is not stepped over.
InToken_overlap(m, ch, copy) ==
        CASE ch = " " -> [m EXCEPT !.line[m.wi] = NUL, !.in_token = FALSE]
          [] ch \in {"'", "\""} ->
                [m EXCEPT !.line = copy.line, !.ri = copy.ri, !.wi = copy.wi]
          [] ch = "\\" /\ m.line[m.ri + 1] # NUL ->
                [m EXCEPT !.line[m.wi] = m.line[m.ri + 1], !.ri = @ + 1, !.wi = @ + 1]
          [] OTHER -> [m EXCEPT !.line[m.wi] = ch, !.wi = @ + 1]

\* One turn of parse_line's loop that is inside a token: ch is the character at ri,
\* copy what follows it copied as far as the next ch.
InToken(m, ch, copy) ==
        CASE ch = " " ->
                [m EXCEPT !.line[m.wi] = NUL, !.wi = @ + 1, !.in_token = FALSE]
          [] ch \in {"'", "\""} ->
                [m EXCEPT !.line = copy.line, !.ri = copy.ri, !.wi = copy.wi]
          [] ch = "\\" /\ m.line[m.ri + 1] # NUL ->
                [m EXCEPT !.line[m.wi] = m.line[m.ri + 1], !.ri = @ + 1, !.wi = @ + 1]
          [] OTHER -> [m EXCEPT !.line[m.wi] = ch, !.wi = @ + 1]

\* A turn of the loop: outside a token, a space is skipped and any other character
\* starts one.
Turn(m, ch) ==
    IF ~m.in_token /\ ch = " " THEN m
    ELSE InToken(IF m.in_token THEN m
                 ELSE [m EXCEPT !.argv = Append(@, m.wi), !.in_token = TRUE],
                 ch, CopyQuoted(m.line, m.ri + 1, m.wi, ch))

RECURSIVE Scan(_)
Scan(m) ==
    LET ch      == m.line[m.ri]
        Next1(n) == Scan([n EXCEPT !.ri = @ + 1])
    IN  IF \/ ch = NUL
           \/ ~m.in_token /\ ch # " " /\ Len(m.argv) >= MAX_ARGS
        THEN m ELSE Next1(Turn(m, ch))

\* The C string at offset i of the buffer.
CString(line, i) ==
    LET e == CHOOSE e \in DOMAIN line :
                 e >= i /\ line[e] = NUL /\ \A k \in i..(e - 1) : line[k] # NUL
    IN  [k \in 1..(e - i) |-> line[i + k - 1]]

ReadBack(line, argv) == [k \in 1..Len(argv) |-> CString(line, argv[k])]
Ended(m) == ReadBack(IF m.in_token THEN [m.line EXCEPT ![m.wi] = NUL] ELSE m.line, m.argv)

parse_line(s) ==
    Ended(Scan([line |-> Buffer(s), ri |-> 0, wi |-> 0, argv |-> <<>>, in_token |-> FALSE]))

\* The operator a word starts with, "" for none, and the file name attached to it.
Operator(w) ==
    CASE Char(w, 1) = ">" /\ Char(w, 2) = ">" -> ">>"
      [] Char(w, 1) = ">" /\ Char(w, 2) # ">" -> ">"
      [] Char(w, 1) = "<" -> "<"
      [] OTHER -> ""

Attached(w) == SubSeq(w, IF Operator(w) = ">>" THEN 3 ELSE 2, Len(w))

\* The loop from word i; r is the result so far, ret -1 for a missing file name.
RECURSIVE RedirectsFrom(_, _, _)
RedirectsFrom(argv, i, r) ==
    LET op   == Operator(argv[i])
        bare == Attached(argv[i]) = <<>>
        j    == IF bare THEN i + 1 ELSE i
        file == IF bare THEN argv[j] ELSE Attached(argv[i])
    IN  CASE i > Len(argv) -> r
          [] i <= Len(argv) /\ op = "" ->
                RedirectsFrom(argv, i + 1, [r EXCEPT !.argv = Append(@, argv[i])])
          [] i <= Len(argv) /\ op # "" /\ j > Len(argv) -> [r EXCEPT !.ret = -1]
          [] i <= Len(argv) /\ op = "<" /\ j <= Len(argv) ->
                RedirectsFrom(argv, j + 1, [r EXCEPT !.in_file = file])
          [] OTHER ->
                RedirectsFrom(argv, j + 1,
                              [r EXCEPT !.out_file = file, !.append = op = ">>"])

parse_redirects(argv) ==
    RedirectsFrom(argv, 1, [ret |-> 0, argv |-> <<>>, in_file |-> NoText,
                            out_file |-> NoText, append |-> FALSE])

\* main: a line whose last character but spaces is & runs in the background.
Trimmed(s) == LET k == SelectLastInSeq(s, LAMBDA c : c # " ") IN SubSeq(s, 1, k)
IsBackground(s) == Trimmed(s) # <<>> /\ Last(Trimmed(s)) = "&"

\* How main runs a line, and the words of its command or of its two.
Kind(e, bar) ==
    CASE e.ret < 0 -> "error"
      [] e.ret = 0 /\ IsBackground(e.out) -> "background"
      [] e.ret = 0 /\ ~IsBackground(e.out) /\ bar # 0 -> "pipe"
      [] OTHER -> "simple"

Parts(kind, out, bar) ==
    CASE kind = "error" -> <<>>
      [] kind = "background" -> <<Front(Trimmed(out))>>
      [] kind = "pipe" -> <<SubSeq(out, 1, bar - 1), SubSeq(out, bar + 1, Len(out))>>
      [] kind = "simple" -> <<out>>

Parsed(kind, parts) ==
    [kind |-> kind, argv |-> [k \in DOMAIN parts |-> parse_line(parts[k])]]

Command(T, s) ==
    LET Taken(kind, out, bar) == Parsed(kind, Parts(kind, out, bar))
        Split(e, bar) == Taken(Kind(e, bar), e.out, bar)
        Of(e) == Split(e, find_pipe(e.out))
    IN  Of(expand_variables(T, s))

----------------------------------------------------------------------------
(* What a line means: a definition by position instead of by scanning      *)

\* The quoting in force before each character, for a line without a backslash
\* or with: an escaped character changes nothing.
Quoting(s) ==
    LET q[i \in 1..(Len(s) + 1)] ==
            IF i = 1 THEN [q |-> "", esc |-> FALSE]
            ELSE LET p == q[i - 1]
                     c == s[i - 1]
                 IN  CASE p.esc -> [q |-> p.q, esc |-> FALSE]
                       [] ~p.esc /\ c = "\\" /\ i <= Len(s)
                             /\ (p.q = "" \/ (p.q = "\"" /\ s[i] \in {"\"", "\\", "$"})) ->
                             [q |-> p.q, esc |-> TRUE]
                       [] ~p.esc /\ c \in {"'", "\""} /\ p.q \in {"", c} ->
                             [q |-> IF p.q = "" THEN c ELSE "", esc |-> FALSE]
                       [] OTHER -> [q |-> p.q, esc |-> FALSE]
    IN  q

\* Characters that are markup, and characters that separate words.
Markup(s, q, i) ==
    /\ ~q[i].esc
    /\ \/ s[i] \in {"'", "\""} /\ q[i].q \in {"", s[i]}
       \/ q[i + 1].esc
Separator(s, q, i) == s[i] = " " /\ q[i] = [q |-> "", esc |-> FALSE]

\* The maximal stretches without a separator, less their markup.
WordsOf(s, q) ==
    LET Seps == {0, Len(s) + 1} \cup {i \in 1..Len(s) : Separator(s, q, i)}
        Starts == {i \in 0..Len(s) : i \in Seps /\ i + 1 \notin Seps}
        End(i) == CHOOSE e \in Seps : e > i /\ \A k \in (i + 1)..(e - 1) : k \notin Seps
        Word(i) == LET pos == SetToSortSeq({k \in (i + 1)..(End(i) - 1) : ~Markup(s, q, k)}, <)
                   IN  [k \in 1..Len(pos) |-> s[pos[k]]]
        from == SetToSortSeq(Starts, <)
    IN  [k \in 1..Len(from) |-> Word(from[k])]

Words(s) == WordsOf(s, Quoting(s))

UnquotedBars(s) ==
    LET q == Quoting(s) IN {i \in 1..Len(s) : s[i] = "|" /\ q[i] = [q |-> "", esc |-> FALSE]}

\* Words that are redirection operators, when a bare one takes the next word.
Operators(argv) ==
    LET op[i \in 0..Len(argv)] ==
            /\ i > 0 /\ Operator(argv[i]) # ""
            /\ ~(op[i - 1] /\ Attached(argv[i - 1]) = <<>>)
    IN  {i \in 1..Len(argv) : op[i]}

\* parse_line splits the line at its unquoted spaces, takes the first MAX_ARGS
\* words without their quotes and escapes, and compacts them in the one buffer
\* without a word running into another.
WordsParsed(argv, words) ==
    argv = SubSeq(words, 1, IF Len(words) < MAX_ARGS THEN Len(words) ELSE MAX_ARGS)

\* find_pipe's "first unquoted '|'" and parse_line agree on what is quoted.
PipeFound(s, bars) == find_pipe(s) = IF bars = {} THEN 0 ELSE Min(bars)

\* parse_redirects takes the operators and their file names out of the words: the
\* last of each kind decides, and only a bare operator at the end is an error.
RedirectsTaken(argv, r, ops) ==
    LET Bare(i) == Attached(argv[i]) = <<>>
        taken   == ops \cup {i + 1 : i \in {j \in ops : Bare(j)}}
        rest    == SetToSortSeq(1..Len(argv) \ taken, <)
        outs    == {i \in ops : Operator(argv[i]) # "<"}
        File(S) == IF S = {} THEN NoText
                   ELSE LET i == Max(S) IN IF Bare(i) THEN argv[i + 1] ELSE Attached(argv[i])
    IN  IF Len(argv) + 1 \in taken THEN r.ret = -1
        ELSE r = [ret |-> 0, argv |-> [k \in 1..Len(rest) |-> argv[rest[k]]],
                  in_file |-> File(ops \ outs), out_file |-> File(outs),
                  append |-> outs # {} /\ Operator(argv[Max(outs)]) = ">>"]

\* Quotes protect what they enclose, through expansion, the tests for & and |, and
\* the splitting into words: anything between single quotes, and anything but a
\* quote, a backslash or a $ between double quotes, is one word of a simple
\* command.  So is a variable between double quotes, whatever its value holds.
QuotesProtect(T, t, val) ==
    LET IsName == t # <<>> /\ \A i \in 1..Len(t) : is_var_start(t[i])
        cases == {c \in {<<<<"'">> \o t \o <<"'">>, t, "'" \notin Range(t)>>,
                         <<<<"\"">> \o t \o <<"\"">>, t, Range(t) \cap {"\"", "\\", "$"} = {}>>,
                         <<<<"\"", "$">> \o t \o <<"\"">>, val, IsName>>} : c[3]}
    IN  \A c \in cases : Command(T, c[1]) \in
            {[kind |-> "simple", argv |-> <<<<c[2]>>>>], [kind |-> "error", argv |-> <<>>]}
============================================================================

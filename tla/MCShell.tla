------------------------------ MODULE MCShell ------------------------------
(***************************************************************************)
(* The shell in three scopes: "jobs", two children and every command;      *)
(* "full", three background commands and a table for two; and "line", the  *)
(* lines that can be typed and the variables that can be set.              *)
(***************************************************************************)
EXTENDS Shell, ShellLine

Alphabet == {"a", " ", "'", "\"", "\\", "$", "|", ">", "<", "&"}
Names    == {<<"a">>, <<"a", "a">>, <<"a", "a", "a">>}
Values   == {<<>>, <<"b">>, <<"b", " ", "b">>}
MaxLine  == 4       \* bound on a line typed with no variable set,
MaxLineV == 2       \* and with some

VARIABLES
    scope,
    line,      \* the line typed so far
    var,       \* the shell's variable table
    env        \* what the variables should be: a name's value, NoText when unset

lvars == <<line, var, env>>

InScope ==
    CASE scope = "jobs" -> next_pid <= 4
      [] scope = "full" -> /\ sh.pc \in {"fork", "exit"} => sh.cmd = "background"
                           /\ \A p \in Proc : SIGTSTP \notin proc[p].pending
      [] scope = "line" -> TRUE

Type == \E c \in Alphabet :
    /\ Len(line) < IF var = <<>> THEN MaxLine ELSE MaxLineV
    /\ line' = Append(line, c)
    /\ UNCHANGED <<var, env>>

Enter == line # <<>> /\ line' = <<>> /\ UNCHANGED <<var, env>>

Assign == \E n \in Names, v \in Values :
    /\ line = <<>> /\ var' = shell_setvar(var, n, v)
    /\ env' = IF env[n] = NoText /\ Cardinality({m \in Names : env[m] # NoText}) = MAX_VARS
              THEN env ELSE [env EXCEPT ![n] = v]
    /\ UNCHANGED line

Unset == \E n \in Names :
    /\ line = <<>> /\ var' = shell_unsetvar(var, n)
    /\ env' = [env EXCEPT ![n] = NoText]
    /\ UNCHANGED line

MCInit ==
    /\ ShellInit /\ scope \in {"jobs", "full", "line"}
    /\ line = <<>> /\ var = <<>> /\ env = [n \in Names |-> NoText]

\* Nothing is claimed behind a lapse or the shell's exit: there the behaviour stays.
Over == lapse \/ proc[1].state = "ZOMBIE"

MCNext ==
    /\ UNCHANGED scope
    /\ \/ scope # "line" /\ ~Over /\ ShellNext /\ InScope' /\ UNCHANGED lvars
       \/ Over /\ UNCHANGED <<allvars, lvars>>
       \/ scope = "line" /\ (Type \/ Enter \/ Assign \/ Unset) /\ UNCHANGED allvars

\* The fairness of ShellSpec: in no scope does InScope disable the last step of
\* the shell or of a child.
MCSpec ==
    /\ MCInit /\ [][MCNext]_<<allvars, lvars, scope>>
    /\ WF_allvars(ShellStep)
    /\ WF_allvars(\E c \in Kid : kid_start(c) \/ kid_setpgid(c) \/ kid_exit(c))

\* A typed line is understood as its quoting says, and a variable has the value it
\* was given last, whatever was set and unset around it: shell_unsetvar moves the
\* last variable of the table into the slot it frees.
LineUnderstood == scope = "line" =>
    /\ \A n \in Names : shell_getvar(var, n) = env[n]
    /\ \A argv \in {parse_line(line)} :
          /\ WordsParsed(argv, Words(line))
          /\ RedirectsTaken(argv, parse_redirects(argv), Operators(argv))
    /\ PipeFound(line, UnquotedBars(line))
    /\ QuotesProtect(var, line, IF line \in Names /\ env[line] # NoText THEN env[line] ELSE <<>>)
=============================================================================

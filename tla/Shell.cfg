\* Two children of the shell with every command, or three with a table for two
\* jobs; lines of up to four characters and two variables.
SPECIFICATION MCSpec
CONSTANTS
    MaxProc = 4
    Sig = {18, 20}
    Caught = {20}
    Group = {0}
    Status = {0}
    MAX_JOBS = 2
    MAX_VARS = 2
    MAX_ARGS = 2
    output_size = 6
INVARIANTS
    JobsTracked
    

    

----------------------------- MODULE MCProfile -----------------------------
(***************************************************************************)
(* Profile in eleven sequences of commands, each of which may start while  *)
(* those before it still run, with one failed file operation and one death *)
(* of a process anywhere.                                                  *)
(***************************************************************************)
EXTENDS Profile, TLC

\* In a profile that is there, or in an empty directory with a keychain that
\* refuses once.
There == [begun |-> TRUE, faults |-> 1, crashes |-> 1, commits |-> 1, refusals |-> 0,
          wipes |-> FALSE, spoils |-> FALSE]
Empty == [There EXCEPT !.begun = FALSE, !.refusals = 1]

Run(commands, l) == [run |-> commands] @@ l

MCProfiles == {
    Run(<<"serve", "serve", "serve">>, There),
    Run(<<"serve", "serve">>, [There EXCEPT !.commits = 3, !.spoils = TRUE]),
    Run(<<"serve", "stop", "serve">>, [There EXCEPT !.wipes = TRUE]),
    Run(<<"serve", "rotate", "serve", "serve">>, [There EXCEPT !.faults = 0, !.crashes = 0]),
    Run(<<"rotate", "serve">>, There),
    Run(<<"revoke", "rotate", "serve">>, There),
    Run(<<"export", "wipe", "import", "serve">>, [There EXCEPT !.refusals = 1]),
    Run(<<"wipe", "init", "serve">>, [There EXCEPT !.refusals = 1]),
    Run(<<"setup", "setup", "serve">>, Empty),
    Run(<<"init", "enroll", "serve">>, Empty),
    Run(<<"link", "enroll", "rotate", "wipe">>, Empty)}
=============================================================================

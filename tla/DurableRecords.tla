--------------------------- MODULE DurableRecords ---------------------------
(***************************************************************************)
(* What the encrypted store promises its callers: one durable set of       *)
(* records that changes only through an operation in progress, and is      *)
(* either what the last answer said or what the operation in progress      *)
(* wants.  An operation answered Ok is durable; one answered Err left      *)
(* nothing; one cut off by a crash happened completely or not at all.      *)
(***************************************************************************)
CONSTANTS
    Contents,   \* sets of records
    Empty,      \* the set without records
    Idle        \* no operation in progress

VARIABLES
    durable,    \* what an open would read
    answered,   \* the records after the last answer
    wanted      \* the records the operation in progress wants, or Idle

absVars == <<durable, answered, wanted>>

AbsInit ==
    /\ durable \in Contents /\ answered = durable /\ wanted = Idle

Begin(c) ==
    /\ wanted = Idle /\ wanted' = c
    /\ UNCHANGED <<durable, answered>>

\* While the operation runs the records may be either.
Settle ==
    /\ wanted # Idle /\ durable' \in {answered, wanted}
    /\ UNCHANGED <<answered, wanted>>

AnswerOk ==
    /\ wanted # Idle /\ durable = wanted
    /\ answered' = wanted /\ wanted' = Idle /\ UNCHANGED durable

AnswerErr ==
    /\ wanted # Idle /\ durable = answered
    /\ wanted' = Idle /\ UNCHANGED <<durable, answered>>

Interrupted ==
    /\ answered' = durable /\ wanted' = Idle /\ UNCHANGED durable

\* The profile is wiped.
Erase == durable' = Empty /\ answered' = Empty /\ wanted' = Idle

AbsNext ==
    \/ \E c \in Contents : Begin(c)
    \/ Settle \/ AnswerOk \/ AnswerErr \/ Interrupted \/ Erase

AbsSpec == AbsInit /\ [][AbsNext]_absVars
=============================================================================

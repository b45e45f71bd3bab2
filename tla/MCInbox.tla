------------------------------ MODULE MCInbox ------------------------------
\* Two envelopes of one conversation, and a session nothing arrives for.
EXTENDS Inbox

CONSTANTS c1, c2

\* Retain keeps what a filter of the sequence keeps.
ASSUME RetainFilters ==
    \A q \in Queues, ids \in SUBSET Envelopes :
        Retain(q, ids) = SelectSeq(q, LAMBDA e : e \notin ids)

MCConversationOf == [e \in Envelopes |-> c1]
=============================================================================

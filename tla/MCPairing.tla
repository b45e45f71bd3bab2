------------------------------ MODULE MCPairing ------------------------------
EXTENDS Pairing

Invite(a, d) == [account |-> a, device |-> d]

\* Account a from two devices, and account b.
MCInvites == {Invite("a", 1), Invite("a", 2), Invite("b", 1)}

MCExpiring == {Invite("a", 1)}
=============================================================================

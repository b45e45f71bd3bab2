----------------------------- MODULE Rendezvous -----------------------------
(***************************************************************************)
(* Two daemons that pair through an invite code of a relay, and the MLS    *)
(* conversation that comes out of it.  The handlers are those of           *)
(* apps/daemon/src/http_server.rs (create, consume, auto-sync, approve and *)
(* complete-session), mls_routes.rs and authority_routes.rs (devices/      *)
(* revoke and contacts/delete); the relay's side is apps/relay/src/main.rs *)
(* (create_invite, consume_invite and pairing).                            *)
(*                                                                         *)
(* A handler that calls the relay gives its mutexes back first.  Each such *)
(* handler is two actions, Begin and End, with a task between them that    *)
(* holds what it read; other handlers of the same daemon run in between.   *)
(* A relay call sits in the action next to it that reads or writes what    *)
(* the call is about, since nobody else can tell the two apart.            *)
(*                                                                         *)
(* An invite code is made together with a random conversation identifier,  *)
(* so a code stands for both.  Guards that only depend on what the browser *)
(* sends or on a blocked contact are left out: such a request changes      *)
(* nothing.  Which conversation a contact is bound to is not kept: the     *)
(* browser may bind any (contacts/bind-conversation).                      *)
(***************************************************************************)
EXTENDS MlsSession, FiniteSets

CONSTANTS
    Daemons,        \* the daemons, each with an account and a device
    Others,         \* further devices, which have no daemon in the model
    Codes,          \* invite codes, with their conversations
    None,           \* no peer, no conversation
    MaxResponses,   \* relay: responses kept under a code (32)
    Profiles        \* the bounds of a behaviour, of which it takes one:
                    \*   codes    invite codes that are made
                    \*   tasks    requests of a daemon between Begin and End
                    \*   crashes  restarts of daemons and of the relay
                    \*   faults   failed commits of the daemons' stores
                    \*   calls    relay calls that do not succeed
                    \*   expired  invites and peers that expire
                    \*   commits  MLS commits and device removals
                    \*   sends    messages
                    \*   deletes  sessions deleted with a contact

\* What a daemon knows of a peer: a verified invite or a key package response.
Peers == [account : Daemons, device : {"device-1"}, conversation : Codes]

Peer(d, c) == [account |-> d, device |-> "device-1", conversation |-> c]

P(d) == INSTANCE PairingSession
        WITH Invites <- Peers, LocalAccount <- d, NoPeer <- None

VARIABLES
    pairing, storedPairing,   \* per daemon: the session and its record
    sessions, stored,         \* per daemon and conversation: the MLS session
                              \* and its checkpoint
    registry, storedRegistry, \* per daemon: the devices it has revoked
    contacts, storedContacts, \* per daemon: the accounts it has as contacts
    codes,                    \* pending_rendezvous_codes
    conversation,             \* pending_conversation_id
    packages,                 \* pending_key_packages
    tasks,                    \* per daemon: requests between Begin and End
    up,                       \* the daemons that run
    relay, relayFile,         \* the invites of the relay and their file
    expired,                  \* peers whose expires_at is past
    limits,                   \* the profile of the behaviour
    crashes, faults, relayFaults, commits,
    opened,                   \* the codes that were answered consumed
    sent, read,               \* messages that left, and that were opened
    removals,                 \* removal commits that left
    misread,                  \* per daemon: messages that were opened and
                              \* answered with an error
    deleted                   \* the checkpoints that went with a contact

pair == <<pairing, storedPairing>>
mls == <<sessions, stored>>
devices == <<registry, storedRegistry>>
directory == <<contacts, storedContacts>>
pending == <<codes, conversation, packages>>
relayState == <<relay, relayFile, relayFaults>>
log == <<opened, sent, read, removals, misread, deleted>>
vars == <<pair, mls, devices, directory, pending, tasks, up, relayState, expired,
          limits, crashes, faults, commits, log>>

KeyPackages == {KeyPackage(d, c) : d \in Daemons, c \in Codes}

Session ==
    [group : Daemons \X Codes, epoch : Nat, members : SUBSET (Daemons \cup Others),
     gen : Nat, seen : SUBSET (Daemons \X Nat), packages : SUBSET KeyPackages,
     poisoned : BOOLEAN]

ASSUME RendezvousAssumption ==
    None \notin Daemons \cup Codes \cup Peers /\ NoSession \notin Session

Removal == [group : Daemons \X Codes, epoch : Nat, from : Daemons,
            members : SUBSET (Daemons \cup Others), next : Nat]

Message == [group : Daemons \X Codes, epoch : Nat, from : Daemons, gen : Nat]

\* A request between Begin and End: what it has read under the mutexes.
Task ==
    [op : {"create", "consume", "sync", "approve", "complete"}, code : Codes,
     conversation : Codes \cup {None}, packages : Seq(KeyPackages)]

NewTask(op, c, conv, pkgs) ==
    [op |-> op, code |-> c, conversation |-> conv, packages |-> pkgs]

Response == [kind : {"key-package", "welcome"}, conversation : Codes, package : KeyPackages,
             group : Daemons \X Codes, epoch : Nat, members : SUBSET (Daemons \cup Others)]

PackageResponse(d, c) ==
    [kind |-> "key-package", conversation |-> c, package |-> KeyPackage(d, c),
     group |-> <<d, c>>, epoch |-> 0, members |-> {}]

WelcomeResponse(c, w) ==
    [kind |-> "welcome", conversation |-> c, package |-> w.package,
     group |-> w.group, epoch |-> w.epoch, members |-> w.members]

Invite == [status : {"none", "open", "consumed"}, owner : Daemons \cup {None},
           responses : Seq(Response)]

\* The pairing, the sessions, the pending lists, the relay's invites and the
\* messages have the types of their fields in the code.
TypeOK ==
    /\ \A d \in Daemons : pairing[d] \in P(d)!Session /\ storedPairing[d] \in P(d)!Session
    /\ sessions \in [Daemons -> [Codes -> Session \cup {NoSession}]]
    /\ stored \in [Daemons -> [Codes -> Session \cup {NoSession}]]
    /\ registry \in [Daemons -> SUBSET Others] /\ storedRegistry \in [Daemons -> SUBSET Others]
    /\ codes \in [Daemons -> Seq(Codes)] /\ conversation \in [Daemons -> Codes \cup {None}]
    /\ packages \in [Daemons -> Seq(KeyPackages)] /\ tasks \in [Daemons -> SUBSET Task]
    /\ relay \in [Codes -> Invite] /\ relayFile \in [Codes -> Invite]
    /\ limits \in Profiles /\ up \subseteq Daemons /\ expired \subseteq Peers
    /\ {crashes, faults, relayFaults, commits} \subseteq Nat
    /\ opened \in Seq(Codes) /\ sent \in Seq(Message) /\ read \in [Daemons -> Seq(Message)]
    /\ removals \subseteq Removal /\ misread \in [Daemons -> SUBSET Message]
    /\ contacts \in [Daemons -> SUBSET Daemons] /\ storedContacts \in [Daemons -> SUBSET Daemons]
    /\ deleted \subseteq Daemons \X Codes

Init ==
    /\ pairing = [d \in Daemons |-> P(d)!NewSession] /\ storedPairing = pairing
    /\ sessions = [d \in Daemons |-> [c \in Codes |-> NoSession]] /\ stored = sessions
    /\ registry = [d \in Daemons |-> {}] /\ storedRegistry = registry
    /\ contacts = [d \in Daemons |-> {}] /\ storedContacts = contacts
    /\ codes = [d \in Daemons |-> <<>>] /\ packages = codes
    /\ conversation = [d \in Daemons |-> None]
    /\ tasks = [d \in Daemons |-> {}] /\ up = Daemons
    /\ relay = [c \in Codes |-> [status |-> "none", owner |-> None, responses |-> <<>>]]
    /\ relayFile = relay /\ expired = {}
    /\ limits \in Profiles
    /\ crashes = 0 /\ faults = 0 /\ relayFaults = 0 /\ commits = 0
    /\ opened = <<>> /\ sent = <<>> /\ removals = {} /\ deleted = {}
    /\ read = [d \in Daemons |-> <<>>] /\ misread = [d \in Daemons |-> {}]

-----------------------------------------------------------------------------
\* Commits, tasks and relay calls

\* A commit of a store either succeeds or leaves its records as they were.
StoreCall(ok) ==
    /\ ~ok => faults < limits.faults
    /\ faults' = IF ok THEN faults ELSE faults + 1

\* The pairing changes in memory first and stays changed when the commit fails.
ChangePairing(d, p, ok) ==
    /\ pairing' = [pairing EXCEPT ![d] = p]
    /\ storedPairing' = IF ok THEN [storedPairing EXCEPT ![d] = p] ELSE storedPairing

\* Slip: a session that could not be saved stays in use.
SaveSessionKeepsUsing(d, c, s, ok) ==
    /\ sessions' = [sessions EXCEPT ![d][c] = s]
    /\ stored' = IF ok THEN [stored EXCEPT ![d][c] = s] ELSE stored

\* persist_or_poison, and the batches that carry a checkpoint.
SaveSession(d, c, s, ok) ==
    /\ sessions' = [sessions EXCEPT ![d][c] = IF ok THEN s ELSE Poison(s)]
    /\ stored' = IF ok THEN [stored EXCEPT ![d][c] = s] ELSE stored

\* A session that is not in the catalog yet enters it only when it is saved.
NewSession(d, c, s, ok) ==
    /\ sessions' = IF ok THEN [sessions EXCEPT ![d][c] = s] ELSE sessions
    /\ stored' = IF ok THEN [stored EXCEPT ![d][c] = s] ELSE stored

\* register_approved_contact: the directory too changes in memory first.
RegisterContact(d, a, ok) ==
    /\ contacts' = [contacts EXCEPT ![d] = @ \cup {a}]
    /\ storedContacts' = IF ok THEN [storedContacts EXCEPT ![d] = contacts'[d]]
                         ELSE storedContacts

Begins(d, t) ==
    /\ t \notin tasks[d] /\ Cardinality(tasks[d]) < limits.tasks
    /\ tasks' = [tasks EXCEPT ![d] = @ \cup {t}]

Ends(d, t) == tasks' = [tasks EXCEPT ![d] = @ \ {t}]

First(i, positions) == i \in positions /\ \A j \in positions : i <= j

Pending(d, c) == {i \in DOMAIN codes[d] : codes[d][i] = c}

IsPending(d, c) == Pending(d, c) # {}

\* The code leaves the pending list, if it is there.
Forget(d, c) ==
    \/ \E i \in Pending(d, c) :
         /\ First(i, Pending(d, c))
         /\ codes' = [codes EXCEPT ![d] = SubSeq(@, 1, i - 1) \o SubSeq(@, i + 1, Len(@))]
    \/ ~IsPending(d, c) /\ UNCHANGED codes

\* The relay's expires_at of a code is that of the invite under it.
CodeExpired(c) == relay[c].owner # None /\ Peer(relay[c].owner, c) \in expired

\* A call that would change the invites of the relay.  It is refused, or does
\* not arrive; it takes effect but the file is not written, which answers an
\* error; it takes effect and the answer is lost; or it is accepted.
Outcomes == {"accepted", "refused", "unsaved", "lost"}

RelayCall(invites, outcome) ==
    /\ outcome # "accepted" => relayFaults < limits.calls
    /\ relayFaults' = IF outcome = "accepted" THEN relayFaults ELSE relayFaults + 1
    /\ relay' = IF outcome = "refused" THEN relay ELSE invites
    /\ relayFile' = IF outcome \in {"accepted", "lost"} THEN invites ELSE relayFile

\* pairing of the relay: a response may be read or left under the code.
CodeServes(c) == relay[c].status = "consumed" /\ ~CodeExpired(c)

Room(c) == Len(relay[c].responses) < MaxResponses

Left(c, responses) == [relay EXCEPT ![c].responses = @ \o responses]

-----------------------------------------------------------------------------
\* The pairing ceremony

\* A code is random, so each is made once.
Made(c) ==
    relay[c].status # "none" \/ \E d \in Daemons : \E t \in tasks[d] : t.code = c

\* invites/create up to the relay call: mark_invite_created is saved.
CreateBegin(d, c) ==
    /\ d \in up /\ ~Made(c) /\ Cardinality({x \in Codes : Made(x)}) < limits.codes
    /\ P(d)!CanMarkInviteCreated(pairing[d])
    /\ \E ok \in BOOLEAN :
         /\ StoreCall(ok)
         /\ ChangePairing(d, P(d)!MarkInviteCreated(pairing[d]), ok)
         /\ IF ok THEN Begins(d, NewTask("create", c, c, <<>>)) ELSE UNCHANGED tasks
    /\ UNCHANGED <<limits, mls, devices, directory, pending, up, relayState, expired, crashes, commits, log>>

\* create_invite of the relay, then the founding session of the conversation,
\* then the pending lists.  Without an answer the code is never known.
CreateEnd(d, t) ==
    /\ d \in up /\ t \in tasks[d] /\ t.op = "create"
    /\ Ends(d, t)
    /\ \E outcome \in Outcomes, ok \in BOOLEAN :
         /\ RelayCall([relay EXCEPT ![t.code] = [@ EXCEPT !.status = "open", !.owner = d]], outcome)
         /\ outcome # "accepted" => ok
         /\ StoreCall(ok)
         /\ IF outcome = "accepted"
            THEN NewSession(d, t.code, CreateGroup(d, t.code), ok)
            ELSE UNCHANGED mls
         /\ IF outcome = "accepted" /\ ok
            THEN /\ codes' = [codes EXCEPT ![d] = Append(@, t.code)]
                 /\ conversation' = [conversation EXCEPT ![d] = t.code]
            ELSE UNCHANGED <<codes, conversation>>
    /\ UNCHANGED <<limits, pair, devices, directory, packages, up, expired, crashes, commits, log>>

\* Slip: consume_invite of the relay does not see that the code is used.
CodeOpenTwice(c) == relay[c].status # "none" /\ ~CodeExpired(c)

CodeOpen(c) == relay[c].status = "open" /\ ~CodeExpired(c)

\* invites/consume up to the staged peer.  The code is used up first; what
\* fails afterwards, as for a code of its own, does not give it back.
ConsumeBegin(d, c) ==
    LET host == Peer(relay[c].owner, c)
        accepted == P(d)!CanVerifyPeer(pairing[d], host, expired)
    IN  /\ d \in up /\ CodeOpen(c)
        /\ \E outcome \in Outcomes, ok \in BOOLEAN :
             /\ RelayCall([relay EXCEPT ![c].status = "consumed"], outcome)
             /\ outcome # "accepted" \/ ~accepted => ok
             /\ StoreCall(ok)
             /\ opened' = IF outcome = "accepted" THEN Append(opened, c) ELSE opened
             /\ IF outcome = "accepted" /\ accepted
                THEN ChangePairing(d, P(d)!VerifyPeer(pairing[d], host), ok)
                ELSE UNCHANGED pair
             /\ IF outcome = "accepted" /\ accepted /\ ok
                THEN Begins(d, NewTask("consume", c, c, <<>>))
                ELSE UNCHANGED tasks
        /\ UNCHANGED <<limits, mls, devices, directory, pending, up, expired, crashes, commits,
                       sent, read, removals, misread, deleted>>

\* The rest of invites/consume: prepare, the key package left at the relay,
\* the pending lists.
ConsumeEnd(d, t) ==
    LET c == t.code IN
    /\ d \in up /\ t \in tasks[d] /\ t.op = "consume"
    /\ Ends(d, t)
    /\ \E outcome \in Outcomes, ok \in BOOLEAN :
         LET prepared == sessions[d][c] = NoSession /\ ok
             taken == prepared /\ CodeServes(c) /\ Room(c)
         IN  /\ sessions[d][c] # NoSession => ok
             /\ StoreCall(ok)
             /\ NewSession(d, c, Prepare(d, c), prepared)
             /\ IF taken
                THEN RelayCall(Left(c, <<PackageResponse(d, c)>>), outcome)
                ELSE outcome = "refused" /\ UNCHANGED relayState
             /\ IF taken /\ outcome = "accepted"
                THEN /\ codes' = [codes EXCEPT ![d] = Append(@, c)]
                     /\ conversation' = [conversation EXCEPT ![d] = c]
                ELSE UNCHANGED <<codes, conversation>>
    /\ UNCHANGED <<limits, pair, devices, directory, packages, up, expired, crashes, commits, log>>

\* pairing/auto-sync up to the relay call.  With a package pending it answers
\* at once.
SyncBegin(d, c) ==
    /\ d \in up /\ IsPending(d, c) /\ packages[d] = <<>>
    /\ Begins(d, NewTask("sync", c, conversation[d], <<>>))
    /\ UNCHANGED <<limits, pair, mls, devices, directory, pending, up, relayState, expired,
                   crashes, faults, commits, log>>

Offers(c) ==
    {i \in DOMAIN relay[c].responses : relay[c].responses[i].kind = "key-package"}

\* The rest of pairing/auto-sync: the first key package under the code, if it
\* is for the conversation that was pending and its peer can be staged.
SyncEnd(d, t) ==
    LET offer(i) == relay[t.code].responses[i]
        peer(i) == Peer(offer(i).package.owner, offer(i).conversation)
        Found(i) == /\ CodeServes(t.code) /\ First(i, Offers(t.code))
                    /\ offer(i).conversation = t.conversation /\ offer(i).package.owner # d
                    /\ P(d)!CanVerifyPeer(pairing[d], peer(i), expired \ {peer(i)})
    IN  /\ d \in up /\ t \in tasks[d] /\ t.op = "sync"
        /\ Ends(d, t)
        /\ \/ \E i \in Offers(t.code), ok \in BOOLEAN :
                /\ Found(i) /\ StoreCall(ok)
                /\ ChangePairing(d, P(d)!VerifyPeer(pairing[d], peer(i)), ok)
                /\ expired' = expired \ {peer(i)}
                /\ packages' = IF ok THEN [packages EXCEPT ![d] = Append(@, offer(i).package)]
                               ELSE packages
           \/ /\ \A i \in Offers(t.code) : ~Found(i)
              /\ StoreCall(TRUE) /\ UNCHANGED <<pair, expired, packages>>
        /\ UNCHANGED <<limits, mls, devices, directory, codes, conversation, up, relayState, crashes, commits, log>>

\* pairing/safety/confirm with the number of the staged peer.
Confirm(d) ==
    /\ d \in up /\ pairing[d].peer # None
    /\ P(d)!CanConfirmSafety(pairing[d], pairing[d].peer)
    /\ \E ok \in BOOLEAN :
         StoreCall(ok) /\ ChangePairing(d, P(d)!ConfirmSafety(pairing[d]), ok)
    /\ UNCHANGED <<limits, mls, devices, directory, pending, tasks, up, relayState, expired, crashes, commits, log>>

\* pairing/reject: the pending lists stay.
RejectPeer(d) ==
    /\ d \in up /\ P(d)!CanReject(pairing[d])
    /\ \E ok \in BOOLEAN :
         StoreCall(ok) /\ ChangePairing(d, P(d)!Reject(pairing[d]), ok)
    /\ UNCHANGED <<limits, mls, devices, directory, pending, tasks, up, relayState, expired, crashes, commits, log>>

Accepted(d) ==
    \/ P(d)!CanApprove(pairing[d], expired)
    \/ P(d)!ApprovedBefore(pairing[d], expired)

\* pairing/approve up to the release of the mutexes: the packages, the last
\* pending code and the pending conversation are read together.  The contact
\* is saved by a second commit.
ApproveBegin(d) ==
    LET serves == packages[d] # <<>> /\ codes[d] # <<>> /\ conversation[d] # None IN
    /\ d \in up /\ Accepted(d)
    /\ \E ok \in BOOLEAN, contact \in BOOLEAN :
         /\ ~ok => contact
         /\ StoreCall(ok /\ contact)
         /\ ChangePairing(d, P(d)!Approve(pairing[d]), ok)
         /\ IF ok THEN RegisterContact(d, pairing[d].peer.account, contact)
            ELSE UNCHANGED directory
         /\ IF ok /\ contact /\ serves
            THEN Begins(d, NewTask("approve", codes[d][Len(codes[d])], conversation[d], packages[d]))
            ELSE UNCHANGED tasks
    /\ UNCHANGED <<limits, mls, devices, pending, up, relayState, expired, crashes, commits, log>>

\* The rest of pairing/approve.  The packages are added one commit and one
\* save at a time; a package that cannot be added or saved ends the request,
\* and the welcomes made before it are lost.  Then the welcomes are left under
\* the code one by one; the first that fails ends the request.  Only after all
\* of them are the pending packages cleared.
ApproveEnd(d, t) ==
    LET s == sessions[d][t.conversation]
        all == Len(t.packages)
        welcomes == Welcomes(s, t.packages, commits)
        Posted(k) == Left(t.code, [i \in 1..k |-> WelcomeResponse(t.conversation, welcomes[i])])
        free == IF CodeServes(t.code) THEN MaxResponses - Len(relay[t.code].responses) ELSE 0
    IN  /\ d \in up /\ t \in tasks[d] /\ t.op = "approve"
        /\ Ends(d, t)
        /\ \/ \E n \in 0..(all - 1), ok \in BOOLEAN :
                /\ \A i \in 1..n : CanAddNext(d, s, t.packages, i)
                /\ ok = ~CanAddNext(d, s, t.packages, n + 1)
                /\ StoreCall(ok)
                /\ commits' = IF ok THEN commits + n ELSE commits + n + 1
                /\ sessions' = [sessions EXCEPT ![d][t.conversation] =
                                  IF ok THEN AddMembers(s, t.packages, n, commits)
                                  ELSE Poison(AddMembers(s, t.packages, n + 1, commits))]
                /\ stored' = IF n = 0 THEN stored
                             ELSE [stored EXCEPT ![d][t.conversation] =
                                     AddMembers(s, t.packages, n, commits)]
                /\ UNCHANGED <<relayState, codes, packages>>
           \/ \E k \in 0..all, outcome \in Outcomes :
                /\ \A i \in 1..all : CanAddNext(d, s, t.packages, i)
                /\ StoreCall(TRUE)
                /\ commits' = commits + all
                /\ SaveSession(d, t.conversation, AddMembers(s, t.packages, all, commits), TRUE)
                /\ k <= free
                /\ (outcome = "accepted") = (k = all)
                /\ k = free /\ k < all => outcome = "refused"
                /\ relayFaults' = IF k = all \/ k = free THEN relayFaults ELSE relayFaults + 1
                /\ relay' = IF k = all \/ outcome = "refused" THEN Posted(k) ELSE Posted(k + 1)
                /\ relayFile' = CASE outcome = "lost" -> Posted(k + 1)
                                  [] outcome # "lost" /\ k > 0 -> Posted(k)
                                  [] OTHER -> relayFile
                /\ IF k = all
                   THEN /\ packages' = [packages EXCEPT ![d] = <<>>]
                        /\ Forget(d, t.code)
                   ELSE UNCHANGED <<packages, codes>>
        /\ commits' <= limits.commits /\ relayFaults' <= limits.calls
        /\ UNCHANGED <<limits, pair, devices, directory, conversation, up, expired, crashes, log>>

\* pairing/complete-session up to the end of the joins.  A session holds one
\* key package, so a second welcome cannot be joined and ends the request.
CompleteBegin(d, c) ==
    LET k == conversation[d]
        welcome(i) == relay[c].responses[i]
        welcomes == {i \in DOMAIN relay[c].responses :
                       welcome(i).kind = "welcome" /\ welcome(i).conversation = k}
    IN  /\ d \in up /\ IsPending(d, c) /\ k # None /\ CodeServes(c)
        /\ \E i \in welcomes, ok \in BOOLEAN :
             /\ First(i, welcomes) /\ CanJoin(sessions[d][k], welcome(i))
             /\ StoreCall(ok)
             /\ SaveSession(d, k, Join(sessions[d][k], welcome(i)), ok)
             /\ IF ok /\ welcomes = {i}
                THEN Begins(d, NewTask("complete", c, k, <<>>))
                ELSE UNCHANGED tasks
        /\ UNCHANGED <<limits, pair, devices, directory, pending, up, relayState, expired, crashes, commits, log>>

\* The rest of pairing/complete-session.  An approval that is refused, or not
\* saved, is passed over unless the peer has expired; without a contact the
\* code stays pending.
CompleteEnd(d, t) ==
    LET peer == pairing[d].peer
        registers == peer # None /\ peer \notin expired
    IN  /\ d \in up /\ t \in tasks[d] /\ t.op = "complete"
        /\ Ends(d, t)
        /\ \E ok \in BOOLEAN, contact \in BOOLEAN :
             /\ ~ok => Accepted(d)
             /\ ~contact => registers
             /\ StoreCall(ok /\ contact)
             /\ IF Accepted(d) THEN ChangePairing(d, P(d)!Approve(pairing[d]), ok)
                ELSE UNCHANGED pair
             /\ IF registers THEN RegisterContact(d, peer.account, contact)
                ELSE UNCHANGED directory
             /\ IF registers /\ contact
                THEN /\ Forget(d, t.code)
                     /\ conversation' = [conversation EXCEPT ![d] = None]
                ELSE UNCHANGED <<codes, conversation>>
        /\ UNCHANGED <<limits, mls, devices, packages, up, relayState, expired, crashes, commits, log>>

-----------------------------------------------------------------------------
\* The conversation

Ready(d) == d \in up /\ P(d)!CanMessageAt(pairing[d], expired)

\* Slip: the ciphertext leaves before its checkpoint is saved.
SendMessageUnsaved(d, c) ==
    LET s == sessions[d][c] IN
    /\ Ready(d) /\ CanEncrypt(d, s) /\ Len(sent) < limits.sends
    /\ \E ok \in BOOLEAN :
         StoreCall(ok) /\ SaveSession(d, c, Encrypt(s), ok)
    /\ sent' = Append(sent, Ciphertext(d, s))
    /\ UNCHANGED <<limits, pair, devices, directory, pending, tasks, up, relayState, expired, crashes,
                   commits, opened, read, removals, misread, deleted>>

\* session/send.
SendMessage(d, c) ==
    LET s == sessions[d][c] IN
    /\ Ready(d) /\ CanEncrypt(d, s) /\ Len(sent) < limits.sends
    /\ \E ok \in BOOLEAN :
         /\ StoreCall(ok) /\ SaveSession(d, c, Encrypt(s), ok)
         /\ sent' = IF ok THEN Append(sent, Ciphertext(d, s)) ELSE sent
    /\ UNCHANGED <<limits, pair, devices, directory, pending, tasks, up, relayState, expired, crashes,
                   commits, opened, read, removals, misread, deleted>>

\* session/send-attachment: the descriptor is a message of the same group.
SendAttachment(d, c) == SendMessage(d, c)

\* Slip: the plaintext is answered whether or not the batch was stored, and the
\* session in memory goes on only when it was.
ReadMessageUnsaved(d, c, w) ==
    LET s == sessions[d][c] IN
    /\ d \in up /\ CanDecrypt(d, s, w)
    /\ \E ok \in BOOLEAN :
         StoreCall(ok) /\ NewSession(d, c, Decrypt(s, w), ok)
    /\ read' = [read EXCEPT ![d] = Append(@, w)]
    /\ UNCHANGED <<limits, pair, devices, directory, pending, tasks, up, relayState, expired, crashes,
                   commits, opened, sent, removals, misread, deleted>>

\* session/receive of a message, which the browser may present any number of
\* times.
ReadMessage(d, c, w) ==
    LET s == sessions[d][c] IN
    /\ d \in up /\ CanDecrypt(d, s, w)
    /\ \E ok \in BOOLEAN :
         /\ StoreCall(ok) /\ SaveSession(d, c, Decrypt(s, w), ok)
         /\ read' = IF ok THEN [read EXCEPT ![d] = Append(@, w)] ELSE read
    /\ UNCHANGED <<limits, pair, devices, directory, pending, tasks, up, relayState, expired, crashes,
                   commits, opened, sent, removals, misread, deleted>>

\* decrypt_attachment of a message that carries no descriptor: its key is used
\* up in memory, and the error is answered without a save.
MisreadMessage(d, c, w) ==
    /\ d \in up /\ CanDecrypt(d, sessions[d][c], w)
    /\ sessions' = [sessions EXCEPT ![d][c] = Decrypt(@, w)]
    /\ misread' = [misread EXCEPT ![d] = @ \cup {w}]
    /\ UNCHANGED <<limits, pair, stored, devices, directory, pending, tasks, up, relayState,
                   expired, crashes, faults, commits, opened, sent, read, removals, deleted>>

\* session/receive-attachment, which also asks for a pairing that is ready.
ReadAttachment(d, c, w) ==
    Ready(d) /\ (ReadMessage(d, c, w) \/ MisreadMessage(d, c, w))

\* session/receive or session/receive-attachment of a removal: merged in
\* memory, answered with an error and not saved.
ReadRemoval(d, c, w) ==
    /\ d \in up /\ SameEpoch(d, sessions[d][c], w)
    /\ sessions' = [sessions EXCEPT ![d][c] = MergeCommit(@, w)]
    /\ UNCHANGED <<limits, pair, stored, devices, directory, pending, tasks, up, relayState, expired,
                   crashes, faults, commits, log>>

\* session/add-member with the key package of another device.
AddDevice(d, c, o) ==
    LET s == sessions[d][c] IN
    /\ Ready(d) /\ CanAddMember(d, s, o) /\ commits < limits.commits
    /\ commits' = commits + 1
    /\ \E ok \in BOOLEAN :
         StoreCall(ok) /\ SaveSession(d, c, Commit(s, s.members \cup {o}, commits'), ok)
    /\ UNCHANGED <<limits, pair, devices, directory, pending, tasks, up, relayState, expired, crashes, log>>

\* session/remove-member: the commit goes back to the browser.
DropMember(d, c, m) ==
    LET s == sessions[d][c] IN
    /\ Ready(d) /\ m # d /\ CanRemoveMember(d, s, m) /\ commits < limits.commits
    /\ commits' = commits + 1
    /\ \E ok \in BOOLEAN :
         /\ StoreCall(ok) /\ SaveSession(d, c, RemoveMember(s, m, commits'), ok)
         /\ removals' = IF ok THEN removals \cup {CommitMessage(d, s, m, commits')}
                        ELSE removals
    /\ UNCHANGED <<limits, pair, devices, directory, pending, tasks, up, relayState, expired, crashes,
                   opened, sent, read, misread, deleted>>

PoisonAll(d) == sessions' = [sessions EXCEPT ![d] = [c \in Codes |-> Poison(@[c])]]

\* Slip: the batch carries the registry and no checkpoint.
RevocationBatchForgets(d, o, cs, epoch) == stored

\* The checkpoints of one batch, with the device out of the conversations cs.
RevocationBatch(d, o, cs, epoch) ==
    [stored EXCEPT ![d] = [c \in Codes |->
        IF c \in cs THEN RemoveMember(sessions[d][c], o, epoch) ELSE @[c]]]

\* deliver_device_change_commits: one conversation after the other, until one
\* cannot be delivered.
DeliverDeviceChange(d, o, cs, epoch) ==
    \E out \in SUBSET cs :
        removals' = removals \cup {CommitMessage(d, sessions[d][c], o, epoch) : c \in out}

\* The device leaves every conversation or none: a session that cannot take
\* it out, or a commit that fails, poisons all of them.
RemoveFromAll(d, o, revoked) ==
    LET live == {c \in Codes : sessions[d][c] # NoSession}
        cs == {c \in live : o \in sessions[d][c].members}
        Refused == \E c \in live : \/ sessions[d][c].poisoned
                                   \/ c \in cs /\ d \notin sessions[d][c].members
    IN  /\ d \in up /\ commits < limits.commits /\ commits' = commits + 1
        /\ \/ /\ ~Refused /\ StoreCall(TRUE)
              /\ sessions' = [sessions EXCEPT ![d] = [c \in Codes |->
                                IF c \in cs THEN RemoveMember(@[c], o, commits') ELSE @[c]]]
              /\ stored' = RevocationBatch(d, o, cs, commits')
              /\ registry' = [registry EXCEPT ![d] = revoked]
              /\ storedRegistry' = [storedRegistry EXCEPT ![d] = revoked]
              /\ DeliverDeviceChange(d, o, cs, commits')
           \/ /\ StoreCall(Refused) /\ PoisonAll(d)
              /\ UNCHANGED <<stored, devices, removals>>
        /\ UNCHANGED <<limits, pair, directory, pending, tasks, up, relayState, expired, crashes,
                       opened, sent, read, misread, deleted>>

\* devices/revoke.
RevokeDevice(d, o) == o \notin registry[d] /\ RemoveFromAll(d, o, registry[d] \cup {o})

\* session/remove-device leaves the registry alone.
RemoveDevice(d, o) == RemoveFromAll(d, o, registry[d])

\* remove of the catalog: the session leaves memory first, and stays out of it
\* when its checkpoint cannot be deleted.
RemoveSession(d, c, ok) ==
    /\ sessions[d][c] # NoSession
    /\ sessions' = [sessions EXCEPT ![d][c] = NoSession]
    /\ stored' = IF ok THEN [stored EXCEPT ![d][c] = NoSession] ELSE stored
    /\ deleted' = IF ok THEN deleted \cup {<<d, c>>} ELSE deleted

\* contacts/delete.  A directory that cannot be saved ends the request; then
\* the session of the conversation goes, if the contact is bound to one.
DeleteContact(d, a) ==
    /\ d \in up /\ a \in contacts[d] /\ Cardinality(deleted) < limits.deletes
    /\ contacts' = [contacts EXCEPT ![d] = @ \ {a}]
    /\ \E saved \in BOOLEAN, ok \in BOOLEAN :
         /\ ~saved => ok
         /\ StoreCall(saved /\ ok)
         /\ storedContacts' = IF saved THEN [storedContacts EXCEPT ![d] = contacts'[d]]
                              ELSE storedContacts
         /\ \/ ok /\ UNCHANGED <<mls, deleted>>
            \/ saved /\ \E c \in Codes : RemoveSession(d, c, ok)
    /\ UNCHANGED <<limits, pair, devices, pending, tasks, up, relayState, expired, crashes,
                   commits, opened, sent, read, removals, misread>>

-----------------------------------------------------------------------------
\* Time and failures

\* Ten minutes pass for an invite with its code, or for the peer of a key
\* package since it was staged.
Expire(p) ==
    /\ p \notin expired /\ Cardinality(expired) < limits.expired
    /\ relay[p.conversation].owner = p.account \/ \E d \in Daemons : pairing[d].peer = p
    /\ expired' = expired \cup {p}
    /\ UNCHANGED <<limits, pair, mls, devices, directory, pending, tasks, up, relayState, crashes,
                   faults, commits, log>>

\* The pending lists and the requests on their way live in memory only.
Crash(d) ==
    /\ d \in up /\ crashes < limits.crashes
    /\ up' = up \ {d} /\ crashes' = crashes + 1
    /\ tasks' = [tasks EXCEPT ![d] = {}]
    /\ codes' = [codes EXCEPT ![d] = <<>>] /\ packages' = [packages EXCEPT ![d] = <<>>]
    /\ conversation' = [conversation EXCEPT ![d] = None]
    /\ UNCHANGED <<limits, pair, mls, devices, directory, relayState, expired, faults, commits, log>>

\* restore_pairing, restore_contacts and restore_all.  A daemon whose pairing record is not
\* accepted does not start.
Restart(d) ==
    /\ d \notin up /\ P(d)!RestorableSession(storedPairing[d])
    /\ up' = up \cup {d}
    /\ pairing' = [pairing EXCEPT ![d] = storedPairing[d]]
    /\ sessions' = [sessions EXCEPT ![d] = stored[d]]
    /\ registry' = [registry EXCEPT ![d] = storedRegistry[d]]
    /\ contacts' = [contacts EXCEPT ![d] = storedContacts[d]]
    /\ UNCHANGED <<limits, storedPairing, stored, storedRegistry, storedContacts, pending, tasks, relayState,
                   expired, crashes, faults, commits, log>>

RelayRestart ==
    /\ crashes < limits.crashes /\ crashes' = crashes + 1
    /\ relay' = relayFile
    /\ UNCHANGED <<limits, pair, mls, devices, directory, pending, tasks, up, relayFile, relayFaults,
                   expired, faults, commits, log>>

Next ==
    \/ \E d \in Daemons, c \in Codes :
         \/ CreateBegin(d, c) \/ ConsumeBegin(d, c) \/ SyncBegin(d, c)
         \/ CompleteBegin(d, c) \/ SendMessage(d, c) \/ SendAttachment(d, c)
         \/ \E i \in 1..Len(sent) : ReadMessage(d, c, sent[i]) \/ ReadAttachment(d, c, sent[i])
         \/ \E w \in removals : ReadRemoval(d, c, w)
         \/ \E o \in Others : AddDevice(d, c, o)
         \/ \E m \in Daemons \cup Others : DropMember(d, c, m)
    \/ \E d \in Daemons :
         \/ Confirm(d) \/ RejectPeer(d) \/ ApproveBegin(d) \/ Crash(d) \/ Restart(d)
         \/ \E t \in tasks[d] : CreateEnd(d, t) \/ ConsumeEnd(d, t) \/ SyncEnd(d, t)
                                  \/ ApproveEnd(d, t) \/ CompleteEnd(d, t)
         \/ \E o \in Others : RevokeDevice(d, o) \/ RemoveDevice(d, o)
         \/ \E a \in Daemons : DeleteContact(d, a)
    \/ \E p \in Peers : Expire(p)
    \/ RelayRestart

Spec == Init /\ [][Next]_vars

-----------------------------------------------------------------------------
NoRepeats(q) == \A i, j \in DOMAIN q : q[i] = q[j] => i = j

\* A code is answered consumed at most once, whatever the relay could not
\* save and however often it restarts (consume_invite of the relay).
CodeOpensOnce == NoRepeats(opened)

\* Two ciphertexts that left are never encrypted with the same key, also when
\* the daemon crashed in between (send_unpersisted and the batch after it).
RatchetNeverReused == NoRepeats(sent)

\* A message is answered in plaintext at most once, however often it is
\* presented and whatever crashed (receive_delivery_unpersisted and its batch).
MessageReadOnce == \A d \in Daemons : NoRepeats(read[d])

\* What a daemon left at the relay survives its restart (prepare and add_member
\* save before they answer), until the session is deleted with a contact.  A key
\* package can be joined with until it is, and the epoch of a welcome that its
\* addressee can join is one the founder has saved: no restart takes the
\* founder back before it.
HandedOutOutlivesRestart ==
    \A c \in Codes : \A i \in DOMAIN relay[c].responses :
        LET r == relay[c].responses[i] IN
        /\ r.kind = "key-package" =>
              LET s == stored[r.package.owner][r.package.conversation] IN
              \/ <<r.package.owner, r.package.conversation>> \in deleted
              \/ /\ s # NoSession
                 /\ \/ r.package \in s.packages
                    \/ s.group # <<r.package.owner, r.package.conversation>>
        /\ r.kind = "welcome" /\ r.package.conversation = r.conversation =>
              LET s == stored[r.group[1]][r.group[2]] IN
              r.group \in deleted \/ (s # NoSession /\ s.epoch >= r.epoch)

\* The keys of session s that the daemon used up and answered with an error.
Misread(d, s) ==
    {<<w.from, w.gen>> : w \in {m \in misread[d] : m.group = s.group /\ m.epoch = s.epoch}}

\* What a session in memory has and its checkpoint does not was answered with
\* an error, so that a restart takes back nothing a client was told: the session
\* is poisoned or deleted, it opened messages that were no attachments, or it
\* merged the removal of another member (persist_or_poison, remove,
\* decrypt_attachment and session/receive).
UnsavedOnlyAfterError ==
    \A d \in up, c \in Codes :
        LET s == sessions[d][c]
            z == stored[d][c]
        IN  \/ s = z \/ s = NoSession \/ s.poisoned
            \/ s = [z EXCEPT !.seen = s.seen] /\ s.seen \subseteq z.seen \cup Misread(d, s)
            \/ /\ s.gen = 0 /\ s.seen \subseteq Misread(d, s)
               /\ \E w \in removals : w.next = s.epoch /\ w.from # d

\* When the registry says revoked, the device is out of every conversation, and
\* on disk too (devices/revoke commits both in one batch).  The exceptions are a
\* conversation that had merged the device's removal and had not saved it, and
\* one that left memory with a contact.
RevokedLeavesEveryConversation ==
    [][\A d \in Daemons : \A o \in storedRegistry'[d] \ storedRegistry[d], c \in Codes :
         \/ sessions'[d][c] = NoSession
         \/ /\ o \notin sessions'[d][c].members
            /\ o \in stored'[d][c].members =>
                 \E w \in removals : w.next = sessions[d][c].epoch /\ w.from # d]_vars
=============================================================================

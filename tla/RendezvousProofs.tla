------------------------- MODULE RendezvousProofs -------------------------
(***************************************************************************)
(* Proofs about module Rendezvous, for any number of daemons, codes,       *)
(* devices, restarts, failures and messages.                               *)
(***************************************************************************)
EXTENDS Rendezvous, TLAPS

\* A leaf that names no prover is Zenon's.
USE Zenon

-----------------------------------------------------------------------------
\* The methods of a session

\* n is s, or s with later counters: the same group and key packages, a later
\* epoch or the same with at least the messages of s behind it.  A later epoch
\* is the number of a commit that this step, or one before it, made.
Ahead(s, n) ==
    /\ n \in Session /\ n.group = s.group /\ n.packages = s.packages
    /\ s.epoch <= n.epoch
    /\ n.epoch = s.epoch \/ n.epoch <= commits'
    /\ n.epoch = s.epoch => s.gen <= n.gen /\ s.seen \subseteq n.seen

\* What create_group and prepare make is a session.
LEMMA FreshTypes ==
    ASSUME NEW d \in Daemons, NEW c \in Codes
    PROVE  CreateGroup(d, c) \in Session /\ Prepare(d, c) \in Session
<1>1. KeyPackage(d, c) \in KeyPackages
  BY SMTT(30) DEF KeyPackages, KeyPackage
<1>2. CreateGroup(d, c) \in Session
  BY SMTT(30) DEF CreateGroup, Session
<1>3. PICK k : k = KeyPackage(d, c)
  OBVIOUS
<1>4. [CreateGroup(d, c) EXCEPT !.packages = {k}] \in Session
  BY SMTT(30), <1>1, <1>2, <1>3 DEF Session
<1> QED
  BY <1>2, <1>3, <1>4 DEF Prepare

\* No method takes a session back.
LEMMA PoisonAhead ==
    ASSUME NEW s \in Session, NEW n, Ahead(s, n)
    PROVE  n # NoSession /\ Ahead(s, Poison(n)) /\ Poison(n).poisoned
<1>1. n # NoSession
  BY RendezvousAssumption DEF Ahead
<1>2. Poison(n) = [n EXCEPT !.poisoned = TRUE] /\ n \in Session
  BY <1>1 DEF Poison, Ahead
<1>3. PICK x : x = Poison(n)
  OBVIOUS
<1>4. x \in Session
  BY <1>2, <1>3 DEF Session
<1>5. /\ x.group = n.group /\ x.packages = n.packages /\ x.epoch = n.epoch
      /\ x.gen = n.gen /\ x.seen = n.seen /\ x.poisoned = TRUE
  BY SMTT(30), <1>2, <1>3 DEF Session
<1> QED
  BY <1>1, <1>3, <1>4, <1>5 DEF Ahead

LEMMA CommitAhead ==
    ASSUME NEW s \in Session, NEW m \in SUBSET (Daemons \cup Others), NEW e \in Nat, s.epoch < e,
           e <= commits'
    PROVE  Ahead(s, Commit(s, m, e))
<1>1. PICK x : x = Commit(s, m, e)
  OBVIOUS
<1>2. x \in Session
  BY <1>1 DEF Session, Commit
<1>3. x.group = s.group /\ x.packages = s.packages /\ x.epoch = e /\ s.epoch \in Nat
  BY SMTT(30), <1>1 DEF Session, Commit
<1>4. s.epoch <= e /\ e # s.epoch
  BY SMTT(30), <1>3
<1> QED
  BY <1>1, <1>2, <1>3, <1>4 DEF Ahead

LEMMA MethodsAhead ==
    ASSUME NEW s \in Session
    PROVE  s # NoSession /\ Ahead(s, s) /\ Ahead(s, Encrypt(s))
<1>1. s # NoSession /\ Ahead(s, s)
  BY SMTT(30), RendezvousAssumption DEF Ahead, Session
<1>2. Ahead(s, Encrypt(s))
  BY SMTT(30) DEF Ahead, Session, Encrypt
<1> QED
  BY <1>1, <1>2

-----------------------------------------------------------------------------
\* How one step changes the sessions

Catalogs == [Daemons -> [Codes -> Session \cup {NoSession}]]

\* A session is in the catalog only when its checkpoint is in the store.  It may be
\* gone from the catalog alone, when its checkpoint could not be deleted.
InSync ==
    \A d \in Daemons, c \in Codes : stored[d][c] = NoSession => sessions[d][c] = NoSession

\* The daemon has a checkpoint of the conversation, or had one and deleted it.
Had(d, c) == stored[d][c] # NoSession \/ <<d, c>> \in deleted

\* n goes on from the session or from its checkpoint.
Goes(d, c, n) ==
    (sessions[d][c] \in Session /\ Ahead(sessions[d][c], n)) \/ Ahead(stored[d][c], n)

\* The session goes on or leaves memory, and its checkpoint goes on.
Moves(d, c) ==
    /\ stored[d][c] \in Session
    /\ sessions'[d][c] = NoSession \/ Goes(d, c, sessions'[d][c])
    /\ Goes(d, c, stored'[d][c])

\* The session is deleted with a contact, and its checkpoint with it.
Drops(d, c) ==
    /\ stored[d][c] \in Session
    /\ sessions'[d][c] = NoSession /\ stored'[d][c] = NoSession /\ <<d, c>> \in deleted'

Rests(d, c) == sessions'[d][c] = sessions[d][c] /\ stored'[d][c] = stored[d][c]

\* A session comes to be, in memory and in the store at once, and once only.
Begun(d, c, s) ==
    /\ sessions[d][c] = NoSession /\ ~Had(d, c)
    /\ sessions'[d][c] = s /\ stored'[d][c] = s

Founds(d, c) ==
    /\ Begun(d, c, CreateGroup(d, c))
    /\ relay'[c].owner = d /\ relayFile'[c].status = "open"

\* A request of the daemon is on its way that has used the code.
Consumes(d, c) == \E t \in tasks[d] : t.op = "consume" /\ t.code = c

Prepares(d, c) == Begun(d, c, Prepare(d, c)) /\ Consumes(d, c) /\ ~Consumes(d, c)'

\* The responses under a code.
Under(invites, c) == {invites[c].responses[i] : i \in DOMAIN invites[c].responses}

\* A welcome under some code is joined.
Joined(d, c, w) ==
    /\ sessions[d][c] \in Session /\ stored[d][c] \in Session
    /\ w.kind = "welcome" /\ w.conversation = c /\ w.package \in sessions[d][c].packages
    /\ sessions'[d][c] \in {Join(sessions[d][c], w), Poison(Join(sessions[d][c], w))}
    /\ stored'[d][c] \in {stored[d][c], Join(sessions[d][c], w)}

Joins(d, c) == \E x \in Codes : \E w \in Under(relay, x) : Joined(d, c, w)

\* The session has opened a message and answered it with an error.
Misreads(d, c) ==
    /\ sessions[d][c] \in Session /\ stored'[d][c] = stored[d][c]
    /\ \E w \in misread'[d] :
         CanDecrypt(d, sessions[d][c], w) /\ sessions'[d][c] = Decrypt(sessions[d][c], w)

\* A session that was not saved is poisoned or gone, or has merged a removal or
\* opened what was no attachment.
Settles(d, c) ==
    \/ Rests(d, c) \/ sessions'[d][c] = stored'[d][c]
    \/ sessions'[d][c] = NoSession \/ sessions'[d][c].poisoned
    \/ /\ sessions[d][c] \in Session
       /\ \E w \in removals : w.from # d /\ sessions'[d][c] = MergeCommit(sessions[d][c], w)
    \/ Misreads(d, c)

Evolves(d, c) ==
    /\ \/ Rests(d, c) \/ Moves(d, c) \/ Founds(d, c) \/ Prepares(d, c) \/ Joins(d, c)
       \/ Drops(d, c)
    /\ Settles(d, c)

Evolve ==
    /\ sessions' \in Catalogs /\ stored' \in Catalogs
    /\ \A d \in Daemons, c \in Codes : Evolves(d, c)

LEMMA CatalogTypes ==
    ASSUME sessions \in Catalogs, stored \in Catalogs, InSync,
           NEW d \in Daemons, NEW c \in Codes
    PROVE  /\ sessions[d][c] \in Session \cup {NoSession} /\ stored[d][c] \in Session \cup {NoSession}
           /\ sessions[d][c] # NoSession => sessions[d][c] \in Session /\ stored[d][c] \in Session
<1>1. sessions[d][c] \in Session \cup {NoSession} /\ stored[d][c] \in Session \cup {NoSession}
  BY SMTT(30) DEF Catalogs
<1> QED
  BY <1>1 DEF InSync

-----------------------------------------------------------------------------
\* The inductive invariant, in its parts

\* The types of Rendezvous, without those of the pairing.
Types ==
    /\ sessions \in Catalogs /\ stored \in Catalogs
    /\ relay \in [Codes -> Invite] /\ relayFile \in [Codes -> Invite]
    /\ codes \in [Daemons -> Seq(Codes)] /\ conversation \in [Daemons -> Codes \cup {None}]
    /\ packages \in [Daemons -> Seq(KeyPackages)] /\ tasks \in [Daemons -> SUBSET Task]
    /\ up \subseteq Daemons /\ commits \in Nat
    /\ opened \in Seq(Codes) /\ sent \in Seq(Message) /\ read \in [Daemons -> Seq(Message)]
    /\ removals \subseteq Removal /\ misread \in [Daemons -> SUBSET Message]

\* The same, under the name that the lemmas assume it by: a leaf that expands
\* Types expands it where it is used, and not in the statement of every lemma.
Typed == Types

\* Epochs are numbers of commits that were made, and a commit opens a later one.
Numbered ==
    /\ \A d \in Daemons, c \in Codes :
         /\ sessions[d][c] # NoSession => sessions[d][c].epoch <= commits
         /\ stored[d][c] # NoSession => stored[d][c].epoch <= commits
    /\ \A w \in removals : w.epoch < w.next /\ w.next <= commits

\* A code that is being created or consumed has had no session yet.
Unfounded ==
    \A d \in Daemons : \A t \in tasks[d] : t.op \in {"create", "consume"} => ~Had(d, t.code)

\* An approval has read a conversation and packages; a request that consumes a
\* code is told by the code.
Aimed ==
    \A d \in Daemons : \A t \in tasks[d] :
        /\ t.op = "approve" => t.conversation \in Codes /\ t.packages # <<>>
        /\ t.op = "consume" => t = NewTask("consume", t.code, t.code, <<>>)

\* What a request has read.
LEMMA TaskTypes ==
    ASSUME Typed, NEW d \in Daemons, NEW t \in tasks[d]
    PROVE  /\ t \in Task /\ t.code \in Codes /\ t.conversation \in Codes \cup {None}
           /\ t.packages \in Seq(KeyPackages)
<1> Types
  BY DEF Typed
<1>1. t \in Task
  BY SMTT(30) DEF Types
<1> QED
  BY SMTT(30), <1>1 DEF Task

\* Nothing more consumes the code when the request that did has ended.
LEMMA ConsumeEnds ==
    ASSUME Typed, Aimed, NEW d \in Daemons, NEW t \in tasks[d], ConsumeEnd(d, t)
    PROVE  Consumes(d, t.code) /\ ~Consumes(d, t.code)'
<1> Types
  BY DEF Typed
<1>1. t.op = "consume" /\ Ends(d, t)
  BY DEF ConsumeEnd
<1>2. tasks'[d] = tasks[d] \ {t}
  BY SMTT(30), <1>1 DEF Types, Ends
<1>3. ASSUME NEW u \in tasks[d], u.op = "consume", u.code = t.code PROVE u = t
  BY <1>1, <1>3 DEF Aimed
<1> QED
  BY <1>1, <1>2, <1>3 DEF Consumes

-----------------------------------------------------------------------------
\* What each handler does to the sessions

\* The packages that an approval adds take the session on.
LEMMA AddAhead ==
    ASSUME NEW s \in Session, NEW pkgs \in Seq(KeyPackages), NEW n \in 0..Len(pkgs),
           NEW e \in Nat, s.epoch <= e, e + n <= commits'
    PROVE  Ahead(s, AddMembers(s, pkgs, n, e))
<1>1. CASE n = 0
  BY <1>1, MethodsAhead DEF AddMembers
<1>2. CASE n # 0
  <2>1. \A k \in KeyPackages : k.owner \in Daemons
    BY SMTT(30) DEF KeyPackages, KeyPackage
  <2>2. \A i \in 1..n : pkgs[i] \in KeyPackages
    BY SMTT(30)
  <2>3. Owners(pkgs, n) \subseteq Daemons
    BY <2>1, <2>2 DEF Owners
  <2>4. PICK m : m = s.members \cup Owners(pkgs, n)
    OBVIOUS
  <2>5. s.members \in SUBSET (Daemons \cup Others) /\ s.epoch \in Nat
    BY SMTT(30) DEF Session
  <2>6. m \in SUBSET (Daemons \cup Others)
    BY <2>3, <2>4, <2>5
  <2>7. e + n \in Nat /\ s.epoch < e + n
    BY SMTT(30), <1>2, <2>5
  <2> QED
    BY <1>2, <2>4, <2>6, <2>7, CommitAhead DEF AddMembers
<1> QED
  BY <1>1, <1>2

\* What joining a welcome makes of a session.
LEMMA JoinTypes ==
    ASSUME NEW s \in Session, NEW w \in Response
    PROVE  /\ Join(s, w) \in Session
           /\ Join(s, w).group = w.group /\ Join(s, w).epoch = w.epoch
           /\ Join(s, w).packages = s.packages \ {w.package}
<1>1. /\ w.members \in SUBSET (Daemons \cup Others) /\ w.epoch \in Nat
      /\ w.group \in Daemons \X Codes
  BY SMTT(30) DEF Response
<1>2. PICK m : m = w.members
  OBVIOUS
<1>3. PICK e : e = w.epoch
  OBVIOUS
<1>4. PICK g : g = w.group
  OBVIOUS
<1>5. PICK k : k = w.package
  OBVIOUS
<1>6. PICK x : x = Commit(s, m, e)
  OBVIOUS
<1>7. x \in Session
  BY <1>1, <1>2, <1>3, <1>6 DEF Session, Commit
<1>8. x.epoch = e /\ x.packages = s.packages
  BY SMTT(30), <1>6 DEF Session, Commit
<1>9. PICK y : y = [x EXCEPT !.group = g, !.packages = @ \ {k}]
  OBVIOUS
<1>10. y \in Session
  <2>1. x.packages \ {k} \in SUBSET KeyPackages
    BY SMTT(30), <1>7 DEF Session
  <2>2. PICK z : z = x.packages \ {k}
    OBVIOUS
  <2>3. y = [x EXCEPT !.group = g, !.packages = z]
    BY <1>9, <2>2
  <2> QED
    BY <1>1, <1>4, <1>7, <2>1, <2>2, <2>3 DEF Session
<1>11. y.group = g /\ y.epoch = x.epoch /\ y.packages = x.packages \ {k}
  BY SMTT(30), <1>7, <1>9 DEF Session
<1>12. y = Join(s, w)
  BY <1>2, <1>3, <1>4, <1>5, <1>6, <1>9 DEF Join
<1> QED
  BY <1>3, <1>4, <1>5, <1>8, <1>10, <1>11, <1>12

LEMMA UnderTypes ==
    ASSUME NEW invites \in [Codes -> Invite], NEW c \in Codes, NEW r \in Under(invites, c)
    PROVE  r \in Response
<1>1. invites[c].responses \in Seq(Response)
  BY SMTT(30) DEF Invite
<1>2. PICK i \in DOMAIN invites[c].responses : r = invites[c].responses[i]
  BY DEF Under
<1>3. PICK q : q = invites[c].responses
  OBVIOUS
<1>4. q[i] \in Response
  BY SMTT(30), <1>1, <1>2, <1>3
<1> QED
  BY <1>2, <1>3, <1>4

\* A session only moves on, and begins or joins in one way each.
LEMMA SessionSteps ==
    ASSUME Typed, InSync, Numbered, Aimed, Unfounded, [Next]_vars
    PROVE  Evolve
<1>DecryptAhead.
      ASSUME NEW s \in Session, NEW w, w.from \in Daemons, w.gen \in Nat
      PROVE  Ahead(s, Decrypt(s, w))
  <2> USE <1>DecryptAhead
  <2>1. PICK x : x = <<w.from, w.gen>>
    OBVIOUS
  <2>2. x \in Daemons \X Nat
    BY SMTT(30), <2>1
  <2>3. Decrypt(s, w) = [s EXCEPT !.seen = @ \cup {x}]
    BY <2>1 DEF Decrypt
  <2> QED
    BY SMTT(30), <2>2, <2>3 DEF Ahead, Session
\* A save that changes one session evolves all when it evolves that one.
<1>OneEvolves.
      ASSUME sessions \in Catalogs, stored \in Catalogs, NEW d \in Daemons, NEW c \in Codes,
             NEW n \in Session \cup {NoSession}, NEW m \in Session \cup {NoSession},
             sessions' = [sessions EXCEPT ![d][c] = n],
             stored' = [stored EXCEPT ![d][c] = m] \/ (stored' = stored /\ m = stored[d][c]),
             sessions'[d][c] = n /\ stored'[d][c] = m => Evolves(d, c)
      PROVE  Evolve
  <2> USE <1>OneEvolves
  <2>1. sessions' \in Catalogs /\ stored' \in Catalogs
    BY SMTT(30) DEF Catalogs
  <2>2. sessions'[d][c] = n /\ stored'[d][c] = m
    BY SMTT(30) DEF Catalogs
  <2>3. ASSUME NEW e \in Daemons, NEW k \in Codes, ~(e = d /\ k = c) PROVE Rests(e, k)
    BY SMTT(30), <2>3 DEF Catalogs, Rests
  <2> QED
    BY <2>1, <2>2, <2>3 DEF Evolve, Evolves, Settles
<1>NoneEvolves.
      ASSUME sessions \in Catalogs, stored \in Catalogs, UNCHANGED mls
      PROVE  Evolve
  BY <1>NoneEvolves DEF mls, Evolve, Evolves, Rests, Settles
\* A session that is saved, or poisoned when it cannot be, moves on.
<1>SaveEvolves.
      ASSUME sessions \in Catalogs, stored \in Catalogs, InSync,
             NEW d \in Daemons, NEW c \in Codes, sessions[d][c] # NoSession,
             NEW n, Ahead(sessions[d][c], n), NEW ok \in BOOLEAN, SaveSession(d, c, n, ok)
      PROVE  Evolve
  <2> USE <1>SaveEvolves
  <2>1. sessions[d][c] \in Session /\ stored[d][c] \in Session
    BY CatalogTypes
  <2>2. Ahead(stored[d][c], stored[d][c])
    BY <2>1, MethodsAhead
  <2>3. Ahead(sessions[d][c], Poison(n)) /\ Poison(n).poisoned
    BY <2>1, PoisonAhead
  <2>6. n \in Session /\ Poison(n) \in Session
    BY <2>3 DEF Ahead
  <2>4. CASE ok
    BY <2>1, <2>6, <2>4, <1>OneEvolves DEF SaveSession, Evolves, Moves, Goes, Settles
  <2>5. CASE ~ok
    BY <2>1, <2>2, <2>3, <2>5, <2>6, <1>OneEvolves DEF SaveSession, Evolves, Moves, Goes, Settles
  <2> QED
    BY <2>4, <2>5
<1>CreateEvolves.
      ASSUME Typed, InSync, Unfounded, NEW d \in Daemons, NEW t \in tasks[d], CreateEnd(d, t)
      PROVE  Evolve
  <2> USE <1>CreateEvolves
  <2> Types
    BY DEF Typed
  <2>1. t.op = "create" /\ t.code \in Codes
    BY TaskTypes DEF CreateEnd
  <2>2. PICK c : c = t.code
    OBVIOUS
  <2>3. PICK n : n = CreateGroup(d, c)
    OBVIOUS
  <2>4. n \in Session
    BY <2>1, <2>2, <2>3, FreshTypes
  <2>5. CASE UNCHANGED mls
    BY <2>5, <1>NoneEvolves DEF Types
  <2>6. CASE /\ relay' = [relay EXCEPT ![c] = [@ EXCEPT !.status = "open", !.owner = d]]
             /\ relayFile' = relay'
             /\ sessions' = [sessions EXCEPT ![d][c] = n]
             /\ stored' = [stored EXCEPT ![d][c] = n]
    <3>A. PICK v : v = relay[c]
      OBVIOUS
    <3>B. PICK y : y = [v EXCEPT !.status = "open", !.owner = d]
      OBVIOUS
    <3>D. relay' = [relay EXCEPT ![c] = y]
      BY <2>6, <3>A, <3>B
    <3>C. v \in Invite /\ relay'[c] = y
      BY SMTT(30), <2>1, <2>2, <3>A, <3>D DEF Types
    <3>1. y.owner = d /\ y.status = "open"
      BY SMTT(30), <3>B, <3>C DEF Invite
    <3>2. sessions[d][c] = NoSession /\ ~Had(d, c)
      BY <2>1, <2>2 DEF Unfounded, InSync, Had
    <3>3. sessions'[d][c] = n /\ stored'[d][c] = n => Evolves(d, c)
      BY <2>3, <2>6, <3>C, <3>1, <3>2 DEF Evolves, Founds, Begun, Settles
    <3> QED
      BY <2>1, <2>2, <2>4, <2>6, <3>3, <1>OneEvolves DEF Types
  <2> QED
    BY <2>2, <2>3, <2>5, <2>6 DEF CreateEnd, RelayCall, NewSession, mls
<1>ConsumeEvolves.
      ASSUME Typed, Unfounded, Aimed, NEW d \in Daemons, NEW t \in tasks[d], ConsumeEnd(d, t)
      PROVE  Evolve
  <2> USE <1>ConsumeEvolves
  <2> Types
    BY DEF Typed
  <2>1. t.op = "consume" /\ t.code \in Codes
    BY TaskTypes DEF ConsumeEnd
  <2>2. PICK c : c = t.code
    OBVIOUS
  <2>3. PICK n : n = Prepare(d, c)
    OBVIOUS
  <2>4. n \in Session
    BY <2>1, <2>2, <2>3, FreshTypes
  <2>5. CASE UNCHANGED mls
    BY <2>5, <1>NoneEvolves DEF Types
  <2>6. CASE /\ sessions[d][c] = NoSession
             /\ sessions' = [sessions EXCEPT ![d][c] = n]
             /\ stored' = [stored EXCEPT ![d][c] = n]
    <3>1. ~Had(d, c) /\ Consumes(d, c) /\ ~Consumes(d, c)'
      BY <2>1, <2>2, ConsumeEnds DEF Unfounded
    <3>2. sessions'[d][c] = n /\ stored'[d][c] = n => Evolves(d, c)
      BY <2>3, <2>6, <3>1 DEF Evolves, Prepares, Begun, Settles
    <3> QED
      BY <2>1, <2>2, <2>4, <2>6, <3>2, <1>OneEvolves DEF Types
  <2> QED
    BY <2>2, <2>3, <2>5, <2>6 DEF ConsumeEnd, NewSession, mls
<1>ApproveEvolves.
      ASSUME Typed, InSync, Numbered, Aimed, NEW d \in Daemons, NEW t \in tasks[d], ApproveEnd(d, t)
      PROVE  Evolve
  <2> USE <1>ApproveEvolves
  <2> Types
    BY DEF Typed
  <2>1. t.op = "approve" /\ t.packages \in Seq(KeyPackages)
    BY TaskTypes DEF ApproveEnd
  <2>2. PICK c : c = t.conversation
    OBVIOUS
  <2>3. c \in Codes
    BY <2>1, <2>2 DEF Aimed
  <2>4. PICK s : s = sessions[d][c]
    OBVIOUS
  <2>5. PICK p : p = t.packages
    OBVIOUS
  <2>6. PICK A : A = [n \in 0..Len(p) |-> AddMembers(s, p, n, commits)]
    OBVIOUS
  <2>7. \A n \in 0..Len(p) : A[n] = AddMembers(s, p, n, commits)
    BY <2>6
  <2>A. Len(p) \in Nat /\ 0 \in 0..Len(p)
    BY SMTT(30), <2>1, <2>5
  <2>8. A[0] = s /\ Len(p) \in Nat
    BY <2>7, <2>A DEF AddMembers
  <2>9. s # NoSession => s \in Session /\ stored[d][c] \in Session /\ s.epoch <= commits
    BY <2>3, <2>4, CatalogTypes DEF Types, Numbered
  <2>10. s # NoSession => \A n \in 0..Len(p) : commits + n <= commits' => Ahead(s, A[n])
    BY <2>1, <2>5, <2>7, <2>9, AddAhead DEF Types
  <2>11. s \in Session \cup {NoSession} /\ stored[d][c] \in Session \cup {NoSession}
    BY <2>3, <2>4, CatalogTypes DEF Types
  <2>12. \A i : CanAddNext(d, s, p, i) => s # NoSession
    BY DEF CanAddNext, CanAddMember, Usable
  <2>13. ASSUME NEW n \in 0..(Len(p) - 1), NEW ok \in BOOLEAN,
                commits' = IF ok THEN commits + n ELSE commits + n + 1,
                \A i \in 1..n : CanAddNext(d, s, p, i), ok = ~CanAddNext(d, s, p, n + 1),
                sessions' = [sessions EXCEPT ![d][c] =
                               IF ok THEN AddMembers(s, p, n, commits)
                               ELSE Poison(AddMembers(s, p, n + 1, commits))],
                stored' = IF n = 0 THEN stored
                          ELSE [stored EXCEPT ![d][c] = AddMembers(s, p, n, commits)]
         PROVE  Evolve
    <3>1. n \in 0..Len(p) /\ n + 1 \in 0..Len(p) /\ (n # 0 => 1 \in 1..n)
      BY SMTT(30), <2>8
    <3>2. AddMembers(s, p, n, commits) = A[n] /\ AddMembers(s, p, n + 1, commits) = A[n + 1]
      BY <2>7, <3>1
    <3>3. CASE s = NoSession
      <4>1. n = 0 /\ ok
        BY <2>12, <2>13, <3>1, <3>3
      <4>2. sessions' = [sessions EXCEPT ![d][c] = s] /\ stored' = stored
        BY <2>8, <2>13, <3>2, <4>1
      <4> QED
        BY <2>3, <2>4, <2>11, <4>2, <1>OneEvolves DEF Types, Evolves, Rests, Settles
    <3>4. CASE s # NoSession
      <4>1. PICK q : q = Poison(A[n + 1])
        OBVIOUS
      <4>A. commits + n <= commits' /\ (~ok => commits + (n + 1) <= commits')
        BY SMTT(30), <2>13, <2>8 DEF Types
      <4>2. Ahead(s, A[n]) /\ Ahead(stored[d][c], stored[d][c])
        BY <2>9, <2>10, <3>1, <3>4, <4>A, MethodsAhead
      <4>3. ~ok => Ahead(s, q) /\ q.poisoned
        BY <2>9, <2>10, <3>1, <3>4, <4>1, <4>A, PoisonAhead
      <4>4. PICK x : x = IF ok THEN A[n] ELSE q
        OBVIOUS
      <4>5. PICK y : y = IF n = 0 THEN stored[d][c] ELSE A[n]
        OBVIOUS
      <4>B. Ahead(s, x) /\ (Ahead(s, y) \/ Ahead(stored[d][c], y))
        BY <4>2, <4>3, <4>4, <4>5
      <4>6. x \in Session /\ y \in Session /\ Ahead(s, x)
            /\ (Ahead(s, y) \/ Ahead(stored[d][c], y))
        BY <4>B DEF Ahead
      <4>7. sessions' = [sessions EXCEPT ![d][c] = x]
        BY <2>13, <3>2, <4>1, <4>4
      <4>8. stored' = [stored EXCEPT ![d][c] = y] \/ (stored' = stored /\ y = stored[d][c])
        BY <2>13, <3>2, <4>5
      <4>C. x = y \/ x.poisoned \/ (x = s /\ y = stored[d][c])
        BY <2>8, <4>3, <4>4, <4>5
      <4>9. sessions'[d][c] = x /\ stored'[d][c] = y => Evolves(d, c)
        BY <2>4, <2>9, <3>4, <4>6, <4>C DEF Evolves, Moves, Goes, Settles, Rests
      <4> QED
        BY <2>3, <4>6, <4>7, <4>8, <4>9, <1>OneEvolves DEF Types
    <3> QED
      BY <3>3, <3>4
  <2>14. ASSUME commits' = commits + Len(p), \A i \in 1..Len(p) : CanAddNext(d, s, p, i),
                SaveSession(d, c, AddMembers(s, p, Len(p), commits), TRUE)
         PROVE  Evolve
    <3>1. Len(p) \in 0..Len(p) /\ commits + Len(p) <= commits'
      BY SMTT(30), <2>8, <2>14 DEF Types
    <3>2. AddMembers(s, p, Len(p), commits) = A[Len(p)]
      BY <2>7, <3>1
    <3>3. p # <<>>
      BY <2>1, <2>5 DEF Aimed
    <3>4. 1 \in 1..Len(p)
      BY SMTT(30), <2>1, <2>5, <3>3
    <3>5. s # NoSession
      BY <2>12, <2>14, <3>4
    <3> QED
      BY <2>3, <2>4, <2>10, <2>14, <3>1, <3>2, <3>5, <1>SaveEvolves DEF Types
  <2> QED
    BY <2>2, <2>4, <2>5, <2>13, <2>14 DEF ApproveEnd
<1>CompleteEvolves.
      ASSUME Typed, InSync, NEW d \in Daemons, NEW c \in Codes, CompleteBegin(d, c)
      PROVE  Evolve
  <2> USE <1>CompleteEvolves
  <2> Types
    BY DEF Typed
  <2>1. PICK k : k = conversation[d]
    OBVIOUS
  <2>2. k \in Codes
    <3>1. conversation[d] \in Codes \cup {None} /\ conversation[d] # None
      BY DEF Types, CompleteBegin
    <3> QED
      BY <2>1, <3>1
  <2>3. PICK i \in DOMAIN relay[c].responses, ok \in BOOLEAN :
          /\ relay[c].responses[i].kind = "welcome" /\ relay[c].responses[i].conversation = k
          /\ CanJoin(sessions[d][k], relay[c].responses[i])
          /\ SaveSession(d, k, Join(sessions[d][k], relay[c].responses[i]), ok)
    BY <2>1 DEF CompleteBegin
  <2>4. PICK w : w = relay[c].responses[i]
    OBVIOUS
  <2>5. w \in Under(relay, c)
    BY <2>3, <2>4 DEF Under
  <2>6. w \in Response
    BY <2>5, UnderTypes DEF Types
  <2>7. PICK s : s = sessions[d][k]
    OBVIOUS
  <2>8. s # NoSession /\ w.package \in s.packages
    BY <2>3, <2>4, <2>7 DEF CanJoin, Usable
  <2>9. s \in Session /\ stored[d][k] \in Session
    BY <2>2, <2>7, <2>8, CatalogTypes DEF Types
  <2>10. PICK n : n = Join(s, w)
    OBVIOUS
  <2>11. n \in Session
    BY <2>6, <2>9, <2>10, JoinTypes
  <2>12. Poison(n) \in Session /\ Poison(n).poisoned
    BY <2>11, MethodsAhead, PoisonAhead DEF Ahead
  <2>13. PICK q : q = Poison(n)
    OBVIOUS
  <2>14. PICK x : x = IF ok THEN n ELSE q
    OBVIOUS
  <2>15. PICK y : y = IF ok THEN n ELSE stored[d][k]
    OBVIOUS
  <2>16. x \in Session /\ y \in Session /\ x \in {n, q} /\ y \in {stored[d][k], n}
    BY <2>9, <2>11, <2>12, <2>13, <2>14, <2>15
  <2>17. /\ sessions' = [sessions EXCEPT ![d][k] = x]
         /\ stored' = [stored EXCEPT ![d][k] = y] \/ (stored' = stored /\ y = stored[d][k])
    BY <2>3, <2>4, <2>7, <2>10, <2>13, <2>14, <2>15 DEF SaveSession
  <2>18. sessions'[d][k] = x /\ stored'[d][k] = y => Joined(d, k, w)
    BY <2>3, <2>4, <2>7, <2>8, <2>9, <2>10, <2>13, <2>16 DEF Joined
  <2>19. sessions'[d][k] = x /\ stored'[d][k] = y => Evolves(d, k)
    BY <2>5, <2>12, <2>13, <2>14, <2>15, <2>18 DEF Evolves, Joins, Settles
  <2> QED
    BY <2>2, <2>16, <2>17, <2>19, <1>OneEvolves DEF Types
<1>MergeEvolves.
      ASSUME Typed, InSync, Numbered, NEW d \in Daemons, NEW c \in Codes, NEW w \in removals,
             ReadRemoval(d, c, w)
      PROVE  Evolve
  <2> USE <1>MergeEvolves
  <2> Types
    BY DEF Typed
  <2>1. PICK s : s = sessions[d][c]
    OBVIOUS
  <2>2. s # NoSession /\ w.epoch = s.epoch /\ w.from # d
    BY <2>1 DEF ReadRemoval, SameEpoch, Usable
  <2>3. s \in Session /\ stored[d][c] \in Session
    BY <2>1, <2>2, CatalogTypes DEF Types
  <2>4. w \in Removal /\ s.epoch < w.next /\ w.next <= commits'
    BY <2>2 DEF Types, Numbered, ReadRemoval
  <2>5. w.members \in SUBSET (Daemons \cup Others) /\ w.next \in Nat
    BY SMTT(30), <2>4 DEF Removal
  <2>6. PICK n : n = MergeCommit(s, w)
    OBVIOUS
  <2>7. Ahead(s, n) /\ Ahead(stored[d][c], stored[d][c])
    BY <2>3, <2>4, <2>5, <2>6, CommitAhead, MethodsAhead DEF MergeCommit
  <2>8. n \in Session
    BY <2>7 DEF Ahead
  <2>9. sessions' = [sessions EXCEPT ![d][c] = n] /\ stored' = stored
    BY <2>1, <2>6 DEF ReadRemoval
  <2>10. sessions'[d][c] = n /\ stored'[d][c] = stored[d][c] => Evolves(d, c)
    BY <2>1, <2>2, <2>3, <2>6, <2>7 DEF Evolves, Moves, Goes, Settles
  <2> QED
    BY <2>3, <2>8, <2>9, <2>10, <1>OneEvolves DEF Types
\* A message that was no attachment is opened in memory only.
<1>MisreadEvolves.
      ASSUME Typed, InSync, NEW d \in Daemons, NEW c \in Codes, NEW i \in 1..Len(sent),
             MisreadMessage(d, c, sent[i])
      PROVE  Evolve
  <2> USE <1>MisreadEvolves
  <2> Types
    BY DEF Typed
  <2>1. PICK s : s = sessions[d][c]
    OBVIOUS
  <2>2. PICK w : w = sent[i]
    OBVIOUS
  <2>3. w \in Message
    BY SMTT(30), <2>2 DEF Types
  <2>4. w.from \in Daemons /\ w.gen \in Nat
    BY SMTT(30), <2>3 DEF Message
  <2>5. s # NoSession /\ CanDecrypt(d, s, w)
    BY <2>1, <2>2 DEF MisreadMessage, CanDecrypt, SameEpoch, Usable
  <2>6. s \in Session /\ stored[d][c] \in Session
    BY <2>1, <2>5, CatalogTypes DEF Types
  <2>7. PICK n : n = Decrypt(s, w)
    OBVIOUS
  <2>8. Ahead(s, n) /\ Ahead(stored[d][c], stored[d][c])
    BY <2>4, <2>6, <2>7, <1>DecryptAhead, MethodsAhead
  <2>9. n \in Session
    BY <2>8 DEF Ahead
  <2>10. sessions' = [sessions EXCEPT ![d][c] = n] /\ stored' = stored
    BY <2>1, <2>2, <2>7 DEF MisreadMessage
  <2>11. misread' = [misread EXCEPT ![d] = @ \cup {w}]
    BY <2>2 DEF MisreadMessage
  <2>12. w \in misread'[d]
    BY SMTT(30), <2>11 DEF Types
  <2>13. sessions'[d][c] = n /\ stored'[d][c] = stored[d][c] => Misreads(d, c) /\ Moves(d, c)
    BY <2>1, <2>5, <2>6, <2>7, <2>8, <2>12 DEF Misreads, Moves, Goes
  <2>14. sessions'[d][c] = n /\ stored'[d][c] = stored[d][c] => Evolves(d, c)
    BY <2>13 DEF Evolves, Settles
  <2> QED
    BY <2>6, <2>9, <2>10, <2>14, <1>OneEvolves DEF Types
\* A session leaves memory, and its checkpoint the store if it can be deleted.
<1>DeleteEvolves.
      ASSUME Typed, InSync, NEW d \in Daemons, NEW c \in Codes, NEW ok \in BOOLEAN,
             RemoveSession(d, c, ok)
      PROVE  Evolve
  <2> USE <1>DeleteEvolves
  <2> Types
    BY DEF Typed
  <2>1. stored[d][c] \in Session
    BY CatalogTypes DEF Types, RemoveSession
  <2>2. Ahead(stored[d][c], stored[d][c])
    BY <2>1, MethodsAhead
  <2>3. CASE ok
    <3>1. <<d, c>> \in deleted'
      BY <2>3 DEF RemoveSession
    <3>2. sessions'[d][c] = NoSession /\ stored'[d][c] = NoSession => Evolves(d, c)
      BY <2>1, <3>1 DEF Evolves, Drops, Settles
    <3> QED
      BY <2>3, <3>2, <1>OneEvolves DEF RemoveSession, Types
  <2>4. CASE ~ok
    <3>1. sessions'[d][c] = NoSession /\ stored'[d][c] = stored[d][c] => Evolves(d, c)
      BY <2>1, <2>2 DEF Evolves, Moves, Goes, Settles
    <3> QED
      BY <2>1, <2>4, <3>1, <1>OneEvolves DEF RemoveSession, Types
  <2> QED
    BY <2>3, <2>4
\* A step that changes every session of one daemon evolves all when it evolves
\* those.
<1>AllEvolve.
      ASSUME NEW d \in Daemons, sessions' \in Catalogs, stored' \in Catalogs,
             \A e \in Daemons : e # d => sessions'[e] = sessions[e] /\ stored'[e] = stored[e],
             \A c \in Codes : Evolves(d, c)
      PROVE  Evolve
  BY <1>AllEvolve DEF Evolve, Evolves, Rests, Settles
<1>RestartEvolves.
      ASSUME Typed, InSync, NEW d \in Daemons, Restart(d)
      PROVE  Evolve
  <2> USE <1>RestartEvolves
  <2> Types
    BY DEF Typed
  <2>1. PICK f : f = stored[d]
    OBVIOUS
  <2>2. f \in [Codes -> Session \cup {NoSession}]
    BY SMTT(30), <2>1 DEF Types, Catalogs
  <2>3. sessions' = [sessions EXCEPT ![d] = f] /\ stored' = stored
    BY <2>1 DEF Restart
  <2>4. ASSUME NEW c \in Codes, sessions'[d][c] = f[c], stored'[d][c] = f[c] PROVE Evolves(d, c)
    <3>1. CASE stored[d][c] = NoSession
      BY <2>1, <2>4, <3>1 DEF InSync, Evolves, Rests, Settles
    <3>2. CASE stored[d][c] # NoSession
      <4>1. stored[d][c] \in Session
        BY <3>2, CatalogTypes DEF Types
      <4>2. Ahead(stored[d][c], stored[d][c])
        BY <4>1, MethodsAhead
      <4> QED
        BY <2>1, <2>4, <4>1, <4>2 DEF Evolves, Moves, Goes, Settles
    <3> QED
      BY <3>1, <3>2
  <2> QED
    <3>1. /\ sessions' \in Catalogs /\ stored' \in Catalogs /\ sessions'[d] = f
          /\ \A e \in Daemons : e # d => sessions'[e] = sessions[e] /\ stored'[e] = stored[e]
      BY SMTT(30), <2>2, <2>3 DEF Types, Catalogs
    <3> QED
      BY <2>1, <2>3, <2>4, <3>1, <1>AllEvolve
\* A removal is a commit like any other.
<1>RemoveAhead.
      ASSUME NEW s \in Session, NEW m, NEW e \in Nat, s.epoch < e, e <= commits'
      PROVE  Ahead(s, RemoveMember(s, m, e))
  <2> USE <1>RemoveAhead
  <2>1. s.members \ {m} \in SUBSET (Daemons \cup Others)
    BY SMTT(30) DEF Session
  <2> QED
    BY <2>1, CommitAhead DEF RemoveMember
<1>RemoveAllEvolves.
      ASSUME Typed, InSync, Numbered, NEW d \in Daemons, NEW o, NEW revoked,
             RemoveFromAll(d, o, revoked)
      PROVE  Evolve
  <2> USE <1>RemoveAllEvolves
  <2> Types
    BY DEF Typed
  <2>1. PICK cs : cs = {c \in {k \in Codes : sessions[d][k] # NoSession} : o \in sessions[d][c].members}
    OBVIOUS
  <2>2. PICK e : e = commits + 1
    OBVIOUS
  <2>8. commits' = e
    BY <2>2 DEF RemoveFromAll
  <2>3. e \in Nat /\ e <= commits' /\ \A x \in Nat : x <= commits => x < e
    BY SMTT(30), <2>2, <2>8 DEF Types
  <2>4. ASSUME NEW c \in Codes, sessions[d][c] # NoSession
        PROVE  /\ sessions[d][c] \in Session /\ stored[d][c] \in Session
               /\ Ahead(sessions[d][c], RemoveMember(sessions[d][c], o, e))
               /\ Ahead(sessions[d][c], Poison(sessions[d][c])) /\ Poison(sessions[d][c]).poisoned
               /\ Ahead(sessions[d][c], sessions[d][c]) /\ Ahead(stored[d][c], stored[d][c])
    <3>1. sessions[d][c] \in Session /\ stored[d][c] \in Session
      BY <2>4, CatalogTypes DEF Types
    <3>2. sessions[d][c].epoch \in Nat
      BY SMTT(30), <3>1 DEF Session
    <3>3. sessions[d][c].epoch < e
      BY <2>3, <2>4, <3>2 DEF Numbered
    <3> QED
      BY <2>3, <3>1, <3>3, <1>RemoveAhead, PoisonAhead, MethodsAhead
  <2>9. sessions \in Catalogs /\ stored \in Catalogs
    BY DEF Types
  <2>6. ASSUME sessions' = [sessions EXCEPT ![d] = [c \in Codes |->
                              IF c \in cs THEN RemoveMember(@[c], o, e) ELSE @[c]]],
               stored' = RevocationBatch(d, o, cs, e)
        PROVE  Evolve
    <3>1. PICK f : f = [c \in Codes |-> IF c \in cs THEN RemoveMember(sessions[d][c], o, e) ELSE sessions[d][c]]
      OBVIOUS
    <3>2. PICK g : g = [c \in Codes |-> IF c \in cs THEN RemoveMember(sessions[d][c], o, e) ELSE stored[d][c]]
      OBVIOUS
    <3>3. sessions' = [sessions EXCEPT ![d] = f] /\ stored' = [stored EXCEPT ![d] = g]
      BY <2>6, <3>1, <3>2 DEF RevocationBatch
    <3>4. \A c \in cs : c \in Codes /\ sessions[d][c] # NoSession
      BY <2>1
    <3>5. \A c \in Codes : sessions[d][c] \in Session \cup {NoSession} /\ stored[d][c] \in Session \cup {NoSession}
      BY CatalogTypes DEF Types
    <3>6. \A c \in Codes : f[c] \in Session \cup {NoSession} /\ g[c] \in Session \cup {NoSession}
      BY <2>4, <3>1, <3>2, <3>4, <3>5 DEF Ahead
    <3>7. /\ f \in [Codes -> Session \cup {NoSession}]
          /\ g \in [Codes -> Session \cup {NoSession}]
      BY <3>1, <3>2, <3>6
    <3>8. ASSUME NEW c \in Codes, sessions'[d][c] = f[c], stored'[d][c] = g[c] PROVE Evolves(d, c)
      <4>1. CASE c \in cs
        BY <2>4, <3>1, <3>2, <3>4, <3>8, <4>1 DEF Evolves, Moves, Goes, Settles
      <4>2. CASE c \notin cs
        BY <3>1, <3>2, <3>8, <4>2 DEF Evolves, Rests, Settles
      <4> QED
        BY <4>1, <4>2
    <3>9. /\ sessions' \in Catalogs /\ sessions'[d] = f
          /\ \A x \in Daemons : x # d => sessions'[x] = sessions[x]
      BY SMTT(30), <2>9, <3>3, <3>7 DEF Catalogs
    <3>10. /\ stored' \in Catalogs /\ stored'[d] = g
           /\ \A x \in Daemons : x # d => stored'[x] = stored[x]
      BY SMTT(30), <2>9, <3>3, <3>7 DEF Catalogs
    <3> QED
      BY <3>8, <3>9, <3>10, <1>AllEvolve
  <2>7. ASSUME PoisonAll(d), stored' = stored
        PROVE  Evolve
    <3>1. PICK f : f = [c \in Codes |-> Poison(sessions[d][c])]
      OBVIOUS
    <3>2. PICK g : g = stored[d]
      OBVIOUS
    <3>3. sessions' = [sessions EXCEPT ![d] = f]
      BY <2>7, <3>1 DEF PoisonAll
    <3>4. Poison(NoSession) = NoSession
      BY DEF Poison
    <3>5. \A c \in Codes : f[c] \in Session \cup {NoSession}
      BY <2>4, <3>1, <3>4 DEF Ahead
    <3>6. f \in [Codes -> Session \cup {NoSession}]
      BY <3>1, <3>5
    <3>7. ASSUME NEW c \in Codes, sessions'[d][c] = f[c], stored'[d][c] = g[c] PROVE Evolves(d, c)
      <4>1. CASE sessions[d][c] # NoSession
        BY <2>4, <3>1, <3>2, <3>7, <4>1 DEF Evolves, Moves, Goes, Settles
      <4>2. CASE sessions[d][c] = NoSession
        BY <3>1, <3>2, <3>4, <3>7, <4>2 DEF Evolves, Rests, Settles
      <4> QED
        BY <4>1, <4>2
    <3>8. /\ sessions' \in Catalogs /\ sessions'[d] = f
          /\ \A x \in Daemons : x # d => sessions'[x] = sessions[x]
      BY SMTT(30), <2>9, <3>3, <3>6 DEF Catalogs
    <3> QED
      BY <2>7, <2>9, <3>2, <3>7, <3>8, <1>AllEvolve
  <2> QED
    BY <2>1, <2>6, <2>7, <2>8 DEF RemoveFromAll
\* Messages and commits: the session is saved before anything leaves.
<1>TalkEvolves.
      ASSUME Typed, InSync, Numbered, NEW d \in Daemons, NEW c \in Codes,
             \/ SendMessage(d, c)
             \/ \E i \in 1..Len(sent) : ReadMessage(d, c, sent[i])
             \/ \E o \in Others : AddDevice(d, c, o)
             \/ \E m : DropMember(d, c, m)
      PROVE  Evolve
  <2> USE <1>TalkEvolves
  <2> Types
    BY DEF Typed
  <2>1. PICK s : s = sessions[d][c]
    OBVIOUS
  <2>2. s # NoSession => /\ s \in Session /\ s.epoch <= commits
                         /\ s.members \in SUBSET (Daemons \cup Others)
    <3>1. s # NoSession => s \in Session
      BY <2>1, CatalogTypes DEF Types
    <3>2. s \in Session => s.members \in SUBSET (Daemons \cup Others)
      BY SMTT(30) DEF Session
    <3> QED
      BY <2>1, <3>1, <3>2 DEF Numbered
  <2>3. s # NoSession => /\ s.epoch < commits + 1 /\ commits + 1 \in Nat
                         /\ commits' = commits + 1 => commits + 1 <= commits'
    BY SMTT(30), <2>2 DEF Types, Session
  <2>4. ASSUME NEW n, NEW ok \in BOOLEAN, s # NoSession, Ahead(s, n), SaveSession(d, c, n, ok)
        PROVE  Evolve
    BY <2>1, <2>4, <1>SaveEvolves DEF Types
  <2>5. CASE SendMessage(d, c)
    <3>1. PICK ok \in BOOLEAN : SaveSession(d, c, Encrypt(s), ok)
      BY <2>1, <2>5 DEF SendMessage
    <3>2. s # NoSession
      BY <2>1, <2>5 DEF SendMessage, CanEncrypt, Usable
    <3> QED
      BY <2>2, <2>4, <3>1, <3>2, MethodsAhead
  <2>6. ASSUME NEW i \in 1..Len(sent), ReadMessage(d, c, sent[i]) PROVE Evolve
    <3>1. PICK w : w = sent[i]
      OBVIOUS
    <3>2. w \in Message
      BY SMTT(30), <3>1 DEF Types
    <3>3. w.from \in Daemons /\ w.gen \in Nat
      BY SMTT(30), <3>2 DEF Message
    <3>4. PICK ok \in BOOLEAN : SaveSession(d, c, Decrypt(s, w), ok)
      BY <2>1, <2>6, <3>1 DEF ReadMessage
    <3>5. s # NoSession
      BY <2>1, <2>6 DEF ReadMessage, CanDecrypt, SameEpoch, Usable
    <3> QED
      BY <2>2, <2>4, <3>3, <3>4, <3>5, <1>DecryptAhead
  <2>7. ASSUME NEW o \in Others, AddDevice(d, c, o) PROVE Evolve
    <3>1. PICK ok \in BOOLEAN : SaveSession(d, c, Commit(s, s.members \cup {o}, commits + 1), ok)
      BY <2>1, <2>7 DEF AddDevice
    <3>2. s # NoSession /\ commits' = commits + 1
      BY <2>1, <2>7 DEF AddDevice, CanAddMember, Usable
    <3>3. s.members \cup {o} \in SUBSET (Daemons \cup Others)
      BY <2>2, <3>2
    <3> QED
      BY <2>2, <2>3, <2>4, <3>1, <3>2, <3>3, CommitAhead
  <2>8. ASSUME NEW m, DropMember(d, c, m) PROVE Evolve
    <3>1. PICK ok \in BOOLEAN : SaveSession(d, c, RemoveMember(s, m, commits + 1), ok)
      BY <2>1, <2>8 DEF DropMember
    <3>2. s # NoSession /\ commits' = commits + 1
      BY <2>1, <2>8 DEF DropMember, CanRemoveMember, Usable
    <3> QED
      BY <2>2, <2>3, <2>4, <3>1, <3>2, <1>RemoveAhead
  <2> QED
    BY <2>5, <2>6, <2>7, <2>8
<1> Types
  BY DEF Typed
<1>1. ASSUME UNCHANGED mls PROVE Evolve
  BY <1>1, <1>NoneEvolves DEF Types
<1>2. ASSUME NEW d \in Daemons, NEW c \in Codes,
             CreateBegin(d, c) \/ ConsumeBegin(d, c) \/ SyncBegin(d, c)
      PROVE  Evolve
  BY <1>1, <1>2 DEF CreateBegin, ConsumeBegin, SyncBegin
<1>3. ASSUME NEW d \in Daemons, Confirm(d) \/ RejectPeer(d) \/ ApproveBegin(d) \/ Crash(d)
      PROVE  Evolve
  BY <1>1, <1>3 DEF Confirm, RejectPeer, ApproveBegin, Crash
<1>4. ASSUME NEW d \in Daemons, NEW t \in tasks[d], SyncEnd(d, t) \/ CompleteEnd(d, t)
      PROVE  Evolve
  BY <1>1, <1>4 DEF SyncEnd, CompleteEnd
<1>5. CASE RelayRestart \/ UNCHANGED vars \/ \E p \in Peers : Expire(p)
  BY <1>1, <1>5 DEF RelayRestart, vars, Expire
<1>6. ASSUME NEW d \in Daemons, NEW c \in Codes,
             SendMessage(d, c) \/ SendAttachment(d, c)
               \/ \E i \in 1..Len(sent) : ReadMessage(d, c, sent[i]) \/ ReadAttachment(d, c, sent[i])
      PROVE  Evolve
  BY <1>6, <1>TalkEvolves, <1>MisreadEvolves DEF SendAttachment, ReadAttachment
<1>7. ASSUME NEW d \in Daemons, NEW c \in Codes,
             \/ \E o \in Others : AddDevice(d, c, o)
             \/ \E m \in Daemons \cup Others : DropMember(d, c, m)
      PROVE  Evolve
  BY <1>7, <1>TalkEvolves
<1>8. ASSUME NEW d \in Daemons, NEW o \in Others, RevokeDevice(d, o) \/ RemoveDevice(d, o)
      PROVE  Evolve
  BY <1>8, <1>RemoveAllEvolves DEF RevokeDevice, RemoveDevice
<1>9. ASSUME NEW d \in Daemons, NEW a \in Daemons, DeleteContact(d, a) PROVE Evolve
  BY <1>1, <1>9, <1>DeleteEvolves DEF DeleteContact
<1> QED
  BY <1>2, <1>3, <1>4, <1>5, <1>6, <1>7, <1>8, <1>9, <1>CreateEvolves, <1>ConsumeEvolves,
     <1>ApproveEvolves, <1>CompleteEvolves, <1>MergeEvolves, <1>RestartEvolves DEF Next

-----------------------------------------------------------------------------
\* How one step changes the relay

Same(i, j) == i.status = j.status /\ i.owner = j.owner

\* create_invite answers the request of a daemon.
Opens(c) ==
    \E d \in Daemons : \E t \in tasks[d] :
        /\ t.op = "create" /\ t.code = c /\ t \notin tasks'[d]
        /\ relay'[c].status = "open" /\ relay'[c].owner = d

Uses(c) ==
    /\ relay[c].status = "open" /\ relay'[c].status = "consumed"
    /\ relay'[c].owner = relay[c].owner

\* The key package of a session that begins.
Offered(c, r) == \E d \in Daemons : r = PackageResponse(d, c) /\ Prepares(d, c)

\* A welcome of an approval, which the session and its checkpoint are not behind.
Welcomed(r) ==
    \E d \in Daemons : \E t \in tasks[d] : \E i \in DOMAIN t.packages :
        LET k == t.conversation IN
        /\ k \in Codes /\ r.kind = "welcome" /\ r.conversation = k /\ r.package = t.packages[i]
        /\ r.package.owner # d
        /\ sessions[d][k] \in Session /\ r.group = sessions[d][k].group
        /\ sessions'[d][k] \in Session /\ r.epoch <= sessions'[d][k].epoch
        /\ stored'[d][k] \in Session /\ r.epoch <= stored'[d][k].epoch /\ r.epoch <= commits'

Fresh(c, r) == Offered(c, r) \/ Welcomed(r)

\* Invites that differ from those of the relay in responses left under them.
Posts(X) ==
    /\ X \in [Codes -> Invite]
    /\ \A c \in Codes : Same(X[c], relay[c])
                         /\ \A r \in Under(X, c) : r \in Under(relay, c) \/ Fresh(c, r)

RelayStep(c) ==
    /\ Same(relay'[c], relay[c]) \/ Opens(c) \/ Uses(c) \/ Same(relay'[c], relayFile[c])
    /\ Same(relayFile'[c], relayFile[c]) \/ Same(relayFile'[c], relay'[c])
    /\ \A r \in Under(relay', c) \cup Under(relayFile', c) :
         r \in Under(relay, c) \/ r \in Under(relayFile, c) \/ Fresh(c, r)

RelaySteps ==
    /\ relay' \in [Codes -> Invite] /\ relayFile' \in [Codes -> Invite]
    /\ \A c \in Codes : RelayStep(c)

\* The welcomes of an approval, of which the relay takes the first ones.
Welcoming(d, t, j) ==
    [i \in 1..j |-> WelcomeResponse(t.conversation,
                      Welcomes(sessions[d][t.conversation], t.packages, commits)[i])]

\* Every step opens, uses, reloads or adds to invites, or leaves them alone.
LEMMA RelayMoves ==
    ASSUME Typed, InSync, Numbered, Unfounded, Aimed, [Next]_vars
    PROVE  RelaySteps
<1>NothingPosted.
      ASSUME Typed, Posts(relay'), Posts(relayFile') \/ relayFile' = relayFile
      PROVE  RelaySteps
  <2> USE <1>NothingPosted
  <2> Types
    BY DEF Typed
  <2>1. ASSUME NEW c \in Codes PROVE RelayStep(c)
    <3>1. CASE Posts(relayFile')
      BY <3>1 DEF RelayStep, Posts, Same
    <3>2. CASE relayFile' = relayFile
      BY <3>2 DEF RelayStep, Posts, Same
    <3> QED
      BY <3>1, <3>2
  <2> QED
    BY <2>1 DEF RelaySteps, Posts, Types
<1>RelayItself.
      ASSUME Typed
      PROVE  Posts(relay)
  <2> USE <1>RelayItself
  <2> Types
    BY DEF Typed
  <2> QED
    BY DEF Types, Posts, Same
\* Fresh responses that are left under a code.
<1>LeftPosts.
      ASSUME Typed, NEW c \in Codes, NEW q \in Seq(Response), \A i \in DOMAIN q : Fresh(c, q[i])
      PROVE  Posts(Left(c, q))
  <2> USE <1>LeftPosts
  <2> Types
    BY DEF Typed
  <2>1. PICK X : X = Left(c, q)
    OBVIOUS
  <2>2. PICK v : v = relay[c]
    OBVIOUS
  <2>3. v \in Invite
    BY SMTT(30), <2>2 DEF Types
  <2>4. PICK z : z = v.responses \o q
    OBVIOUS
  <2>5. PICK y : y = [v EXCEPT !.responses = z]
    OBVIOUS
  <2>6. v.responses \in Seq(Response)
    BY SMTT(30), <2>3 DEF Invite
  <2>7. z \in Seq(Response)
    BY SMTT(30), <2>4, <2>6
  <2>8. y \in Invite /\ y.status = v.status /\ y.owner = v.owner /\ y.responses = z
    BY SMTT(30), <2>3, <2>5, <2>7 DEF Invite
  <2>9. X = [relay EXCEPT ![c] = y]
    BY <2>1, <2>2, <2>4, <2>5 DEF Left
  <2>10. X \in [Codes -> Invite] /\ X[c] = y /\ \A k \in Codes : k # c => X[k] = relay[k]
    BY SMTT(30), <2>8, <2>9 DEF Types
  <2>11. ASSUME NEW r \in Under(X, c) PROVE r \in Under(relay, c) \/ Fresh(c, r)
    <3>1. PICK i \in DOMAIN z : r = z[i]
      BY <2>8, <2>10, <2>11 DEF Under
    <3>2. \/ i \in DOMAIN v.responses /\ z[i] = v.responses[i]
          \/ i - Len(v.responses) \in DOMAIN q /\ z[i] = q[i - Len(v.responses)]
      BY SMTT(30), <2>4, <2>6, <3>1
    <3> QED
      BY <2>2, <3>1, <3>2 DEF Under
  <2>12. ASSUME NEW k \in Codes, k # c
         PROVE  Same(X[k], relay[k]) /\ \A r \in Under(X, k) : r \in Under(relay, k)
    BY <2>10, <2>12 DEF Same, Under
  <2>13. Same(X[c], relay[c])
    BY <2>2, <2>8, <2>10 DEF Same
  <2> QED
    BY <2>1, <2>10, <2>11, <2>12, <2>13 DEF Posts
\* The call has its effect on the relay, or on the relay and its file.
<1>CallTakes.
      ASSUME NEW X, NEW outcome, RelayCall(X, outcome)
      PROVE  /\ relay' = relay \/ relay' = X
             /\ relayFile' = relayFile \/ (relayFile' = X /\ relay' = X)
  BY <1>CallTakes DEF RelayCall
<1>CreateRelays.
      ASSUME Typed, NEW d \in Daemons, NEW t \in tasks[d], CreateEnd(d, t)
      PROVE  RelaySteps
  <2> USE <1>CreateRelays
  <2> Types
    BY DEF Typed
  <2>1. t.op = "create" /\ t.code \in Codes
    BY TaskTypes DEF CreateEnd
  <2>2. PICK X : X = [relay EXCEPT ![t.code] = [@ EXCEPT !.status = "open", !.owner = d]]
    OBVIOUS
  <2>3. /\ relay' = relay \/ relay' = X
        /\ relayFile' = relayFile \/ (relayFile' = X /\ relay' = X)
    BY <2>2, <1>CallTakes DEF CreateEnd
  <2>4. PICK c : c = t.code
    OBVIOUS
  <2>9. PICK v : v = relay[c]
    OBVIOUS
  <2>10. PICK y : y = [v EXCEPT !.status = "open", !.owner = d]
    OBVIOUS
  <2>11. v \in Invite
    BY SMTT(30), <2>1, <2>4, <2>9 DEF Types
  <2>15. y \in Invite
    BY <2>10, <2>11 DEF Invite
  <2>16. y.status = "open" /\ y.owner = d /\ y.responses = v.responses
    BY SMTT(30), <2>10, <2>11 DEF Invite
  <2>12. y \in Invite /\ y.status = "open" /\ y.owner = d /\ y.responses = v.responses
    BY <2>15, <2>16
  <2>14. X = [relay EXCEPT ![c] = y]
    BY <2>2, <2>4, <2>9, <2>10
  <2>13. X \in [Codes -> Invite] /\ X[c] = y /\ \A k \in Codes : k # c => X[k] = relay[k]
    BY SMTT(30), <2>1, <2>4, <2>12, <2>14 DEF Types
  <2>5. /\ X \in [Codes -> Invite] /\ X[c].status = "open" /\ X[c].owner = d
        /\ X[c].responses = relay[c].responses /\ \A k \in Codes : k # c => X[k] = relay[k]
    BY <2>9, <2>12, <2>13
  <2>6. ASSUME NEW k \in Codes PROVE Under(X, k) = Under(relay, k)
    <3>1. X[k].responses = relay[k].responses
      BY <2>5
    <3> QED
      BY <3>1 DEF Under
  <2>17. t \notin tasks'[d]
    BY SMTT(30) DEF CreateEnd, Ends, Types
  <2>7. relay' = X => Opens(c)
    BY <2>1, <2>4, <2>5, <2>17 DEF Opens
  <2>8. ASSUME NEW k \in Codes PROVE RelayStep(k)
    <3>1. Same(relay'[k], relay[k]) \/ Opens(k)
      BY <2>3, <2>5, <2>7 DEF Same
    <3>2. Same(relayFile'[k], relayFile[k]) \/ Same(relayFile'[k], relay'[k])
      BY <2>3 DEF Same
    <3>3. Under(relay', k) = Under(relay, k)
      BY <2>3, <2>6
    <3>4. Under(relayFile', k) = Under(relay, k) \/ Under(relayFile', k) = Under(relayFile, k)
      BY <2>3, <2>6
    <3> QED
      BY <3>1, <3>2, <3>3, <3>4 DEF RelayStep
  <2> QED
    BY <2>3, <2>5, <2>8 DEF RelaySteps, Types
<1>ConsumeRelays.
      ASSUME Typed, NEW d \in Daemons, NEW c \in Codes, ConsumeBegin(d, c)
      PROVE  RelaySteps
  <2> USE <1>ConsumeRelays
  <2> Types
    BY DEF Typed
  <2>1. PICK X : X = [relay EXCEPT ![c].status = "consumed"]
    OBVIOUS
  <2>2. /\ relay' = relay \/ relay' = X
        /\ relayFile' = relayFile \/ (relayFile' = X /\ relay' = X)
    BY <2>1, <1>CallTakes DEF ConsumeBegin
  <2>3. relay[c].status = "open"
    BY DEF ConsumeBegin, CodeOpen
  <2>8. PICK v : v = relay[c]
    OBVIOUS
  <2>9. PICK y : y = [v EXCEPT !.status = "consumed"]
    OBVIOUS
  <2>10. v \in Invite
    BY SMTT(30), <2>8 DEF Types
  <2>11. y \in Invite /\ y.status = "consumed" /\ y.owner = v.owner /\ y.responses = v.responses
    BY SMTT(30), <2>9, <2>10 DEF Invite
  <2>12. X = [relay EXCEPT ![c] = y]
    BY <2>1, <2>8, <2>9
  <2>13. X \in [Codes -> Invite] /\ X[c] = y /\ \A k \in Codes : k # c => X[k] = relay[k]
    BY SMTT(30), <2>11, <2>12 DEF Types
  <2>4. /\ X \in [Codes -> Invite] /\ X[c].status = "consumed" /\ X[c].owner = relay[c].owner
        /\ X[c].responses = relay[c].responses /\ \A k \in Codes : k # c => X[k] = relay[k]
    BY <2>8, <2>11, <2>13
  <2>5. ASSUME NEW k \in Codes PROVE Under(X, k) = Under(relay, k)
    <3>1. X[k].responses = relay[k].responses
      BY <2>4
    <3> QED
      BY <3>1 DEF Under
  <2>6. relay' = X => Uses(c)
    BY <2>3, <2>4 DEF Uses
  <2>7. ASSUME NEW k \in Codes PROVE RelayStep(k)
    <3>1. Same(relay'[k], relay[k]) \/ Uses(k)
      BY <2>2, <2>4, <2>6 DEF Same
    <3>2. Same(relayFile'[k], relayFile[k]) \/ Same(relayFile'[k], relay'[k])
      BY <2>2 DEF Same
    <3>3. Under(relay', k) = Under(relay, k)
      BY <2>2, <2>5
    <3>4. Under(relayFile', k) = Under(relay, k) \/ Under(relayFile', k) = Under(relayFile, k)
      BY <2>2, <2>5
    <3> QED
      BY <3>1, <3>2, <3>3, <3>4 DEF RelayStep
  <2> QED
    BY <2>2, <2>4, <2>7 DEF RelaySteps, Types
<1>PrepareRelays.
      ASSUME Typed, Unfounded, Aimed, NEW d \in Daemons, NEW t \in tasks[d], ConsumeEnd(d, t)
      PROVE  RelaySteps
  <2> USE <1>PrepareRelays
  <2> Types
    BY DEF Typed
  <2>1. PICK c : c = t.code
    OBVIOUS
  <2>2. c \in Codes
    BY <2>1, TaskTypes
  <2>8. t.op = "consume"
    BY DEF ConsumeEnd
  <2>3. PICK r : r = PackageResponse(d, c)
    OBVIOUS
  <2>4. PICK X : X = Left(c, <<r>>)
    OBVIOUS
  <2>5. r \in Response
    <3>1. KeyPackage(d, c) \in KeyPackages
      BY SMTT(30), <2>2 DEF KeyPackages, KeyPackage
    <3>2. PICK k : k = KeyPackage(d, c)
      OBVIOUS
    <3>3. r = [kind |-> "key-package", conversation |-> c, package |-> k,
               group |-> <<d, c>>, epoch |-> 0, members |-> {}]
      BY <2>3, <3>2 DEF PackageResponse
    <3> QED
      BY SMTT(30), <2>2, <3>1, <3>2, <3>3 DEF Response
  <2>6. CASE relay' = relay /\ relayFile' = relayFile
    BY <2>6, <1>RelayItself, <1>NothingPosted
  <2>7. CASE /\ sessions[d][c] = NoSession
             /\ sessions' = [sessions EXCEPT ![d][c] = Prepare(d, c)]
             /\ stored' = [stored EXCEPT ![d][c] = Prepare(d, c)]
             /\ \E outcome : RelayCall(X, outcome)
    <3>1. PICK n : n = Prepare(d, c)
      OBVIOUS
    <3>2. sessions'[d][c] = n /\ stored'[d][c] = n
      BY SMTT(30), <2>2, <2>7, <3>1 DEF Types, Catalogs
    <3>3. ~Had(d, c) /\ Consumes(d, c) /\ ~Consumes(d, c)'
      BY <2>1, <2>8, ConsumeEnds DEF Unfounded
    <3>4. Fresh(c, r)
      BY <2>3, <2>7, <3>1, <3>2, <3>3 DEF Fresh, Offered, Prepares, Begun
    <3>5. <<r>> \in Seq(Response) /\ \A i \in DOMAIN <<r>> : <<r>>[i] = r
      BY SMTT(30), <2>5
    <3>6. Posts(X)
      BY <2>2, <2>4, <3>4, <3>5, <1>LeftPosts
    <3>8. /\ relay' = relay \/ relay' = X
          /\ relayFile' = relayFile \/ relayFile' = X
      BY <2>7, <1>CallTakes
    <3>9. Posts(relay)
      BY <1>RelayItself
    <3>7. Posts(relay') /\ (Posts(relayFile') \/ relayFile' = relayFile)
      BY <3>6, <3>8, <3>9
    <3> QED
      BY <3>7, <1>NothingPosted
  <2> QED
    BY <2>1, <2>3, <2>4, <2>6, <2>7 DEF ConsumeEnd, NewSession, relayState
<1>ApprovePosts.
      ASSUME Typed, NEW d \in Daemons, NEW t \in tasks[d], ApproveEnd(d, t)
      PROVE  \/ relay' = relay /\ relayFile' = relayFile
             \/ /\ \A i \in 1..Len(t.packages) : CanAddNext(d, sessions[d][t.conversation], t.packages, i)
                /\ commits' = commits + Len(t.packages)
                /\ SaveSession(d, t.conversation,
                     AddMembers(sessions[d][t.conversation], t.packages, Len(t.packages), commits), TRUE)
                /\ \E j \in 0..Len(t.packages) : relay' = Left(t.code, Welcoming(d, t, j))
                /\ relayFile' = relayFile
                     \/ \E j \in 0..Len(t.packages) : relayFile' = Left(t.code, Welcoming(d, t, j))
  <2> USE <1>ApprovePosts
  <2>1. t.packages \in Seq(KeyPackages)
    BY TaskTypes
  <2>2. \A k \in 0..Len(t.packages) : k # Len(t.packages) => k + 1 \in 0..Len(t.packages)
    BY SMTT(30), <2>1
  <2>3. CASE UNCHANGED relayState
    BY <2>3 DEF relayState
  <2>4. ASSUME NEW k \in 0..Len(t.packages), NEW outcome \in Outcomes,
               (outcome = "accepted") = (k = Len(t.packages)),
               relay' = IF k = Len(t.packages) \/ outcome = "refused" THEN Left(t.code, Welcoming(d, t, k))
                        ELSE Left(t.code, Welcoming(d, t, k + 1)),
               relayFile' = CASE outcome = "lost" -> Left(t.code, Welcoming(d, t, k + 1))
                              [] outcome # "lost" /\ k > 0 -> Left(t.code, Welcoming(d, t, k))
                              [] OTHER -> relayFile
        PROVE  /\ \E j \in 0..Len(t.packages) : relay' = Left(t.code, Welcoming(d, t, j))
               /\ relayFile' = relayFile
                    \/ \E j \in 0..Len(t.packages) : relayFile' = Left(t.code, Welcoming(d, t, j))
    <3>1. \E j \in 0..Len(t.packages) : relay' = Left(t.code, Welcoming(d, t, j))
      BY <2>2, <2>4
    <3>2. outcome = "lost" => k # Len(t.packages)
      BY <2>4
    <3>3. CASE outcome = "lost"
      BY <2>2, <2>4, <3>1, <3>2, <3>3
    <3>4. CASE outcome # "lost"
      BY <2>4, <3>1, <3>4
    <3> QED
      BY <3>3, <3>4
  <2> QED
    BY ZenonT(60), <2>3, <2>4 DEF ApproveEnd, Welcoming
<1>ApproveRelays.
      ASSUME Typed, InSync, Numbered, Aimed, NEW d \in Daemons, NEW t \in tasks[d], ApproveEnd(d, t)
      PROVE  RelaySteps
  <2> USE <1>ApproveRelays
  <2> Types
    BY DEF Typed
  <2>1. t.op = "approve" /\ t.packages \in Seq(KeyPackages) /\ t.code \in Codes
    BY TaskTypes DEF ApproveEnd
  <2>2. PICK c : c = t.conversation
    OBVIOUS
  <2>3. c \in Codes
    BY <2>1, <2>2 DEF Aimed
  <2>4. PICK s : s = sessions[d][c]
    OBVIOUS
  <2>5. PICK p : p = t.packages
    OBVIOUS
  <2>6. CASE relay' = relay /\ relayFile' = relayFile
    BY <2>6, <1>RelayItself, <1>NothingPosted
  <2>7. CASE /\ \A i \in 1..Len(p) : CanAddNext(d, s, p, i)
             /\ commits' = commits + Len(p)
             /\ SaveSession(d, c, AddMembers(s, p, Len(p), commits), TRUE)
    <3>A. PICK n : n = AddMembers(s, p, Len(p), commits)
      OBVIOUS
    <3>B. sessions' = [sessions EXCEPT ![d][c] = n] /\ stored' = [stored EXCEPT ![d][c] = n]
      BY <2>7, <3>A DEF SaveSession
    <3>C. sessions'[d][c] = n /\ stored'[d][c] = n
      BY SMTT(30), <2>3, <3>B DEF Types, Catalogs
    <3>1. ASSUME NEW j \in 0..Len(p) PROVE Posts(Left(t.code, Welcoming(d, t, j)))
      <4>1. PICK q : q = Welcoming(d, t, j)
        OBVIOUS
      <4>2. ASSUME NEW i \in 1..j PROVE q[i] \in Response /\ Fresh(t.code, q[i])
        <5>1. i \in 1..Len(p) /\ i \in DOMAIN p /\ p[i] \in KeyPackages /\ Len(p) \in 0..Len(p)
          BY SMTT(30), <2>1, <2>5, <3>1, <4>2
        <5>2. s # NoSession
          BY <2>7, <5>1 DEF CanAddNext, CanAddMember, Usable
        <5>3. s \in Session /\ s.epoch <= commits
          BY <2>3, <2>4, <5>2, CatalogTypes DEF Types, Numbered
        <5>4. commits + Len(p) <= commits' /\ commits \in Nat
          BY SMTT(30), <2>1, <2>5, <2>7 DEF Types
        <5>5. Ahead(s, n)
          BY <2>1, <2>5, <3>A, <5>1, <5>3, <5>4, AddAhead
        <5>6. n \in Session
          BY <5>5 DEF Ahead
        <5>A. Len(p) # 0
          BY SMTT(30), <2>1, <2>5, <5>1
        <5>7. n = Commit(s, s.members \cup Owners(p, Len(p)), commits + Len(p))
          BY <3>A, <5>A DEF AddMembers
        <5>8. PICK m : m = s.members \cup Owners(p, Len(p))
          OBVIOUS
        <5>9. PICK e : e = commits + Len(p)
          OBVIOUS
        <5>10. n.epoch = e
          BY SMTT(30), <5>3, <5>7, <5>8, <5>9 DEF Commit, Session
        <5>B. commits' = e
          BY <2>7, <5>9
        <5>11. commits + i \in Nat /\ commits + i <= e /\ commits + i <= commits'
          BY SMTT(30), <2>1, <2>5, <5>1, <5>4, <5>9, <5>B
        <5>12. PICK u : u = s.members \cup Owners(p, i)
          OBVIOUS
        <5>13. u \in SUBSET (Daemons \cup Others)
          <6>1. \A k \in KeyPackages : k.owner \in Daemons
            BY SMTT(30) DEF KeyPackages, KeyPackage
          <6>2. \A l \in 1..i : p[l] \in KeyPackages
            BY SMTT(30), <2>1, <2>5, <5>1
          <6>3. Owners(p, i) \subseteq Daemons
            BY <6>1, <6>2 DEF Owners
          <6>4. s.members \in SUBSET (Daemons \cup Others)
            BY SMTT(30), <5>3 DEF Session
          <6> QED
            BY <5>12, <6>3, <6>4
        <5>14. Welcomes(s, p, commits)[i] = [package |-> p[i], group |-> s.group, epoch |-> commits + i,
                                             members |-> u]
          BY <5>1, <5>12 DEF Welcomes
        <5>15. q[i] = WelcomeResponse(c, Welcomes(s, p, commits)[i])
          BY <2>2, <2>4, <2>5, <4>1, <4>2 DEF Welcoming
        <5>16. q[i] = [kind |-> "welcome", conversation |-> c, package |-> p[i],
                       group |-> s.group, epoch |-> commits + i, members |-> u]
          BY SMTT(30), <5>14, <5>15 DEF WelcomeResponse
        <5>17. s.group \in Daemons \X Codes
          BY SMTT(30), <5>3 DEF Session
        <5>18. PICK k : k = p[i]
          OBVIOUS
        <5>19. PICK g : g = s.group
          OBVIOUS
        <5>20. PICK a : a = commits + i
          OBVIOUS
        <5>21. PICK r : r = q[i]
          OBVIOUS
        <5>22. r = [kind |-> "welcome", conversation |-> c, package |-> k,
                    group |-> g, epoch |-> a, members |-> u]
          BY <5>16, <5>18, <5>19, <5>20, <5>21
        <5>23. /\ r \in Response /\ r.kind = "welcome" /\ r.conversation = c /\ r.package = k
               /\ r.group = g /\ r.epoch = a
          BY SMTT(30), <2>3, <5>1, <5>11, <5>13, <5>17, <5>18, <5>19, <5>20, <5>22 DEF Response
        <5>25. k.owner # d
          BY <2>7, <5>1, <5>18 DEF CanAddNext, CanAddMember
        <5>24. Welcomed(r)
          BY <5>25, <2>2, <2>3, <2>4, <2>5, <3>C, <5>1, <5>3, <5>6, <5>10, <5>11, <5>18, <5>19, <5>20,
             <5>23 DEF Welcomed
        <5> QED
          BY <5>21, <5>23, <5>24 DEF Fresh
      <4>3. q \in [1..j -> Response] /\ DOMAIN q = 1..j /\ j \in Nat
        <5>1. DOMAIN q = 1..j /\ q = [i \in 1..j |-> q[i]]
          BY <4>1 DEF Welcoming
        <5>2. j \in Nat
          BY SMTT(30), <2>1, <2>5, <3>1
        <5> QED
          BY <4>2, <5>1, <5>2
      <4>4. q \in Seq(Response)
        BY SMTT(30), <4>3
      <4> QED
        BY <2>1, <4>1, <4>2, <4>3, <4>4, <1>LeftPosts
    <3>2. Posts(relay') /\ (Posts(relayFile') \/ relayFile' = relayFile)
      BY <2>5, <2>6, <3>1, <1>ApprovePosts, <1>RelayItself
    <3> QED
      BY <3>2, <1>NothingPosted
  <2> QED
    BY <2>2, <2>4, <2>5, <2>6, <2>7, <1>ApprovePosts
<1> Types
  BY DEF Typed
<1>1. ASSUME relay' = relay, relayFile' = relayFile PROVE RelaySteps
  BY <1>1, <1>RelayItself, <1>NothingPosted
<1>2. ASSUME NEW d \in Daemons, NEW c \in Codes,
             \/ CreateBegin(d, c) \/ SyncBegin(d, c) \/ CompleteBegin(d, c)
             \/ SendMessage(d, c) \/ SendAttachment(d, c)
             \/ \E i \in 1..Len(sent) : ReadMessage(d, c, sent[i]) \/ ReadAttachment(d, c, sent[i])
             \/ \E w \in removals : ReadRemoval(d, c, w)
             \/ \E o \in Others : AddDevice(d, c, o)
             \/ \E m \in Daemons \cup Others : DropMember(d, c, m)
      PROVE  RelaySteps
  BY <1>1, <1>2 DEF CreateBegin, SyncBegin, CompleteBegin, SendMessage, SendAttachment,
     ReadMessage, ReadAttachment, MisreadMessage, ReadRemoval, AddDevice, DropMember, relayState
<1>3. ASSUME NEW d \in Daemons,
             \/ Confirm(d) \/ RejectPeer(d) \/ ApproveBegin(d) \/ Crash(d) \/ Restart(d)
             \/ \E t \in tasks[d] : SyncEnd(d, t) \/ CompleteEnd(d, t)
             \/ \E o \in Others : RevokeDevice(d, o) \/ RemoveDevice(d, o)
             \/ \E a \in Daemons : DeleteContact(d, a)
      PROVE  RelaySteps
  BY <1>1, <1>3 DEF Confirm, RejectPeer, ApproveBegin, Crash, Restart, SyncEnd, CompleteEnd,
     RevokeDevice, RemoveDevice, RemoveFromAll, DeleteContact, relayState
<1>4. CASE UNCHANGED vars \/ \E p \in Peers : Expire(p)
  BY <1>1, <1>4 DEF vars, Expire, relayState
<1>5. CASE RelayRestart
  BY <1>5 DEF RelayRestart, RelaySteps, RelayStep, Types, Same, Under
<1> QED
  BY <1>2, <1>3, <1>4, <1>5, <1>CreateRelays, <1>ConsumeRelays, <1>PrepareRelays, <1>ApproveRelays DEF Next

-----------------------------------------------------------------------------
\* How one step changes the requests on their way and the pending lists

\* What a request may have read when it gives the mutexes back.
Starts(d, t) ==
    \/ /\ t.op = "create" /\ t.packages = <<>> /\ relay[t.code].status = "none"
       /\ \A e \in Daemons : \A u \in tasks[e] : u.code # t.code
       /\ UNCHANGED <<relay, relayFile>>
    \/ /\ t.op = "consume" /\ t.packages = <<>> /\ t = NewTask("consume", t.code, t.code, <<>>)
       /\ relay[t.code].status = "open" /\ relay[t.code].owner # d
       /\ opened' = Append(opened, t.code)
    \/ /\ t.op = "approve" /\ t.conversation \in Codes
       /\ t.packages = packages[d] /\ packages[d] # <<>>
    \/ t.op \in {"sync", "complete"} /\ t.packages = <<>>

TaskSteps ==
    /\ tasks' \in [Daemons -> SUBSET Task]
    /\ \/ \A d \in Daemons : tasks'[d] \subseteq tasks[d]
       \/ \E d \in Daemons, t \in Task :
            /\ \A e \in Daemons : \A u \in tasks'[e] : u \in tasks[e] \/ (e = d /\ u = t)
            /\ Starts(d, t)

LEMMA NoPackages == <<>> \in Seq(KeyPackages)
  BY SMTT(30)

LEMMA TaskMoves ==
    ASSUME Typed, [Next]_vars
    PROVE  TaskSteps
<1>TaskBegins.
      ASSUME Typed, NEW d \in Daemons, NEW t \in Task, Begins(d, t), Starts(d, t)
      PROVE  TaskSteps
  <2> USE <1>TaskBegins
  <2> Types
    BY DEF Typed
  <2>1. /\ tasks' \in [Daemons -> SUBSET Task]
        /\ \A e \in Daemons : \A u \in tasks'[e] : u \in tasks[e] \/ (e = d /\ u = t)
    BY SMTT(30) DEF Types, Begins
  <2> QED
    BY <2>1 DEF TaskSteps
<1>TaskEnds.
      ASSUME Typed, NEW d \in Daemons, NEW t, Ends(d, t)
      PROVE  TaskSteps
  <2> USE <1>TaskEnds
  <2> Types
    BY DEF Typed
  <2>1. /\ tasks' \in [Daemons -> SUBSET Task]
        /\ \A e \in Daemons : tasks'[e] \subseteq tasks[e]
    BY SMTT(30) DEF Types, Ends
  <2> QED
    BY <2>1 DEF TaskSteps
<1>TasksStay.
      ASSUME Typed, UNCHANGED tasks
      PROVE  TaskSteps
  <2> USE <1>TasksStay
  <2> Types
    BY DEF Typed
  <2> QED
    BY DEF Types, TaskSteps
<1> Types
  BY DEF Typed
<1>1. ASSUME NEW d \in Daemons, NEW c \in Codes, CreateBegin(d, c) PROVE TaskSteps
  <2>1. PICK t : t = NewTask("create", c, c, <<>>)
    OBVIOUS
  <2>2. t \in Task /\ t.op = "create" /\ t.code = c /\ t.packages = <<>>
    BY SMTT(30), <2>1, NoPackages DEF NewTask, Task
  <2>3. UNCHANGED tasks \/ Begins(d, t)
    BY <1>1, <2>1 DEF CreateBegin
  <2>4. Starts(d, t)
    BY <1>1, <2>2 DEF CreateBegin, Starts, Made, relayState
  <2> QED
    BY <2>2, <2>3, <2>4, <1>TaskBegins, <1>TasksStay
<1>2. ASSUME NEW d \in Daemons, NEW c \in Codes, ConsumeBegin(d, c) PROVE TaskSteps
  <2>1. PICK t : t = NewTask("consume", c, c, <<>>)
    OBVIOUS
  <2>2. t \in Task /\ t.op = "consume" /\ t.code = c /\ t.packages = <<>>
    BY SMTT(30), <2>1, NoPackages DEF NewTask, Task
  <2>3. PICK h : h = Peer(relay[c].owner, c)
    OBVIOUS
  <2>5. \/ UNCHANGED tasks
        \/ /\ Begins(d, t) /\ opened' = Append(opened, c)
           /\ P(d)!CanVerifyPeer(pairing[d], h, expired)
    BY <1>2, <2>1, <2>3 DEF ConsumeBegin
  <2>6. h.account = relay[c].owner
    BY SMTT(30), <2>3 DEF Peer
  <2>7. P(d)!CanVerifyPeer(pairing[d], h, expired) => relay[c].owner # d
    BY <2>6 DEF P!CanVerifyPeer
  <2>8. relay[c].status = "open"
    BY <1>2 DEF ConsumeBegin, CodeOpen
  <2>4. opened' = Append(opened, c) /\ relay[c].owner # d => Starts(d, t)
    BY <2>1, <2>2, <2>8 DEF Starts
  <2> QED
    BY <2>2, <2>4, <2>5, <2>7, <1>TaskBegins, <1>TasksStay
<1>3. ASSUME NEW d \in Daemons, NEW c \in Codes, SyncBegin(d, c) PROVE TaskSteps
  <2>1. PICK t : t = NewTask("sync", c, conversation[d], <<>>)
    OBVIOUS
  <2>2. conversation[d] \in Codes \cup {None}
    BY SMTT(30) DEF Types
  <2>3. t \in Task /\ t.op = "sync" /\ t.packages = <<>>
    BY SMTT(30), <2>1, <2>2, NoPackages DEF NewTask, Task
  <2> QED
    BY <1>3, <2>1, <2>3, <1>TaskBegins DEF SyncBegin, Starts
<1>4. ASSUME NEW d \in Daemons, NEW c \in Codes, CompleteBegin(d, c) PROVE TaskSteps
  <2>1. PICK t : t = NewTask("complete", c, conversation[d], <<>>)
    OBVIOUS
  <2>2. conversation[d] \in Codes \cup {None}
    BY SMTT(30) DEF Types
  <2>3. t \in Task /\ t.op = "complete" /\ t.packages = <<>>
    BY SMTT(30), <2>1, <2>2, NoPackages DEF NewTask, Task
  <2>4. UNCHANGED tasks \/ Begins(d, t)
    BY <1>4, <2>1 DEF CompleteBegin
  <2> QED
    BY <2>3, <2>4, <1>TaskBegins, <1>TasksStay DEF Starts
<1>5. ASSUME NEW d \in Daemons, ApproveBegin(d) PROVE TaskSteps
  <2>1. PICK t : t = NewTask("approve", codes[d][Len(codes[d])], conversation[d], packages[d])
    OBVIOUS
  <2>2. UNCHANGED tasks
          \/ (Begins(d, t) /\ codes[d] # <<>> /\ conversation[d] # None /\ packages[d] # <<>>)
    BY <1>5, <2>1 DEF ApproveBegin
  <2>3. ASSUME Begins(d, t), codes[d] # <<>>, conversation[d] # None, packages[d] # <<>>
        PROVE  TaskSteps
    <3>1. PICK q : q = codes[d]
      OBVIOUS
    <3>2. q \in Seq(Codes)
      BY SMTT(30), <3>1 DEF Types
    <3>3. q[Len(q)] \in Codes
      BY SMTT(30), <2>3, <3>1, <3>2
    <3>4. conversation[d] \in Codes /\ packages[d] \in Seq(KeyPackages)
      BY SMTT(30), <2>3 DEF Types
    <3>6. PICK x : x = q[Len(q)]
      OBVIOUS
    <3>7. PICK z : z = packages[d]
      OBVIOUS
    <3>8. t = NewTask("approve", x, conversation[d], z)
      BY <2>1, <3>1, <3>6, <3>7
    <3>9. t \in Task /\ t.op = "approve" /\ t.conversation = conversation[d] /\ t.packages = z
      BY SMTT(30), <3>3, <3>4, <3>6, <3>7, <3>8 DEF NewTask, Task
    <3>5. t \in Task /\ t.op = "approve" /\ t.conversation = conversation[d] /\ t.packages = packages[d]
      BY <3>7, <3>9
    <3> QED
      BY <2>3, <3>4, <3>5, <1>TaskBegins DEF Starts
  <2> QED
    BY <2>2, <2>3, <1>TasksStay
<1>6. ASSUME NEW d \in Daemons, NEW t \in tasks[d],
             CreateEnd(d, t) \/ ConsumeEnd(d, t) \/ SyncEnd(d, t) \/ ApproveEnd(d, t) \/ CompleteEnd(d, t)
      PROVE  TaskSteps
  BY <1>6, <1>TaskEnds DEF CreateEnd, ConsumeEnd, SyncEnd, ApproveEnd, CompleteEnd
<1>7. ASSUME NEW d \in Daemons, Crash(d) PROVE TaskSteps
  <2>1. /\ tasks' \in [Daemons -> SUBSET Task]
        /\ \A e \in Daemons : tasks'[e] \subseteq tasks[e]
    BY SMTT(30), <1>7 DEF Types, Crash
  <2> QED
    BY <2>1 DEF TaskSteps
<1>8. ASSUME NEW d \in Daemons, NEW c \in Codes,
             \/ SendMessage(d, c) \/ SendAttachment(d, c)
             \/ \E i \in 1..Len(sent) : ReadMessage(d, c, sent[i]) \/ ReadAttachment(d, c, sent[i])
             \/ \E w \in removals : ReadRemoval(d, c, w)
             \/ \E o \in Others : AddDevice(d, c, o)
             \/ \E m \in Daemons \cup Others : DropMember(d, c, m)
      PROVE  TaskSteps
  BY <1>8, <1>TasksStay DEF SendMessage, SendAttachment,
     ReadMessage, ReadAttachment, MisreadMessage, ReadRemoval, AddDevice, DropMember
<1>9. ASSUME NEW d \in Daemons,
             \/ Confirm(d) \/ RejectPeer(d) \/ Restart(d)
             \/ \E o \in Others : RevokeDevice(d, o) \/ RemoveDevice(d, o)
             \/ \E a \in Daemons : DeleteContact(d, a)
      PROVE  TaskSteps
  BY <1>9, <1>TasksStay DEF Confirm, RejectPeer, Restart, RevokeDevice, RemoveDevice, RemoveFromAll,
     DeleteContact
<1>10. CASE UNCHANGED vars \/ RelayRestart \/ \E p \in Peers : Expire(p)
  BY <1>10, <1>TasksStay DEF vars, RelayRestart, Expire
<1> QED
  BY <1>1, <1>2, <1>3, <1>4, <1>5, <1>6, <1>7, <1>8, <1>9, <1>10 DEF Next

\* A pending package was pending before, or was read under a code.
PendingSteps ==
    /\ codes' \in [Daemons -> Seq(Codes)] /\ conversation' \in [Daemons -> Codes \cup {None}]
    /\ packages' \in [Daemons -> Seq(KeyPackages)] /\ up' \subseteq Daemons
    /\ \A d \in Daemons : \A i \in DOMAIN packages'[d] :
         \/ \E j \in DOMAIN packages[d] : packages'[d][i] = packages[d][j]
         \/ \E c \in Codes : \E r \in Under(relay, c) : packages'[d][i] = r.package

LEMMA PendingMoves ==
    ASSUME Typed, [Next]_vars
    PROVE  PendingSteps
<1>PackagesStay.
      ASSUME Typed, UNCHANGED packages, up' \subseteq Daemons,
             codes' \in [Daemons -> Seq(Codes)], conversation' \in [Daemons -> Codes \cup {None}]
      PROVE  PendingSteps
  <2> USE <1>PackagesStay
  <2> Types
    BY DEF Typed
  <2> QED
    BY DEF Types, PendingSteps
<1>ForgetTypes.
      ASSUME Typed, NEW d \in Daemons, NEW c, Forget(d, c)
      PROVE  codes' \in [Daemons -> Seq(Codes)]
  <2> USE <1>ForgetTypes
  <2> Types
    BY DEF Typed
  <2>1. CASE UNCHANGED codes
    BY <2>1 DEF Types
  <2>2. ASSUME NEW i \in Pending(d, c),
               codes' = [codes EXCEPT ![d] = SubSeq(@, 1, i - 1) \o SubSeq(@, i + 1, Len(@))]
        PROVE  codes' \in [Daemons -> Seq(Codes)]
    <3>1. PICK q : q = codes[d]
      OBVIOUS
    <3>2. q \in Seq(Codes)
      BY SMTT(30), <3>1 DEF Types
    <3>3. i \in 1..Len(q)
      BY SMTT(30), <2>2, <3>1, <3>2 DEF Pending
    <3>4. SubSeq(q, 1, i - 1) \in Seq(Codes) /\ SubSeq(q, i + 1, Len(q)) \in Seq(Codes)
      BY SMTT(30), <3>2, <3>3
    <3>5. PICK x : x = SubSeq(q, 1, i - 1)
      OBVIOUS
    <3>6. PICK y : y = SubSeq(q, i + 1, Len(q))
      OBVIOUS
    <3>7. x \o y \in Seq(Codes)
      BY SMTT(30), <3>4, <3>5, <3>6
    <3>8. PICK z : z = x \o y
      OBVIOUS
    <3>9. codes' = [codes EXCEPT ![d] = z]
      BY <2>2, <3>1, <3>5, <3>6, <3>8
    <3> QED
      BY SMTT(30), <3>7, <3>8, <3>9 DEF Types
  <2> QED
    BY <2>1, <2>2 DEF Forget
<1> Types
  BY DEF Typed
<1>1. ASSUME UNCHANGED <<pending, up>> PROVE PendingSteps
  BY <1>1, <1>PackagesStay DEF pending, Types
<1>2. ASSUME NEW d \in Daemons, NEW t \in tasks[d], CreateEnd(d, t) \/ ConsumeEnd(d, t) PROVE PendingSteps
  <2>1. PICK c : c = t.code
    OBVIOUS
  <2>2. c \in Codes
    BY <2>1, TaskTypes
  <2>3. /\ UNCHANGED <<packages, up>>
        /\ \/ UNCHANGED <<codes, conversation>>
           \/ /\ codes' = [codes EXCEPT ![d] = Append(@, c)]
              /\ conversation' = [conversation EXCEPT ![d] = c]
    BY <1>2, <2>1 DEF CreateEnd, ConsumeEnd
  <2>6. codes \in [Daemons -> Seq(Codes)] /\ conversation \in [Daemons -> Codes \cup {None}]
    BY DEF Types
  <2>4. codes' \in [Daemons -> Seq(Codes)] /\ conversation' \in [Daemons -> Codes \cup {None}]
    <3>1. CASE UNCHANGED <<codes, conversation>>
      BY <2>6, <3>1
    <3>2. CASE /\ codes' = [codes EXCEPT ![d] = Append(@, c)]
               /\ conversation' = [conversation EXCEPT ![d] = c]
      BY SMTT(30), <2>2, <2>6, <3>2
    <3> QED
      BY <2>3, <3>1, <3>2
  <2>5. up' \subseteq Daemons
    BY <2>3 DEF Types
  <2> QED
    BY <2>3, <2>4, <2>5, <1>PackagesStay
<1>3. ASSUME NEW d \in Daemons, NEW t \in tasks[d], CompleteEnd(d, t) PROVE PendingSteps
  <2>1. /\ UNCHANGED <<packages, up>>
        /\ \/ UNCHANGED <<codes, conversation>>
           \/ Forget(d, t.code) /\ conversation' = [conversation EXCEPT ![d] = None]
    BY <1>3 DEF CompleteEnd
  <2>2. codes' \in [Daemons -> Seq(Codes)]
    BY <2>1, <1>ForgetTypes DEF Types
  <2>5. conversation \in [Daemons -> Codes \cup {None}]
    BY DEF Types
  <2>6. UNCHANGED conversation \/ conversation' = [conversation EXCEPT ![d] = None]
    BY <2>1
  <2>3. conversation' \in [Daemons -> Codes \cup {None}]
    BY SMTT(30), <2>5, <2>6
  <2>4. up' \subseteq Daemons
    BY <2>1 DEF Types
  <2> QED
    BY <2>1, <2>2, <2>3, <2>4, <1>PackagesStay
<1>4. ASSUME NEW d \in Daemons, NEW t \in tasks[d], ApproveEnd(d, t) PROVE PendingSteps
  <2>1. /\ UNCHANGED <<conversation, up>>
        /\ \/ UNCHANGED <<codes, packages>>
           \/ Forget(d, t.code) /\ packages' = [packages EXCEPT ![d] = <<>>]
    BY <1>4 DEF ApproveEnd
  <2>2. codes' \in [Daemons -> Seq(Codes)]
    BY <2>1, <1>ForgetTypes DEF Types
  <2>3. conversation' \in [Daemons -> Codes \cup {None}] /\ up' \subseteq Daemons
    BY <2>1 DEF Types
  <2>4. CASE packages' = [packages EXCEPT ![d] = <<>>]
    <3>1. packages' \in [Daemons -> Seq(KeyPackages)]
      BY SMTT(30), <2>4, NoPackages DEF Types
    <3>2. \A e \in Daemons : \A i \in DOMAIN packages'[e] :
            i \in DOMAIN packages[e] /\ packages'[e][i] = packages[e][i]
      BY SMTT(30), <2>4 DEF Types
    <3> QED
      BY <2>2, <2>3, <3>1, <3>2 DEF PendingSteps
  <2> QED
    BY <2>1, <2>2, <2>3, <2>4, <1>PackagesStay
<1>5. ASSUME NEW d \in Daemons, NEW t \in tasks[d], SyncEnd(d, t) PROVE PendingSteps
  <2>1. PICK c : c = t.code
    OBVIOUS
  <2>2. c \in Codes
    BY <2>1, TaskTypes
  <2>3. /\ UNCHANGED <<codes, conversation, up>>
        /\ \/ UNCHANGED packages
           \/ \E i \in DOMAIN relay[c].responses :
                packages' = [packages EXCEPT ![d] = Append(@, relay[c].responses[i].package)]
    BY <1>5, <2>1 DEF SyncEnd, Offers
  <2>4. codes' \in [Daemons -> Seq(Codes)] /\ conversation' \in [Daemons -> Codes \cup {None}]
    BY <2>3 DEF Types
  <2>5. up' \subseteq Daemons
    BY <2>3 DEF Types
  <2>6. ASSUME NEW i \in DOMAIN relay[c].responses,
               packages' = [packages EXCEPT ![d] = Append(@, relay[c].responses[i].package)]
        PROVE  PendingSteps
    <3>1. PICK r : r = relay[c].responses[i]
      OBVIOUS
    <3>2. r \in Under(relay, c)
      BY <2>6, <3>1 DEF Under
    <3>3. r \in Response
      BY <2>2, <3>2, UnderTypes DEF Types
    <3>4. PICK k : k = r.package
      OBVIOUS
    <3>5. k \in KeyPackages
      BY SMTT(30), <3>3, <3>4 DEF Response
    <3>6. packages' = [packages EXCEPT ![d] = Append(@, k)]
      BY <2>6, <3>1, <3>4
    <3>7. packages' \in [Daemons -> Seq(KeyPackages)]
      BY SMTT(30), <3>5, <3>6 DEF Types
    <3>8. \A e \in Daemons : \A j \in DOMAIN packages'[e] :
            (j \in DOMAIN packages[e] /\ packages'[e][j] = packages[e][j]) \/ packages'[e][j] = k
      <4>1. PICK q : q = packages[d]
        OBVIOUS
      <4>2. q \in Seq(KeyPackages)
        BY SMTT(30), <4>1 DEF Types
      <4>3. PICK z : z = Append(q, k)
        OBVIOUS
      <4>4. \A j \in DOMAIN z : (j \in DOMAIN q /\ z[j] = q[j]) \/ z[j] = k
        BY SMTT(30), <4>2, <4>3
      <4>5. packages' = [packages EXCEPT ![d] = z]
        BY <3>6, <4>1, <4>3
      <4>6. packages'[d] = z /\ \A e \in Daemons : e # d => packages'[e] = packages[e]
        BY SMTT(30), <4>5 DEF Types
      <4> QED
        BY <4>1, <4>4, <4>6
    <3> QED
      BY <2>2, <2>4, <2>5, <3>2, <3>4, <3>7, <3>8 DEF PendingSteps
  <2> QED
    BY <2>3, <2>4, <2>5, <2>6, <1>PackagesStay
<1>6. ASSUME NEW d \in Daemons, Crash(d) PROVE PendingSteps
  <2>1. /\ codes' \in [Daemons -> Seq(Codes)] /\ conversation' \in [Daemons -> Codes \cup {None}]
        /\ packages' \in [Daemons -> Seq(KeyPackages)]
    BY SMTT(30), <1>6, NoPackages DEF Types, Crash
  <2>2. \A e \in Daemons : \A i \in DOMAIN packages'[e] :
          i \in DOMAIN packages[e] /\ packages'[e][i] = packages[e][i]
    BY SMTT(30), <1>6 DEF Types, Crash
  <2>3. up' \subseteq Daemons
    BY <1>6 DEF Types, Crash
  <2> QED
    BY <2>1, <2>2, <2>3 DEF PendingSteps
<1>7. ASSUME NEW d \in Daemons, Restart(d) PROVE PendingSteps
  BY <1>7, <1>PackagesStay DEF Types, Restart, pending
<1>8. ASSUME NEW d \in Daemons, NEW c \in Codes,
             \/ CreateBegin(d, c) \/ ConsumeBegin(d, c) \/ SyncBegin(d, c) \/ CompleteBegin(d, c)
             \/ SendMessage(d, c) \/ SendAttachment(d, c)
             \/ \E i \in 1..Len(sent) : ReadMessage(d, c, sent[i]) \/ ReadAttachment(d, c, sent[i])
             \/ \E w \in removals : ReadRemoval(d, c, w)
             \/ \E o \in Others : AddDevice(d, c, o)
             \/ \E m \in Daemons \cup Others : DropMember(d, c, m)
      PROVE  PendingSteps
  BY <1>1, <1>8 DEF CreateBegin, ConsumeBegin, SyncBegin, CompleteBegin, SendMessage, SendAttachment,
     ReadMessage, ReadAttachment, MisreadMessage, ReadRemoval, AddDevice, DropMember
<1>9. ASSUME NEW d \in Daemons,
             \/ Confirm(d) \/ RejectPeer(d) \/ ApproveBegin(d)
             \/ \E o \in Others : RevokeDevice(d, o) \/ RemoveDevice(d, o)
             \/ \E a \in Daemons : DeleteContact(d, a)
      PROVE  PendingSteps
  BY <1>1, <1>9 DEF Confirm, RejectPeer, ApproveBegin, RevokeDevice, RemoveDevice, RemoveFromAll,
     DeleteContact
<1>10. CASE UNCHANGED vars \/ RelayRestart \/ \E p \in Peers : Expire(p)
  BY <1>1, <1>10 DEF vars, RelayRestart, Expire
<1> QED
  BY <1>2, <1>3, <1>4, <1>5, <1>6, <1>7, <1>8, <1>9, <1>10 DEF Next

-----------------------------------------------------------------------------
\* How one step changes the logs

\* A code is answered consumed when it was open and its use is saved.
Answers(c) ==
    /\ opened' = Append(opened, c) /\ relay[c].status = "open"
    /\ relay'[c].status = "consumed" /\ relayFile'[c].status = "consumed"

\* A ciphertext leaves when the session that made it is saved.
Sends(d, c) ==
    /\ sessions[d][c] \in Session /\ sent' = Append(sent, Ciphertext(d, sessions[d][c]))
    /\ sessions'[d][c] = Encrypt(sessions[d][c]) /\ stored'[d][c] = Encrypt(sessions[d][c])

Reads(d, c, w) ==
    /\ sessions[d][c] \in Session /\ CanDecrypt(d, sessions[d][c], w)
    /\ read' = [read EXCEPT ![d] = Append(@, w)]
    /\ sessions'[d][c] = Decrypt(sessions[d][c], w) /\ stored'[d][c] = Decrypt(sessions[d][c], w)

TalkSteps ==
    /\ UNCHANGED opened \/ \E c \in Codes : Answers(c)
    /\ UNCHANGED sent \/ \E d \in Daemons, c \in Codes : Sends(d, c)
    /\ UNCHANGED read \/ \E d \in Daemons, c \in Codes, i \in 1..Len(sent) : Reads(d, c, sent[i])

CommitSteps ==
    /\ commits' \in Nat /\ commits <= commits'
    /\ removals \subseteq removals' /\ removals' \subseteq Removal
    /\ \A w \in removals' : w \in removals \/ (w.epoch < w.next /\ w.next <= commits')

\* What was opened and answered with an error, and what was deleted, is on
\* record for good.
LogSteps ==
    /\ misread' \in [Daemons -> SUBSET Message]
    /\ \A d \in Daemons : misread[d] \subseteq misread'[d]
    /\ \A d \in Daemons, c \in Codes :
         /\ <<d, c>> \in deleted => <<d, c>> \in deleted'
         /\ <<d, c>> \in deleted' => <<d, c>> \in deleted \/ Drops(d, c)

LEMMA TalkMoves ==
    ASSUME Typed, InSync, [Next]_vars
    PROVE  TalkSteps
\* A saved session is in memory and in the store.
<1>SavedIsBoth.
      ASSUME Typed, NEW d \in Daemons, NEW c \in Codes, NEW n, SaveSession(d, c, n, TRUE)
      PROVE  sessions'[d][c] = n /\ stored'[d][c] = n
  <2> USE <1>SavedIsBoth
  <2> Types
    BY DEF Typed
  <2>1. sessions' = [sessions EXCEPT ![d][c] = n] /\ stored' = [stored EXCEPT ![d][c] = n]
    BY DEF SaveSession
  <2> QED
    BY SMTT(30), <2>1 DEF Types, Catalogs
<1> Types
  BY DEF Typed
<1>1. ASSUME UNCHANGED log PROVE TalkSteps
  BY <1>1 DEF log, TalkSteps
<1>2. ASSUME NEW d \in Daemons, NEW c \in Codes, ConsumeBegin(d, c) PROVE TalkSteps
  <2>1. CASE UNCHANGED opened
    BY <1>2, <2>1 DEF ConsumeBegin, TalkSteps
  <2>2. CASE /\ opened' = Append(opened, c)
             /\ relay' = [relay EXCEPT ![c].status = "consumed"] /\ relayFile' = relay'
    <3>1. PICK v : v = relay[c]
      OBVIOUS
    <3>2. PICK y : y = [v EXCEPT !.status = "consumed"]
      OBVIOUS
    <3>3. relay' = [relay EXCEPT ![c] = y]
      BY <2>2, <3>1, <3>2
    <3>4. v \in Invite /\ relay'[c] = y
      BY SMTT(30), <3>1, <3>3 DEF Types
    <3>5. y.status = "consumed"
      BY SMTT(30), <3>2, <3>4 DEF Invite
    <3>6. Answers(c)
      BY <1>2, <2>2, <3>4, <3>5 DEF Answers, ConsumeBegin, CodeOpen
    <3> QED
      BY <1>2, <3>6 DEF TalkSteps, ConsumeBegin
  <2> QED
    BY <1>2, <2>1, <2>2 DEF ConsumeBegin, RelayCall
<1>3. ASSUME NEW d \in Daemons, NEW c \in Codes, SendMessage(d, c) PROVE TalkSteps
  <2>1. CASE UNCHANGED sent
    BY <1>3, <2>1 DEF SendMessage, TalkSteps
  <2>2. CASE /\ sent' = Append(sent, Ciphertext(d, sessions[d][c]))
             /\ SaveSession(d, c, Encrypt(sessions[d][c]), TRUE)
    <3>1. sessions[d][c] # NoSession
      BY <1>3 DEF SendMessage, CanEncrypt, Usable
    <3>2. sessions[d][c] \in Session
      BY <3>1, CatalogTypes DEF Types
    <3>3. Sends(d, c)
      BY <2>2, <3>2, <1>SavedIsBoth DEF Sends
    <3> QED
      BY <1>3, <3>3 DEF TalkSteps, SendMessage
  <2> QED
    BY <1>3, <2>1, <2>2 DEF SendMessage
<1>4. ASSUME NEW d \in Daemons, NEW c \in Codes, NEW i \in 1..Len(sent), ReadMessage(d, c, sent[i])
      PROVE  TalkSteps
  <2>1. CASE UNCHANGED read
    BY <1>4, <2>1 DEF ReadMessage, TalkSteps
  <2>2. CASE /\ read' = [read EXCEPT ![d] = Append(@, sent[i])]
             /\ SaveSession(d, c, Decrypt(sessions[d][c], sent[i]), TRUE)
    <3>1. sessions[d][c] # NoSession /\ CanDecrypt(d, sessions[d][c], sent[i])
      BY <1>4 DEF ReadMessage, CanDecrypt, SameEpoch, Usable
    <3>2. sessions[d][c] \in Session
      BY <3>1, CatalogTypes DEF Types
    <3>3. Reads(d, c, sent[i])
      BY <2>2, <3>1, <3>2, <1>SavedIsBoth DEF Reads
    <3> QED
      BY <1>4, <3>3 DEF TalkSteps, ReadMessage
  <2> QED
    BY <1>4, <2>1, <2>2 DEF ReadMessage
<1>5. ASSUME NEW d \in Daemons, NEW c \in Codes,
             \/ CreateBegin(d, c) \/ SyncBegin(d, c) \/ CompleteBegin(d, c)
             \/ \E i \in 1..Len(sent) : MisreadMessage(d, c, sent[i])
             \/ \E w \in removals : ReadRemoval(d, c, w)
             \/ \E o \in Others : AddDevice(d, c, o)
             \/ \E m \in Daemons \cup Others : DropMember(d, c, m)
      PROVE  TalkSteps
  BY <1>1, <1>5 DEF CreateBegin, SyncBegin, CompleteBegin, MisreadMessage, ReadRemoval, AddDevice,
     DropMember, TalkSteps
<1>6. ASSUME NEW d \in Daemons,
             \/ Confirm(d) \/ RejectPeer(d) \/ ApproveBegin(d) \/ Crash(d) \/ Restart(d)
             \/ \E t \in tasks[d] : CreateEnd(d, t) \/ ConsumeEnd(d, t) \/ SyncEnd(d, t)
                                      \/ ApproveEnd(d, t) \/ CompleteEnd(d, t)
             \/ \E o \in Others : RevokeDevice(d, o) \/ RemoveDevice(d, o)
             \/ \E a \in Daemons : DeleteContact(d, a)
      PROVE  TalkSteps
  BY ZenonT(60), <1>1, <1>6 DEF Confirm, RejectPeer, ApproveBegin, Crash, Restart, CreateEnd, ConsumeEnd,
     SyncEnd, ApproveEnd, CompleteEnd, RevokeDevice, RemoveDevice, RemoveFromAll, DeleteContact,
     TalkSteps
<1>7. CASE UNCHANGED vars \/ RelayRestart \/ \E p \in Peers : Expire(p)
  BY <1>1, <1>7 DEF vars, RelayRestart, Expire
<1> QED
  BY <1>2, <1>3, <1>4, <1>5, <1>6, <1>7 DEF Next, SendAttachment, ReadAttachment

LEMMA CommitMoves ==
    ASSUME Typed, InSync, Numbered, [Next]_vars
    PROVE  CommitSteps
\* The message of a removal is one that opens a later epoch.
<1>RemovalMade.
      ASSUME NEW s \in Session, NEW d \in Daemons, NEW m, NEW e \in Nat, s.epoch < e,
             NEW w, w = CommitMessage(d, s, m, e)
      PROVE  w \in Removal /\ w.epoch < w.next /\ w.next = e
  <2> USE <1>RemovalMade
  <2>1. /\ s.group \in Daemons \X Codes /\ s.epoch \in Nat
        /\ s.members \ {m} \in SUBSET (Daemons \cup Others)
    BY SMTT(30) DEF Session
  <2>2. PICK g : g = s.group
    OBVIOUS
  <2>3. PICK a : a = s.epoch
    OBVIOUS
  <2>4. PICK u : u = s.members \ {m}
    OBVIOUS
  <2>5. w = [group |-> g, epoch |-> a, from |-> d, members |-> u, next |-> e]
    BY <2>2, <2>3, <2>4 DEF CommitMessage
  <2>6. w.epoch = a /\ w.next = e
    BY SMTT(30), <2>5
  <2>7. w \in Removal
    BY SMTT(30), <2>1, <2>2, <2>3, <2>4, <2>5 DEF Removal
  <2> QED
    BY Zenon, <2>3, <2>6, <2>7
<1> Types
  BY DEF Typed
<1>1. ASSUME commits' \in Nat, commits <= commits', UNCHANGED removals PROVE CommitSteps
  BY <1>1 DEF CommitSteps, Types
<1>2. ASSUME UNCHANGED <<commits, removals>> PROVE CommitSteps
  <2>1. commits' \in Nat /\ commits <= commits'
    BY SMTT(30), <1>2 DEF Types
  <2> QED
    BY <1>1, <1>2, <2>1
<1>3. commits' = commits + 1 => commits' \in Nat /\ commits <= commits'
  BY SMTT(30) DEF Types
<1>4. ASSUME NEW d \in Daemons, NEW c \in Codes, sessions[d][c] # NoSession, commits' = commits + 1
      PROVE  sessions[d][c] \in Session /\ sessions[d][c].epoch < commits'
  <2>1. sessions[d][c] \in Session /\ sessions[d][c].epoch <= commits
    BY <1>4, CatalogTypes DEF Types, Numbered
  <2>2. PICK a, b : a = sessions[d][c].epoch /\ b = commits
    OBVIOUS
  <2>3. a \in Nat /\ b \in Nat /\ a <= b
    BY Zenon, <2>1, <2>2 DEF Types, Session
  <2>4. a < b + 1
    BY SMTT(30), <2>3
  <2> QED
    BY Zenon, <1>4, <2>1, <2>2, <2>4
<1>5. ASSUME commits' = commits + 1, removals \subseteq removals',
             \A w \in removals' : w \in removals
                \/ \E d \in Daemons, c \in Codes : \E m :
                     sessions[d][c] # NoSession /\ w = CommitMessage(d, sessions[d][c], m, commits')
      PROVE  CommitSteps
  <2>1. commits' \in Nat /\ commits <= commits'
    BY SMTT(30), <1>5 DEF Types
  <2>2. ASSUME NEW w \in removals', w \notin removals
        PROVE  w \in Removal /\ w.epoch < w.next /\ w.next = commits'
    <3>0. PICK d \in Daemons, c \in Codes : \E m :
            sessions[d][c] # NoSession /\ w = CommitMessage(d, sessions[d][c], m, commits')
      BY <1>5, <2>2
    <3>1. PICK m : sessions[d][c] # NoSession /\ w = CommitMessage(d, sessions[d][c], m, commits')
      BY <3>0
    <3>2. sessions[d][c] \in Session /\ sessions[d][c].epoch < commits'
      BY <1>4, <1>5, <3>1
    <3>3. PICK s : s = sessions[d][c]
      OBVIOUS
    <3>4. PICK e : e = commits'
      OBVIOUS
    <3>5. s \in Session /\ e \in Nat /\ s.epoch < e /\ w = CommitMessage(d, s, m, e)
      BY <2>1, <3>1, <3>2, <3>3, <3>4
    <3>6. w \in Removal /\ w.epoch < w.next /\ w.next = e
      BY SMTT(30), <3>5, <1>RemovalMade
    <3> QED
      BY <3>4, <3>6
  <2>3. commits' <= commits'
    BY SMTT(30), <2>1
  <2> QED
    BY <1>5, <2>1, <2>2, <2>3 DEF CommitSteps, Types
<1>6. ASSUME NEW d \in Daemons, NEW c \in Codes, NEW m, DropMember(d, c, m) PROVE CommitSteps
  <2>1. sessions[d][c] # NoSession /\ commits' = commits + 1
    BY <1>6 DEF DropMember, CanRemoveMember, Usable
  <2>2. removals' = removals \/ removals' = removals \cup {CommitMessage(d, sessions[d][c], m, commits')}
    BY <1>6 DEF DropMember
  <2> QED
    BY <1>5, <2>1, <2>2
<1>7. ASSUME NEW d \in Daemons, NEW o, NEW revoked, RemoveFromAll(d, o, revoked) PROVE CommitSteps
  <2>1. commits' = commits + 1
    BY <1>7 DEF RemoveFromAll
  <2>2. CASE UNCHANGED removals
    BY <1>1, <1>3, <2>1, <2>2
  <2>3. PICK live : live = {c \in Codes : sessions[d][c] # NoSession}
    OBVIOUS
  <2>4. CASE \E cs \in SUBSET live : DeliverDeviceChange(d, o, cs, commits')
    <3>1. PICK out \in SUBSET live :
            removals' = removals \cup {CommitMessage(d, sessions[d][c], o, commits') : c \in out}
      BY <2>4 DEF DeliverDeviceChange
    <3>2. \A w \in removals' : w \in removals
            \/ \E c \in Codes : sessions[d][c] # NoSession /\ w = CommitMessage(d, sessions[d][c], o, commits')
      BY <2>3, <3>1
    <3>3. \A w \in removals' : w \in removals
            \/ \E e \in Daemons, c \in Codes : \E m :
                 sessions[e][c] # NoSession /\ w = CommitMessage(e, sessions[e][c], m, commits')
      BY <3>2
    <3> QED
      BY <1>5, <2>1, <3>1, <3>3
  <2> QED
    BY <1>7, <2>2, <2>3, <2>4 DEF RemoveFromAll
<1>8. ASSUME NEW d \in Daemons, NEW t \in tasks[d], ApproveEnd(d, t) PROVE CommitSteps
  <2>1. t.packages \in Seq(KeyPackages)
    BY TaskTypes
  <2>2. PICK l : l = Len(t.packages)
    OBVIOUS
  <2>3. /\ UNCHANGED removals
        /\ \/ \E n \in 0..(l - 1) : commits' = commits + n \/ commits' = commits + n + 1
           \/ commits' = commits + l
    BY <1>8, <2>2 DEF ApproveEnd, log
  <2>4. commits' \in Nat /\ commits <= commits'
    BY SMTT(30), <2>1, <2>2, <2>3 DEF Types
  <2> QED
    BY <1>1, <2>3, <2>4
<1>9. ASSUME NEW d \in Daemons, NEW c \in Codes, NEW o \in Others, AddDevice(d, c, o) PROVE CommitSteps
  BY <1>1, <1>3, <1>9 DEF AddDevice, log
<1>10. ASSUME NEW d \in Daemons, NEW c \in Codes,
             \/ CreateBegin(d, c) \/ ConsumeBegin(d, c) \/ SyncBegin(d, c) \/ CompleteBegin(d, c)
             \/ SendMessage(d, c) \/ SendAttachment(d, c)
             \/ \E i \in 1..Len(sent) : ReadMessage(d, c, sent[i]) \/ ReadAttachment(d, c, sent[i])
             \/ \E w \in removals : ReadRemoval(d, c, w)
      PROVE  CommitSteps
  BY <1>2, <1>10 DEF CreateBegin, ConsumeBegin, SyncBegin, CompleteBegin, SendMessage, SendAttachment,
     ReadMessage, ReadAttachment, MisreadMessage, ReadRemoval, log
<1>11. ASSUME NEW d \in Daemons,
             \/ Confirm(d) \/ RejectPeer(d) \/ ApproveBegin(d) \/ Crash(d) \/ Restart(d)
             \/ \E t \in tasks[d] : CreateEnd(d, t) \/ ConsumeEnd(d, t) \/ SyncEnd(d, t) \/ CompleteEnd(d, t)
             \/ \E a \in Daemons : DeleteContact(d, a)
      PROVE  CommitSteps
  BY <1>2, <1>11 DEF Confirm, RejectPeer, ApproveBegin, Crash, Restart, CreateEnd, ConsumeEnd,
     SyncEnd, CompleteEnd, DeleteContact, log
<1>12. CASE UNCHANGED vars \/ RelayRestart \/ \E p \in Peers : Expire(p)
  BY <1>2, <1>12 DEF vars, RelayRestart, Expire, log
<1> QED
  BY <1>6, <1>7, <1>8, <1>9, <1>10, <1>11, <1>12 DEF Next, RevokeDevice, RemoveDevice

LEMMA LogMoves ==
    ASSUME Typed, InSync, [Next]_vars
    PROVE  LogSteps
<1> Types
  BY DEF Typed
<1>1. ASSUME UNCHANGED <<misread, deleted>> PROVE LogSteps
  BY <1>1 DEF Types, LogSteps
<1>2. ASSUME NEW d \in Daemons, NEW c \in Codes, NEW i \in 1..Len(sent), MisreadMessage(d, c, sent[i])
      PROVE  LogSteps
  <2>1. PICK w : w = sent[i]
    OBVIOUS
  <2>2. w \in Message
    BY SMTT(30), <2>1 DEF Types
  <2>3. misread' = [misread EXCEPT ![d] = @ \cup {w}] /\ deleted' = deleted
    BY <1>2, <2>1 DEF MisreadMessage
  <2>4. misread' \in [Daemons -> SUBSET Message] /\ \A e \in Daemons : misread[e] \subseteq misread'[e]
    BY SMTT(30), <2>2, <2>3 DEF Types
  <2> QED
    BY <2>3, <2>4 DEF LogSteps
<1>3. ASSUME NEW d \in Daemons, NEW a \in Daemons, DeleteContact(d, a) PROVE LogSteps
  <2>1. CASE UNCHANGED deleted
    BY <1>1, <1>3, <2>1 DEF DeleteContact
  <2>2. ASSUME NEW c \in Codes, RemoveSession(d, c, TRUE) PROVE LogSteps
    <3>1. stored[d][c] \in Session
      BY <2>2, CatalogTypes DEF Types, RemoveSession
    <3>2. /\ sessions' = [sessions EXCEPT ![d][c] = NoSession]
          /\ stored' = [stored EXCEPT ![d][c] = NoSession] /\ deleted' = deleted \cup {<<d, c>>}
      BY <2>2 DEF RemoveSession
    <3>3. sessions'[d][c] = NoSession /\ stored'[d][c] = NoSession
      BY SMTT(30), <3>2 DEF Types, Catalogs
    <3>4. Drops(d, c)
      BY <3>1, <3>2, <3>3 DEF Drops
    <3>5. ASSUME NEW e \in Daemons, NEW k \in Codes, <<e, k>> = <<d, c>> PROVE e = d /\ k = c
      BY SMTT(30), <3>5
    <3>6. \A e \in Daemons, k \in Codes : <<e, k>> \in deleted' => <<e, k>> \in deleted \/ Drops(e, k)
      BY <3>2, <3>4, <3>5
    <3>7. misread' = misread
      BY <1>3 DEF DeleteContact
    <3> QED
      BY <3>2, <3>6, <3>7 DEF LogSteps, Types
  <2>3. UNCHANGED deleted \/ \E c \in Codes : RemoveSession(d, c, TRUE)
    BY <1>3 DEF DeleteContact, RemoveSession
  <2> QED
    BY <2>1, <2>2, <2>3
<1>4. ASSUME NEW d \in Daemons, NEW c \in Codes,
             \/ CreateBegin(d, c) \/ ConsumeBegin(d, c) \/ SyncBegin(d, c) \/ CompleteBegin(d, c)
             \/ SendMessage(d, c) \/ \E i \in 1..Len(sent) : ReadMessage(d, c, sent[i])
             \/ \E w \in removals : ReadRemoval(d, c, w)
             \/ \E o \in Others : AddDevice(d, c, o)
             \/ \E m \in Daemons \cup Others : DropMember(d, c, m)
      PROVE  LogSteps
  BY <1>1, <1>4 DEF CreateBegin, ConsumeBegin, SyncBegin, CompleteBegin, SendMessage, ReadMessage,
     ReadRemoval, AddDevice, DropMember, log
<1>5. ASSUME NEW d \in Daemons,
             \/ Confirm(d) \/ RejectPeer(d) \/ ApproveBegin(d) \/ Crash(d) \/ Restart(d)
             \/ \E t \in tasks[d] : CreateEnd(d, t) \/ ConsumeEnd(d, t) \/ SyncEnd(d, t)
                                      \/ ApproveEnd(d, t) \/ CompleteEnd(d, t)
             \/ \E o \in Others : RevokeDevice(d, o) \/ RemoveDevice(d, o)
      PROVE  LogSteps
  BY ZenonT(60), <1>1, <1>5 DEF Confirm, RejectPeer, ApproveBegin, Crash, Restart, CreateEnd, ConsumeEnd,
     SyncEnd, ApproveEnd, CompleteEnd, RevokeDevice, RemoveDevice, RemoveFromAll, log
<1>6. CASE UNCHANGED vars \/ RelayRestart \/ \E p \in Peers : Expire(p)
  BY <1>1, <1>6 DEF vars, RelayRestart, Expire, log
<1> QED
  BY <1>2, <1>3, <1>4, <1>5, <1>6 DEF Next, SendAttachment, ReadAttachment

-----------------------------------------------------------------------------
\* The codes: what is saved of a code is true of it, and stays

IsOpened(c) == \E i \in DOMAIN opened : opened[i] = c

Records ==
    \A c \in Codes :
        /\ relay[c].status = "none" => relayFile[c].status = "none"
        /\ relayFile[c].status # "none" => relayFile[c].owner = relay[c].owner
        /\ IsOpened(c) => relay[c].status = "consumed" /\ relayFile[c].status = "consumed"

\* A code that is being created is unknown to the relay, and one request makes it.
Creations ==
    /\ \A d \in Daemons : \A t \in tasks[d] : t.op = "create" => relay[t.code].status = "none"
    /\ \A d, e \in Daemons : \A t \in tasks[d], u \in tasks[e] :
         t.op = "create" /\ u.op = "create" /\ t.code = u.code => d = e /\ t = u

LEMMA OpenedGrows ==
    ASSUME Typed, TalkSteps
    PROVE  /\ \A c \in Codes : IsOpened(c) => IsOpened(c)'
           /\ \A c \in Codes : IsOpened(c)' => IsOpened(c) \/ Answers(c)
           /\ \A c \in Codes : Answers(c) => IsOpened(c)'
           /\ opened' \in Seq(Codes)
<1> Types
  BY DEF Typed
<1>1. CASE UNCHANGED opened
  <2>1. \A c \in Codes : ~Answers(c)
    BY SMTT(30), <1>1 DEF Answers, Types
  <2> QED
    BY <1>1, <2>1 DEF IsOpened, Types
<1>2. ASSUME NEW k \in Codes, Answers(k)
      PROVE  /\ \A c \in Codes : IsOpened(c) => IsOpened(c)'
             /\ \A c \in Codes : IsOpened(c)' => IsOpened(c) \/ Answers(c)
             /\ \A c \in Codes : Answers(c) => IsOpened(c)'
             /\ opened' \in Seq(Codes)
  <2>1. opened' = Append(opened, k) /\ opened \in Seq(Codes)
    BY <1>2 DEF Answers, Types
  <2>2. /\ \A i \in DOMAIN opened : i \in DOMAIN opened' /\ opened'[i] = opened[i]
        /\ \A i \in DOMAIN opened' : (i \in DOMAIN opened /\ opened'[i] = opened[i]) \/ opened'[i] = k
        /\ opened' \in Seq(Codes)
        /\ \A c \in Codes : opened' = Append(opened, c) =>
              Len(opened) + 1 \in DOMAIN opened' /\ opened'[Len(opened) + 1] = c
    BY SMTT(30), <2>1
  <2> QED
    BY <1>2, <2>2 DEF IsOpened, Answers
<1> QED
  BY <1>1, <1>2 DEF TalkSteps

\* The owner of a saved code never changes.
LEMMA OwnerStays ==
    ASSUME Records, Creations, NEW c \in Codes, RelayStep(c), relayFile[c].status # "none"
    PROVE  relay'[c].owner = relay[c].owner /\ relayFile'[c].status # "none"
<1>1. relay[c].status # "none" /\ relayFile[c].owner = relay[c].owner
  BY DEF Records
<1>2. ~Opens(c)
  BY <1>1 DEF Opens, Creations
<1>3. relay'[c].owner = relay[c].owner /\ relay'[c].status # "none"
  <2>1. CASE Same(relay'[c], relay[c])
    BY <1>1, <2>1 DEF Same
  <2>2. CASE Uses(c)
    BY <2>2 DEF Uses
  <2>3. CASE Same(relay'[c], relayFile[c])
    BY <1>1, <2>3 DEF Same
  <2> QED
    BY <1>2, <2>1, <2>2, <2>3 DEF RelayStep
<1> QED
  BY <1>3 DEF RelayStep, Same

LEMMA RecordsStep ==
    ASSUME Typed, Records, Creations, RelaySteps, TalkSteps
    PROVE  Records'
<1> SUFFICES ASSUME NEW c \in Codes
             PROVE  /\ relay'[c].status = "none" => relayFile'[c].status = "none"
                    /\ relayFile'[c].status # "none" => relayFile'[c].owner = relay'[c].owner
                    /\ IsOpened(c)' => relay'[c].status = "consumed" /\ relayFile'[c].status = "consumed"
  BY DEF Records
<1>1. RelayStep(c)
  BY DEF RelaySteps
<1>2. relay'[c].status = "none" => relayFile'[c].status = "none"
  BY <1>1 DEF RelayStep, Same, Records, Opens, Uses
<1>3. relayFile'[c].status # "none" => relayFile'[c].owner = relay'[c].owner
  <2>1. CASE Same(relayFile'[c], relay'[c])
    BY <2>1 DEF Same
  <2>2. CASE Same(relayFile'[c], relayFile[c])
    <3>1. relayFile[c].status # "none" =>
            relay'[c].owner = relay[c].owner /\ relayFile[c].owner = relay[c].owner
      BY <1>1, OwnerStays DEF Records
    <3> QED
      BY <2>2, <3>1 DEF Same
  <2> QED
    BY <1>1, <2>1, <2>2 DEF RelayStep
<1>4. ASSUME IsOpened(c) PROVE relay'[c].status = "consumed" /\ relayFile'[c].status = "consumed"
  <2>1. relay[c].status = "consumed" /\ relayFile[c].status = "consumed"
    BY <1>4 DEF Records
  <2>2. ~Opens(c) /\ ~Uses(c)
    BY <2>1 DEF Opens, Uses, Creations
  <2>3. relay'[c].status = "consumed"
    BY <1>1, <2>1, <2>2 DEF RelayStep, Same
  <2> QED
    BY <1>1, <2>1, <2>3 DEF RelayStep, Same
<1> QED
  BY <1>2, <1>3, <1>4, OpenedGrows DEF Answers

LEMMA CreationsStep ==
    ASSUME Typed, Records, Creations, RelaySteps, TaskSteps
    PROVE  Creations'
<1>1. ASSUME NEW d \in Daemons, NEW t \in tasks'[d], t \in tasks[d], t.op = "create"
      PROVE  relay'[t.code].status = "none"
  <2>1. PICK c : c = t.code
    OBVIOUS
  <2>2. c \in Codes /\ relay[c].status = "none" /\ relayFile[c].status = "none"
    BY <1>1, <2>1, TaskTypes DEF Creations, Records
  <2>3. ~Opens(c)
    BY ZenonT(60), <1>1, <2>1 DEF Opens, Creations
  <2>4. RelayStep(c)
    BY <2>2 DEF RelaySteps
  <2> QED
    BY <2>1, <2>2, <2>3, <2>4 DEF RelayStep, Same, Uses
<1>2. CASE \A d \in Daemons : tasks'[d] \subseteq tasks[d]
  BY ZenonT(60), <1>1, <1>2 DEF Creations
<1>3. ASSUME NEW n \in Daemons, NEW x \in Task, Starts(n, x),
             \A e \in Daemons : \A u \in tasks'[e] : u \in tasks[e] \/ (e = n /\ u = x)
      PROVE  Creations'
  <2>1. x.op = "create" => relay'[x.code].status = "none"
                             /\ \A e \in Daemons : \A u \in tasks[e] : u.code # x.code
    BY <1>3 DEF Starts
  <2>2. ASSUME NEW d \in Daemons, NEW t \in tasks'[d], t.op = "create"
        PROVE  relay'[t.code].status = "none"
    BY <1>1, <1>3, <2>1, <2>2
  <2>3. ASSUME NEW d \in Daemons, NEW e \in Daemons, NEW t \in tasks'[d], NEW u \in tasks'[e],
               t.op = "create", u.op = "create", t.code = u.code
        PROVE  d = e /\ t = u
    <3>1. CASE t \in tasks[d] /\ u \in tasks[e]
      BY <2>3, <3>1 DEF Creations
    <3>2. CASE d = n /\ t = x
      BY <1>3, <2>1, <2>3, <3>2
    <3>3. CASE e = n /\ u = x
      BY <1>3, <2>1, <2>3, <3>3
    <3> QED
      BY <1>3, <3>1, <3>2, <3>3
  <2> QED
    BY <2>2, <2>3 DEF Creations
<1> QED
  BY <1>2, <1>3 DEF TaskSteps

-----------------------------------------------------------------------------
\* The guest of a code: whoever consumed it, and one daemon only

Guest(d, c) == Consumes(d, c) \/ (Had(d, c) /\ relay[c].owner # d)

Guests ==
    /\ \A d \in Daemons, c \in Codes : Guest(d, c) => IsOpened(c) /\ relay[c].owner # d
    /\ \A d, e \in Daemons, c \in Codes : Guest(d, c) /\ Guest(e, c) => d = e
    /\ \A d \in Daemons, c \in Codes : Consumes(d, c) => ~Had(d, c)

\* A conversation has had a session only under a code that is saved.
Rooted == \A d \in Daemons, c \in Codes : Had(d, c) => relayFile[c].status # "none"

\* A session that was there is there, or is on record as deleted.
LEMMA HadStays ==
    ASSUME Typed, NEW d \in Daemons, NEW c \in Codes, Evolves(d, c), LogSteps, Had(d, c)
    PROVE  Had(d, c)'
<1> Types
  BY DEF Typed
<1>1. CASE <<d, c>> \in deleted
  BY <1>1 DEF LogSteps, Had
<1>2. CASE stored[d][c] # NoSession
  <2>1. CASE Rests(d, c)
    BY <1>2, <2>1 DEF Rests, Had
  <2>2. CASE Moves(d, c)
    BY <2>2, RendezvousAssumption DEF Moves, Goes, Ahead, Had
  <2>3. CASE Joins(d, c)
    <3>A. PICK x \in Codes : \E w \in Under(relay, x) : Joined(d, c, w)
      BY <2>3 DEF Joins
    <3>1. PICK w \in Under(relay, x) : Joined(d, c, w)
      BY <3>A
    <3>2. w \in Response /\ sessions[d][c] \in Session
      BY <3>1, UnderTypes DEF Types, Joined
    <3>3. PICK n : n = Join(sessions[d][c], w)
      OBVIOUS
    <3>4. n \in Session
      BY <3>2, <3>3, JoinTypes
    <3> QED
      BY <1>2, <3>1, <3>3, <3>4, RendezvousAssumption DEF Joined, Had
  <2>4. CASE Drops(d, c)
    BY <2>4 DEF Drops, Had
  <2> QED
    BY <2>1, <2>2, <2>3, <2>4 DEF Evolves, Founds, Prepares, Begun
<1> QED
  BY <1>1, <1>2 DEF Had

\* A session that begins, begins in memory and in the store.
LEMMA SessionBegins ==
    ASSUME NEW d \in Daemons, NEW c \in Codes, Evolves(d, c), stored[d][c] = NoSession
    PROVE  Rests(d, c) \/ Founds(d, c) \/ Prepares(d, c)
<1>1. stored[d][c] \notin Session
  BY RendezvousAssumption
<1> QED
  BY <1>1 DEF Evolves, Moves, Joins, Joined, Drops

LEMMA HadComesFrom ==
    ASSUME NEW d \in Daemons, NEW c \in Codes, Evolves(d, c), LogSteps, Had(d, c)'
    PROVE  Had(d, c) \/ Founds(d, c) \/ Prepares(d, c)
<1>1. CASE <<d, c>> \in deleted'
  BY <1>1, RendezvousAssumption DEF LogSteps, Drops, Had
<1>2. CASE stored'[d][c] # NoSession /\ stored[d][c] = NoSession
  BY <1>2, SessionBegins DEF Rests
<1> QED
  BY <1>1, <1>2 DEF Had

LEMMA InSyncStep ==
    ASSUME Typed, InSync, Evolve
    PROVE  InSync'
<1> Types
  BY DEF Typed
<1>1. ASSUME NEW d \in Daemons, NEW c \in Codes, stored'[d][c] = NoSession
      PROVE  sessions'[d][c] = NoSession
  <2>1. Evolves(d, c)
    BY DEF Evolve
  <2>2. CASE Rests(d, c)
    BY <1>1, <2>2 DEF Rests, InSync
  <2>3. CASE Moves(d, c)
    BY <1>1, <2>3, RendezvousAssumption DEF Moves, Goes, Ahead
  <2>4. CASE Joins(d, c)
    <3>A. PICK x \in Codes : \E w \in Under(relay, x) : Joined(d, c, w)
      BY <2>4 DEF Joins
    <3>1. PICK w \in Under(relay, x) : Joined(d, c, w)
      BY <3>A
    <3>2. w \in Response /\ sessions[d][c] \in Session
      BY <3>1, UnderTypes DEF Types, Joined
    <3>3. PICK n : n = Join(sessions[d][c], w)
      OBVIOUS
    <3>4. n \in Session
      BY <3>2, <3>3, JoinTypes
    <3> QED
      BY <1>1, <3>1, <3>3, <3>4, RendezvousAssumption DEF Joined
  <2>5. CASE Founds(d, c) \/ Prepares(d, c) \/ Drops(d, c)
    BY <1>1, <2>5 DEF Founds, Prepares, Begun, Drops
  <2> QED
    BY <2>1, <2>2, <2>3, <2>4, <2>5 DEF Evolves
<1> QED
  BY <1>1 DEF InSync

LEMMA RootedStep ==
    ASSUME Records, Creations, Guests, Rooted, Evolve, RelaySteps, LogSteps
    PROVE  Rooted'
<1>1. ASSUME NEW d \in Daemons, NEW c \in Codes, Had(d, c)'
      PROVE  relayFile'[c].status # "none"
  <2>1. Evolves(d, c) /\ RelayStep(c)
    BY DEF Evolve, RelaySteps
  <2>2. CASE relayFile[c].status # "none"
    BY <2>1, <2>2, OwnerStays
  <2>3. CASE relayFile[c].status = "none"
    <3>1. ~Had(d, c)
      BY <2>3 DEF Rooted
    <3>2. Founds(d, c) \/ Prepares(d, c)
      BY <1>1, <2>1, <3>1, HadComesFrom
    <3>3. ~IsOpened(c)
      BY <2>3 DEF Records
    <3>4. ~Prepares(d, c)
      BY <3>3 DEF Prepares, Guests, Guest
    <3> QED
      BY <3>2, <3>4 DEF Founds
  <2> QED
    BY <2>2, <2>3
<1> QED
  BY <1>1 DEF Rooted

LEMMA GuestsStep ==
    ASSUME Typed, Records, Creations, Guests, Rooted, Evolve, RelaySteps, TaskSteps, TalkSteps, LogSteps
    PROVE  Guests'
<1> Types
  BY DEF Typed
<1>1. \A c \in Codes : IsOpened(c) => relay'[c].owner = relay[c].owner
  <2>1. \A c \in Codes : IsOpened(c) => relayFile[c].status # "none"
    BY DEF Records
  <2> QED
    BY <2>1, OwnerStays DEF RelaySteps
<1>2. PICK New : New = [d \in Daemons |-> {t \in tasks'[d] : t \notin tasks[d] /\ t.op = "consume"}]
  OBVIOUS
<1>3. ASSUME NEW d \in Daemons, NEW t \in New[d]
      PROVE  /\ t.code \in Codes /\ ~IsOpened(t.code) /\ Answers(t.code) /\ relay'[t.code].owner # d
             /\ \A e \in Daemons : \A u \in New[e] : e = d /\ u = t
  <2>1. t \in tasks'[d] /\ t \notin tasks[d] /\ t.op = "consume"
    BY <1>2, <1>3
  <2>2. PICK n \in Daemons, x \in Task :
          /\ \A e \in Daemons : \A u \in tasks'[e] : u \in tasks[e] \/ (e = n /\ u = x)
          /\ Starts(n, x)
    BY <2>1 DEF TaskSteps
  <2>3. n = d /\ x = t
    BY <2>1, <2>2
  <2>4. /\ relay[t.code].status = "open" /\ relay[t.code].owner # d
        /\ opened' = Append(opened, t.code)
    BY <2>1, <2>2, <2>3 DEF Starts
  <2>5. t.code \in Codes
    BY SMTT(30), <2>2, <2>3 DEF Task
  <2>6. ~IsOpened(t.code)
    BY <2>4, <2>5 DEF Records
  <2>7. IsOpened(t.code)'
    <3>1. opened \in Seq(Codes)
      BY DEF Types
    <3>2. Len(opened) + 1 \in DOMAIN opened' /\ opened'[Len(opened) + 1] = t.code
      BY SMTT(30), <2>4, <2>5, <3>1
    <3> QED
      BY <3>2 DEF IsOpened
  <2>8. Answers(t.code)
    BY <2>5, <2>6, <2>7, OpenedGrows
  <2>9. relay'[t.code].owner = relay[t.code].owner
    <3>1. RelayStep(t.code) /\ ~Opens(t.code)
      BY <2>4, <2>5 DEF RelaySteps, Opens, Creations
    <3>2. relayFile[t.code].status = "none" => ~Same(relay'[t.code], relayFile[t.code])
      BY <2>8 DEF Same, Answers
    <3>3. relayFile[t.code].status # "none" => relay'[t.code].owner = relay[t.code].owner
      BY <2>5, <3>1, OwnerStays
    <3> QED
      BY <3>1, <3>2, <3>3 DEF RelayStep, Same, Uses
  <2>10. \A e \in Daemons : \A u \in New[e] : e = d /\ u = t
    BY <1>2, <2>2, <2>3
  <2> QED
    BY <2>4, <2>5, <2>6, <2>8, <2>9, <2>10
<1>4. ASSUME NEW d \in Daemons, NEW c \in Codes, Guest(d, c)'
      PROVE  Guest(d, c) \/ \E t \in New[d] : t.code = c
  <2>1. CASE Consumes(d, c)'
    BY <1>2, <2>1 DEF Consumes, Guest
  <2>2. CASE Had(d, c)' /\ relay'[c].owner # d
    <3>1. Evolves(d, c) /\ RelayStep(c)
      BY DEF Evolve, RelaySteps
    <3>2. CASE Had(d, c)
      <4>1. relay'[c].owner = relay[c].owner
        BY <3>1, <3>2, OwnerStays DEF Rooted
      <4> QED
        BY <2>2, <3>2, <4>1 DEF Guest
    <3>3. CASE Founds(d, c) \/ Prepares(d, c)
      BY <2>2, <3>3 DEF Founds, Prepares, Guest
    <3> QED
      BY <2>2, <3>1, <3>2, <3>3, HadComesFrom
  <2> QED
    BY <1>4, <2>1, <2>2 DEF Guest
<1>5. ASSUME NEW d \in Daemons, NEW c \in Codes, Guest(d, c)' PROVE IsOpened(c)' /\ relay'[c].owner # d
  <2>1. CASE Guest(d, c)
    BY <1>1, <2>1, OpenedGrows DEF Guests
  <2>2. CASE \E t \in New[d] : t.code = c
    BY ZenonT(60), <1>3, <2>2, OpenedGrows
  <2> QED
    BY <1>4, <1>5, <2>1, <2>2
<1>6. ASSUME NEW d \in Daemons, NEW e \in Daemons, NEW c \in Codes, Guest(d, c)', Guest(e, c)' PROVE d = e
  <2>1. CASE Guest(d, c) /\ Guest(e, c)
    BY <2>1 DEF Guests
  <2>2. CASE \E t \in New[d] : t.code = c
    <3>1. PICK t \in New[d] : t.code = c
      BY <2>2
    <3>2. ~Guest(e, c)
      BY <1>3, <3>1 DEF Guests
    <3>3. PICK u \in New[e] : u.code = c
      BY <1>4, <1>6, <3>2
    <3> QED
      BY <1>3, <3>1, <3>3
  <2>3. CASE \E t \in New[e] : t.code = c
    <3>1. PICK t \in New[e] : t.code = c
      BY <2>3
    <3>2. ~Guest(d, c)
      BY <1>3, <3>1 DEF Guests
    <3>3. PICK u \in New[d] : u.code = c
      BY <1>4, <1>6, <3>2
    <3> QED
      BY <1>3, <3>1, <3>3
  <2> QED
    BY <1>4, <1>6, <2>1, <2>2, <2>3
<1>7. ASSUME NEW d \in Daemons, NEW c \in Codes, Consumes(d, c)', Had(d, c)' PROVE FALSE
  <2>1. relay'[c].owner # d
    BY <1>5, <1>7 DEF Guest
  <2>2. Had(d, c)
    <3>1. ~Founds(d, c) /\ ~Prepares(d, c)
      BY <1>7, <2>1 DEF Founds, Prepares
    <3>2. Evolves(d, c)
      BY DEF Evolve
    <3> QED
      BY <1>7, <3>1, <3>2, HadComesFrom
  <2>3. ~Consumes(d, c)
    BY <2>2 DEF Guests
  <2>4. PICK t \in New[d] : t.code = c
    BY <1>2, <1>7, <2>3 DEF Consumes
  <2>5. ~IsOpened(c)
    BY <1>3, <2>4
  <2>6. RelayStep(c) /\ relayFile[c].status # "none"
    BY <2>2 DEF RelaySteps, Rooted
  <2>7. relay'[c].owner = relay[c].owner
    BY <2>6, OwnerStays
  <2> QED
    BY <2>1, <2>2, <2>5, <2>7 DEF Guests, Guest
<1> QED
  BY <1>5, <1>6, <1>7 DEF Guests

\* A session is founded by the request that created its code, and prepared by
\* the one that consumed it.
LEMMA NothingFounded ==
    ASSUME Typed, Records, Creations, Guests, Rooted
    PROVE  Unfounded
<1>1. ASSUME NEW d \in Daemons, NEW t \in tasks[d], t.op \in {"create", "consume"}
      PROVE  ~Had(d, t.code)
  <2>1. t.code \in Codes
    BY TaskTypes
  <2>2. CASE t.op = "create"
    <3>1. relayFile[t.code].status = "none"
      BY <2>1, <2>2 DEF Creations, Records
    <3> QED
      BY <2>1, <3>1 DEF Rooted
  <2>3. CASE t.op = "consume"
    BY <2>1, <2>3 DEF Guests, Consumes
  <2> QED
    BY <1>1, <2>2, <2>3
<1> QED
  BY <1>1 DEF Unfounded

\* What a request has read, it keeps.
LEMMA AimedStep ==
    ASSUME Aimed, TaskSteps
    PROVE  Aimed'
  BY SMTT(30) DEF Aimed, TaskSteps, Starts

-----------------------------------------------------------------------------
\* The key packages: whose they are

\* The package's owner has had a session for it, under the code of somebody else.
Prepared(k) == Had(k.owner, k.conversation) /\ relay[k.conversation].owner # k.owner

Owned ==
    /\ \A c \in Codes : \A r \in Under(relay, c) \cup Under(relayFile, c) : Prepared(r.package)
    /\ \A d \in Daemons : \A i \in DOMAIN packages[d] : Prepared(packages[d][i])
    /\ \A d \in Daemons : \A t \in tasks[d] : \A i \in DOMAIN t.packages : Prepared(t.packages[i])

LEMMA PackageTypes ==
    ASSUME NEW k \in KeyPackages
    PROVE  k.owner \in Daemons /\ k.conversation \in Codes /\ k = KeyPackage(k.owner, k.conversation)
  BY SMTT(30) DEF KeyPackages, KeyPackage

LEMMA ResponseTypes ==
    ASSUME NEW r \in Response
    PROVE  /\ r.package \in KeyPackages /\ r.conversation \in Codes /\ r.epoch \in Nat
           /\ r.group \in Daemons \X Codes
  BY SMTT(30) DEF Response

\* A session that is prepared is one of a guest.
LEMMA PreparedByGuest ==
    ASSUME Records, Creations, Guests, RelaySteps, NEW d \in Daemons, NEW c \in Codes, Prepares(d, c)
    PROVE  /\ relay'[c].owner # d /\ Prepare(d, c) \in Session
           /\ stored'[d][c] = Prepare(d, c) /\ sessions'[d][c] = Prepare(d, c)
           /\ stored'[d][c] # NoSession
<1>1. IsOpened(c) /\ relay[c].owner # d
  BY DEF Prepares, Guests, Guest
<1>2. relayFile[c].status # "none" /\ RelayStep(c)
  BY <1>1 DEF Records, RelaySteps
<1>3. relay'[c].owner = relay[c].owner
  BY <1>2, OwnerStays
<1>4. Prepare(d, c) \in Session /\ Prepare(d, c) # NoSession
  BY FreshTypes, RendezvousAssumption
<1> QED
  BY <1>1, <1>3, <1>4 DEF Prepares, Begun

LEMMA PackagesStep ==
    ASSUME Typed, Records, Creations, Guests, Rooted, Owned,
           Evolve, RelaySteps, TaskSteps, PendingSteps, LogSteps
    PROVE  Owned'
<1>PreparedStays.
      ASSUME Typed, Records, Creations, Rooted, Evolve, RelaySteps, LogSteps,
             NEW k \in KeyPackages, Prepared(k)
      PROVE  Prepared(k)'
  <2> USE <1>PreparedStays
  <2>1. k.owner \in Daemons /\ k.conversation \in Codes
    BY PackageTypes
  <2>2. Evolves(k.owner, k.conversation) /\ RelayStep(k.conversation)
    BY <2>1 DEF Evolve, RelaySteps
  <2>3. Had(k.owner, k.conversation) /\ relayFile[k.conversation].status # "none"
    BY <2>1 DEF Prepared, Rooted
  <2>4. relay'[k.conversation].owner = relay[k.conversation].owner
    BY <2>1, <2>2, <2>3, OwnerStays
  <2>5. Had(k.owner, k.conversation)'
    BY <2>1, <2>2, <2>3, HadStays
  <2> QED
    BY <2>4, <2>5 DEF Prepared
<1> Types
  BY DEF Typed
<1>1. ASSUME NEW d \in Daemons, NEW t \in tasks[d], NEW i \in DOMAIN t.packages
      PROVE  Prepared(t.packages[i])'
  <2>1. t.packages \in Seq(KeyPackages)
    BY TaskTypes
  <2>2. PICK q : q = t.packages
    OBVIOUS
  <2>3. q[i] \in KeyPackages
    BY SMTT(30), <1>1, <2>1, <2>2
  <2>4. PICK k : k = t.packages[i]
    OBVIOUS
  <2>5. k \in KeyPackages /\ Prepared(k)
    BY <1>1, <2>2, <2>3, <2>4 DEF Owned
  <2>6. Prepared(k)'
    BY <2>5, <1>PreparedStays
  <2> QED
    BY <2>4, <2>6
<1>2. ASSUME NEW d \in Daemons, NEW i \in DOMAIN packages[d], NEW k, k = packages[d][i]
      PROVE  Prepared(k)'
  <2>1. packages[d] \in Seq(KeyPackages)
    BY SMTT(30) DEF Types
  <2>2. PICK q : q = packages[d]
    OBVIOUS
  <2>3. q[i] \in KeyPackages
    BY SMTT(30), <1>2, <2>1, <2>2
  <2>4. k \in KeyPackages /\ Prepared(k)
    BY <1>2, <2>2, <2>3 DEF Owned
  <2> QED
    BY <2>4, <1>PreparedStays
<1>3. ASSUME NEW c \in Codes, NEW r \in Under(relay, c) \cup Under(relayFile, c)
      PROVE  Prepared(r.package)'
  <2>1. r \in Response
    BY UnderTypes DEF Types
  <2>2. r.package \in KeyPackages /\ Prepared(r.package)
    BY <2>1, ResponseTypes DEF Owned
  <2>3. PICK k : k = r.package
    OBVIOUS
  <2>4. Prepared(k)'
    BY <2>2, <2>3, <1>PreparedStays
  <2> QED
    BY <2>3, <2>4
<1>4. ASSUME NEW c \in Codes, NEW r, Offered(c, r) PROVE Prepared(r.package)'
  <2>1. PICK d \in Daemons : r = PackageResponse(d, c) /\ Prepares(d, c)
    BY <1>4 DEF Offered
  <2>2. PICK k : k = KeyPackage(d, c)
    OBVIOUS
  <2>3. r.package = k /\ k.owner = d /\ k.conversation = c
    BY SMTT(30), <2>1, <2>2 DEF PackageResponse, KeyPackage
  <2>4. relay'[c].owner # d /\ stored'[d][c] # NoSession
    BY <2>1, PreparedByGuest
  <2> QED
    BY <2>3, <2>4 DEF Prepared, Had
<1>5. ASSUME NEW c \in Codes, NEW r \in Under(relay', c) \cup Under(relayFile', c)
      PROVE  Prepared(r.package)'
  <2>1. r \in Under(relay, c) \cup Under(relayFile, c) \/ Offered(c, r) \/ Welcomed(r)
    BY <1>5 DEF RelaySteps, RelayStep, Fresh
  <2>2. CASE Welcomed(r)
    <3>1. PICK d \in Daemons, t \in UNION {tasks[e] : e \in Daemons} :
            t \in tasks[d] /\ \E i \in DOMAIN t.packages : r.package = t.packages[i]
      BY <2>2 DEF Welcomed
    <3> QED
      BY <1>1, <3>1
  <2> QED
    BY <1>3, <1>4, <1>5, <2>1, <2>2
<1>6. ASSUME NEW d \in Daemons, NEW i \in DOMAIN packages'[d], NEW k, k = packages'[d][i]
      PROVE  Prepared(k)'
  <2>1. \/ \E j \in DOMAIN packages[d] : k = packages[d][j]
        \/ \E c \in Codes : \E r \in Under(relay, c) : k = r.package
    BY <1>6 DEF PendingSteps
  <2> QED
    BY <1>2, <1>3, <2>1
<1>7. ASSUME NEW d \in Daemons, NEW t \in tasks'[d], NEW i \in DOMAIN t.packages
      PROVE  Prepared(t.packages[i])'
  <2>1. CASE t \in tasks[d]
    BY <1>1, <2>1
  <2>2. CASE Starts(d, t)
    <3>1. CASE t.packages = <<>>
      BY SMTT(30), <1>7, <3>1
    <3>2. CASE t.packages = packages[d]
      BY <1>2, <1>7, <3>2
    <3> QED
      BY <2>2, <3>1, <3>2 DEF Starts
  <2> QED
    BY <2>1, <2>2 DEF TaskSteps
<1> QED
  BY <1>5, <1>6, <1>7 DEF Owned

-----------------------------------------------------------------------------
\* The sessions: which group they are in

\* A session is in the group its daemon founded or in that of the code's owner,
\* and in the first as long as it holds its key package.
Belongs(d, c, s) ==
    s # NoSession =>
      /\ s.group \in {<<d, c>>, <<relay[c].owner, c>>}
      /\ s.packages \subseteq {KeyPackage(d, c)}
      /\ s.packages # {} => s.group = <<d, c>> /\ relay[c].owner # d

Membership ==
    \A d \in Daemons, c \in Codes : Belongs(d, c, sessions[d][c]) /\ Belongs(d, c, stored[d][c])

\* A welcome that the session of its addressee can join.
Joinable(r) == r.kind = "welcome" /\ r.package.conversation = r.conversation

\* The welcome leads into the group of the code's owner, who saved its epoch, and
\* has it unless the session was deleted.
Leads(r) ==
    LET o == relay[r.conversation].owner
        s == sessions[o][r.conversation]
        z == stored[o][r.conversation]
    IN  /\ o \in Daemons /\ r.group = <<o, r.conversation>> /\ Had(o, r.conversation)
        /\ s # NoSession => r.epoch <= s.epoch
        /\ z # NoSession => r.epoch <= z.epoch

Led ==
    \A c \in Codes : \A r \in Under(relay, c) \cup Under(relayFile, c) :
        r.epoch <= commits /\ (Joinable(r) => Leads(r))

\* Where a session that was there comes from: it goes on from the session or the
\* checkpoint, or it joined the group of the code's owner.
Comes(d, c, n) ==
    \/ Goes(d, c, n)
    \/ /\ n \in Session /\ n.group = <<relay[c].owner, c>> /\ relay[c].owner # d
       /\ n.packages = {} /\ n.epoch <= commits
       /\ sessions[d][c] \in Session /\ sessions[d][c].group = <<d, c>>

LEMMA SessionComes ==
    ASSUME Typed, InSync, Membership, Led, NEW d \in Daemons, NEW c \in Codes, Evolves(d, c), Had(d, c),
           NEW a, a \in {sessions'[d][c], stored'[d][c]}, a # NoSession
    PROVE  stored[d][c] \in Session /\ Comes(d, c, a)
<1> Types
  BY DEF Typed
<1>1. stored[d][c] \in Session
  <2>1. CASE stored[d][c] = NoSession
    <3>1. ~Rests(d, c)
      BY <2>1 DEF Rests, InSync
    <3>2. ~Founds(d, c) /\ ~Prepares(d, c)
      BY DEF Founds, Prepares, Begun
    <3> QED
      BY <2>1, <3>1, <3>2, SessionBegins
  <2> QED
    BY <2>1, CatalogTypes DEF Types
<1>2. CASE Rests(d, c)
  <2>1. CASE a = sessions[d][c]
    <3>1. sessions[d][c] \in Session
      BY <2>1, CatalogTypes DEF Types
    <3>2. Ahead(sessions[d][c], sessions[d][c])
      BY <3>1, MethodsAhead
    <3> QED
      BY <1>1, <2>1, <3>1, <3>2 DEF Comes, Goes
  <2>2. CASE a = stored[d][c]
    <3>1. Ahead(stored[d][c], stored[d][c])
      BY <1>1, MethodsAhead
    <3> QED
      BY <1>1, <2>2, <3>1 DEF Comes, Goes
  <2> QED
    BY <1>2, <2>1, <2>2 DEF Rests
<1>3. CASE Moves(d, c)
  BY <1>1, <1>3 DEF Moves, Comes
<1>4. CASE Joins(d, c)
  <2>1. PICK x \in Codes : \E w \in Under(relay, x) : Joined(d, c, w)
    BY <1>4 DEF Joins
  <2>2. PICK w \in Under(relay, x) : Joined(d, c, w)
    BY <2>1
  <2>3. w \in Response
    BY UnderTypes DEF Types
  <2>4. PICK s : s = sessions[d][c]
    OBVIOUS
  <2>5. s \in Session /\ s # NoSession /\ Belongs(d, c, s) /\ w.package \in s.packages
    BY <2>2, <2>4, RendezvousAssumption DEF Membership, Joined
  <2>6. /\ w.package = KeyPackage(d, c) /\ s.packages \subseteq {w.package}
        /\ s.group = <<d, c>> /\ relay[c].owner # d
    BY <2>5 DEF Belongs
  <2>7. w.kind = "welcome" /\ w.conversation = c /\ w.package.conversation = c
    BY SMTT(30), <2>2, <2>6 DEF Joined, KeyPackage
  <2>8. w.group = <<relay[c].owner, c>> /\ w.epoch <= commits
    BY <2>7 DEF Led, Joinable, Leads
  <2>9. PICK n : n = Join(s, w)
    OBVIOUS
  <2>10. n \in Session /\ n.group = w.group /\ n.epoch = w.epoch /\ n.packages = s.packages \ {w.package}
    BY <2>3, <2>5, <2>9, JoinTypes
  <2>11. n.packages = {}
    BY <2>6, <2>10
  <2>12. Comes(d, c, n)
    BY <2>4, <2>5, <2>6, <2>8, <2>10, <2>11 DEF Comes
  <2>13. PICK y : y = Poison(n)
    OBVIOUS
  <2>14. /\ n # NoSession /\ y \in Session /\ y.group = n.group /\ y.epoch = n.epoch
         /\ y.packages = n.packages
    <3>1. n # NoSession /\ y = [n EXCEPT !.poisoned = TRUE]
      BY <2>10, <2>13, RendezvousAssumption DEF Poison
    <3>2. y \in Session
      BY <2>10, <3>1 DEF Session
    <3>3. y.group = n.group /\ y.epoch = n.epoch /\ y.packages = n.packages
      BY SMTT(30), <2>10, <3>1 DEF Session
    <3> QED
      BY <3>1, <3>2, <3>3
  <2>15. Comes(d, c, y)
    BY <2>4, <2>5, <2>6, <2>8, <2>10, <2>11, <2>14 DEF Comes
  <2>16. Ahead(stored[d][c], stored[d][c])
    BY <1>1, MethodsAhead
  <2>17. Comes(d, c, stored[d][c])
    BY <2>16 DEF Comes, Goes
  <2> QED
    BY <1>1, <2>2, <2>4, <2>9, <2>12, <2>13, <2>15, <2>17 DEF Joined
<1>5. ~Founds(d, c) /\ ~Prepares(d, c)
  BY DEF Founds, Prepares, Begun
<1>6. ~Drops(d, c)
  BY SMTT(30) DEF Drops
<1> QED
  BY <1>2, <1>3, <1>4, <1>5, <1>6 DEF Evolves

\* What create_group and prepare make, field by field.
LEMMA FreshFields ==
    ASSUME NEW d \in Daemons, NEW c \in Codes
    PROVE  /\ CreateGroup(d, c).group = <<d, c>> /\ CreateGroup(d, c).packages = {}
           /\ CreateGroup(d, c).epoch = 0
           /\ Prepare(d, c).group = <<d, c>> /\ Prepare(d, c).packages = {KeyPackage(d, c)}
           /\ Prepare(d, c).epoch = 0
<1>1. PICK k : k = KeyPackage(d, c)
  OBVIOUS
<1>2. PICK n : n = CreateGroup(d, c)
  OBVIOUS
<1>3. n.group = <<d, c>> /\ n.packages = {} /\ n.epoch = 0
  BY SMTT(30), <1>2 DEF CreateGroup
<1>4. PICK p : p = [n EXCEPT !.packages = {k}]
  OBVIOUS
<1>5. n \in Session
  BY <1>2, FreshTypes
<1>6. p.group = n.group /\ p.packages = {k} /\ p.epoch = n.epoch
  BY SMTT(30), <1>4, <1>5 DEF Session
<1>7. p = Prepare(d, c)
  BY <1>1, <1>2, <1>4 DEF Prepare
<1> QED
  BY <1>1, <1>2, <1>3, <1>6, <1>7

\* The owner of a code under which there was a session never changes.
LEMMA RootedOwner ==
    ASSUME Records, Creations, Rooted, RelaySteps, NEW d \in Daemons, NEW c \in Codes, Had(d, c)
    PROVE  relay'[c].owner = relay[c].owner
<1>1. RelayStep(c) /\ relayFile[c].status # "none"
  BY DEF RelaySteps, Rooted
<1> QED
  BY <1>1, OwnerStays

LEMMA MembershipStep ==
    ASSUME Typed, InSync, Records, Creations, Guests, Rooted, Membership, Led, Evolve, RelaySteps
    PROVE  Membership'
<1>ComesBelongs.
      ASSUME Membership, NEW d \in Daemons, NEW c \in Codes, NEW n, Comes(d, c, n),
             stored[d][c] \in Session, relay'[c].owner = relay[c].owner
      PROVE  Belongs(d, c, n)'
  <2> USE <1>ComesBelongs
  <2>1. ASSUME NEW s, s # NoSession, Belongs(d, c, s), Ahead(s, n) PROVE Belongs(d, c, n)'
    <3>1. n.group = s.group /\ n.packages = s.packages
      BY <2>1 DEF Ahead
    <3>2. /\ s.group \in {<<d, c>>, <<relay[c].owner, c>>} /\ s.packages \subseteq {KeyPackage(d, c)}
          /\ s.packages # {} => s.group = <<d, c>> /\ relay[c].owner # d
      BY <2>1 DEF Belongs
    <3> QED
      BY <3>1, <3>2 DEF Belongs
  <2>2. CASE n.group = <<relay[c].owner, c>> /\ n.packages = {}
    BY <2>2 DEF Belongs
  <2> QED
    BY <2>1, <2>2, RendezvousAssumption DEF Comes, Goes, Membership
<1>1. ASSUME NEW d \in Daemons, NEW c \in Codes, NEW n, n \in {sessions'[d][c], stored'[d][c]}
      PROVE  Belongs(d, c, n)'
  <2>1. Evolves(d, c)
    BY DEF Evolve
  <2>2. CASE n = NoSession
    BY <2>2 DEF Belongs
  <2>3. CASE n # NoSession /\ Had(d, c)
    <3>1. stored[d][c] \in Session /\ Comes(d, c, n)
      BY <1>1, <2>1, <2>3, SessionComes
    <3>2. relay'[c].owner = relay[c].owner
      BY <2>3, RootedOwner
    <3> QED
      BY <3>1, <3>2, <1>ComesBelongs
  <2>4. CASE n # NoSession /\ ~Had(d, c)
    <3>1. stored[d][c] = NoSession
      BY <2>4 DEF Had
    <3>2. ~Rests(d, c)
      BY <1>1, <2>4, <3>1 DEF Rests, InSync
    <3>3. CASE Founds(d, c)
      <4>1. n = CreateGroup(d, c)
        BY <1>1, <3>3 DEF Founds, Begun
      <4> QED
        BY <4>1, FreshFields DEF Belongs
    <3>4. CASE Prepares(d, c)
      <4>1. n = Prepare(d, c) /\ relay'[c].owner # d
        BY <1>1, <3>4, PreparedByGuest
      <4> QED
        BY <4>1, FreshFields DEF Belongs
    <3> QED
      BY <2>1, <3>1, <3>2, <3>3, <3>4, SessionBegins
  <2> QED
    BY <2>2, <2>3, <2>4
<1> QED
  BY <1>1 DEF Membership, Belongs

LEMMA NumberedStep ==
    ASSUME Typed, InSync, Numbered, Membership, Led, Evolve, CommitSteps
    PROVE  Numbered'
<1> Types
  BY DEF Typed
<1>1. commits \in Nat /\ commits' \in Nat /\ commits <= commits'
  BY DEF Types, CommitSteps
<1>2. ASSUME NEW d \in Daemons, NEW c \in Codes, NEW n, n \in {sessions'[d][c], stored'[d][c]},
             n # NoSession
      PROVE  n.epoch <= commits'
  <2>1. Evolves(d, c)
    BY DEF Evolve
  <2>2. CASE Had(d, c)
    <3>1. Comes(d, c, n) /\ stored[d][c] \in Session
      BY <1>2, <2>1, <2>2, SessionComes
    <3>3. PICK s \in {sessions[d][c], stored[d][c]} : s \in Session /\ (Ahead(s, n) \/ n.epoch <= commits)
      BY <3>1 DEF Comes, Goes
    <3>4. s \in Session /\ s.epoch <= commits
      BY <3>3, RendezvousAssumption DEF Numbered
    <3>5. n \in Session
      BY <3>1 DEF Comes, Goes, Ahead
    <3>6. s.epoch \in Nat /\ n.epoch \in Nat
      BY SMTT(30), <3>4, <3>5 DEF Session
    <3>7. n.epoch = s.epoch \/ n.epoch <= commits \/ n.epoch <= commits'
      BY <3>3 DEF Ahead
    <3> QED
      BY SMTT(30), <1>1, <3>4, <3>6, <3>7
  <2>3. CASE ~Had(d, c)
    <3>1. n \in {CreateGroup(d, c), Prepare(d, c)}
      <4>1. stored[d][c] = NoSession
        BY <2>3 DEF Had
      <4>2. ~Rests(d, c)
        BY <1>2, <4>1 DEF Rests, InSync
      <4> QED
        BY <1>2, <2>1, <4>1, <4>2, SessionBegins DEF Founds, Prepares, Begun
    <3>2. n.epoch = 0
      BY <3>1, FreshFields
    <3> QED
      BY SMTT(30), <1>1, <3>2
  <2> QED
    BY <2>2, <2>3
<1>3. \A w \in removals' : w.epoch < w.next /\ w.next <= commits'
  <2>1. \A w \in removals : w.next \in Nat
    BY SMTT(30) DEF Types, Removal
  <2> QED
    BY SMTT(30), <1>1, <2>1 DEF CommitSteps, Numbered
<1> QED
  BY <1>2, <1>3 DEF Numbered

-----------------------------------------------------------------------------
\* The responses under the codes: what was handed out is saved

LEMMA LedStep ==
    ASSUME Typed, InSync, Records, Creations, Guests, Rooted, Owned, Membership, Led,
           Evolve, RelaySteps, CommitSteps, LogSteps
    PROVE  Led'
\* The owner of a code only goes on in the group it founded.
<1>LeadsOn.
      ASSUME Typed, InSync, Records, Creations, Rooted, Membership, Led, Evolve, RelaySteps, LogSteps,
             NEW r \in Response, Leads(r)
      PROVE  Leads(r)'
  <2> USE <1>LeadsOn
  <2>1. PICK k : k = r.conversation
    OBVIOUS
  <2>2. PICK o : o = relay[k].owner
    OBVIOUS
  <2>3. /\ k \in Codes /\ o \in Daemons /\ r.group = <<o, k>> /\ r.epoch \in Nat /\ Had(o, k)
        /\ sessions[o][k] # NoSession => r.epoch <= sessions[o][k].epoch
        /\ stored[o][k] # NoSession => r.epoch <= stored[o][k].epoch
    BY <2>1, <2>2, ResponseTypes DEF Leads
  <2>4. relay'[k].owner = o
    BY <2>2, <2>3, RootedOwner
  <2>6. Evolves(o, k)
    BY <2>3 DEF Evolve
  <2>7. Had(o, k)'
    BY <2>3, <2>6, HadStays
  <2>5. ASSUME NEW n, n \in {sessions'[o][k], stored'[o][k]}, n # NoSession PROVE r.epoch <= n.epoch
    <3>2. Comes(o, k, n) /\ stored[o][k] \in Session
      BY <2>3, <2>5, <2>6, SessionComes
    <3>3. PICK s \in {sessions[o][k], stored[o][k]} : s \in Session /\ Ahead(s, n)
      BY <2>2, <3>2 DEF Comes, Goes
    <3>4. s \in Session /\ n \in Session /\ r.epoch <= s.epoch /\ s.epoch <= n.epoch
      BY <2>3, <3>3, RendezvousAssumption DEF Ahead
    <3>5. s.epoch \in Nat /\ n.epoch \in Nat
      BY SMTT(30), <3>4 DEF Session
    <3> QED
      BY SMTT(30), <2>3, <3>4, <3>5
  <2> QED
    BY <2>1, <2>3, <2>4, <2>5, <2>7 DEF Leads
\* Only the owner of a code can have added the guest's key package.
<1>WelcomedLeads.
      ASSUME Typed, InSync, Records, Creations, Guests, Rooted, Owned, Membership, RelaySteps,
             NEW r, Welcomed(r), Joinable(r)
      PROVE  Leads(r)'
  <2> USE <1>WelcomedLeads
  <2>1. PICK d \in Daemons, t \in UNION {tasks[e] : e \in Daemons} :
          /\ t \in tasks[d] /\ t.conversation \in Codes /\ r.conversation = t.conversation
          /\ r.package.owner # d /\ \E i \in DOMAIN t.packages : r.package = t.packages[i]
          /\ sessions[d][t.conversation] \in Session /\ r.group = sessions[d][t.conversation].group
          /\ sessions'[d][t.conversation] \in Session /\ r.epoch <= sessions'[d][t.conversation].epoch
          /\ stored'[d][t.conversation] \in Session /\ r.epoch <= stored'[d][t.conversation].epoch
    BY DEF Welcomed
  <2>2. PICK k : k = t.conversation
    OBVIOUS
  <2>3. PICK p : p = r.package.owner
    OBVIOUS
  <2>4. p \in Daemons /\ Had(p, k) /\ relay[k].owner # p
    <3>1. PICK i \in DOMAIN t.packages : r.package = t.packages[i]
      BY <2>1
    <3>2. t.packages \in Seq(KeyPackages)
      BY <2>1, TaskTypes
    <3>3. PICK q : q = t.packages
      OBVIOUS
    <3>4. q[i] \in KeyPackages
      BY SMTT(30), <3>1, <3>2, <3>3
    <3>5. r.package \in KeyPackages /\ Prepared(r.package)
      BY <2>1, <3>1, <3>3, <3>4 DEF Owned
    <3> QED
      BY <2>1, <2>2, <2>3, <3>5, PackageTypes DEF Joinable, Prepared
  <2>5. Guest(p, k) /\ p # d
    BY <2>1, <2>3, <2>4 DEF Guest
  <2>6. sessions[d][k] # NoSession /\ Had(d, k)
    BY <2>1, <2>2, RendezvousAssumption DEF InSync, Had
  <2>7. relay[k].owner = d
    BY ZenonT(60), <2>1, <2>2, <2>4, <2>5, <2>6 DEF Guests, Guest
  <2>8. relay'[k].owner = d
    BY <2>1, <2>2, <2>6, <2>7, RootedOwner
  <2>9. r.group = <<d, k>>
    BY <2>1, <2>2, <2>6, <2>7 DEF Membership, Belongs
  <2>10. Had(d, k)'
    BY <2>1, <2>2, RendezvousAssumption DEF Had
  <2> QED
    BY <2>1, <2>2, <2>8, <2>9, <2>10 DEF Leads
\* The response that prepare leaves, field by field.
<1>OfferedFields.
      ASSUME NEW d, NEW c, NEW r, r = PackageResponse(d, c)
      PROVE  r.kind = "key-package" /\ r.epoch = 0 /\ r.package = KeyPackage(d, c)
  BY SMTT(30), <1>OfferedFields DEF PackageResponse
<1> Types
  BY DEF Typed
<1>1. commits \in Nat /\ commits' \in Nat /\ commits <= commits'
  BY DEF Types, CommitSteps
<1>2. ASSUME NEW c \in Codes, NEW r \in Under(relay', c) \cup Under(relayFile', c)
      PROVE  r.epoch <= commits' /\ (Joinable(r) => Leads(r)')
  <2>1. r \in Under(relay, c) \cup Under(relayFile, c) \/ Offered(c, r) \/ Welcomed(r)
    BY <1>2 DEF RelaySteps, RelayStep, Fresh
  <2>2. CASE r \in Under(relay, c) \cup Under(relayFile, c)
    <3>1. r \in Response /\ r.epoch <= commits /\ (Joinable(r) => Leads(r))
      BY <2>2, UnderTypes DEF Types, Led
    <3>2. r.epoch <= commits'
      BY SMTT(30), <1>1, <3>1 DEF Response
    <3> QED
      BY <3>1, <3>2, <1>LeadsOn
  <2>3. CASE Offered(c, r)
    <3>1. r.kind = "key-package" /\ r.epoch = 0
      BY <2>3, <1>OfferedFields DEF Offered
    <3>2. r.epoch <= commits'
      BY SMTT(30), <1>1, <3>1
    <3> QED
      BY <3>1, <3>2 DEF Joinable
  <2>4. CASE Welcomed(r)
    <3>1. r.epoch <= commits'
      BY <2>4 DEF Welcomed
    <3> QED
      BY <2>4, <3>1, <1>WelcomedLeads
  <2> QED
    BY <2>1, <2>2, <2>3, <2>4
<1> QED
  BY <1>2 DEF Led, Joinable

\* The package can still be joined with, or has been, unless the session is gone.
Holds(k, s) == s # NoSession => k \in s.packages \/ s.group # <<k.owner, k.conversation>>

Kept ==
    \A c \in Codes : \A r \in Under(relay, c) \cup Under(relayFile, c) :
        r.kind = "key-package" =>
          /\ Holds(r.package, sessions[r.package.owner][r.package.conversation])
          /\ Holds(r.package, stored[r.package.owner][r.package.conversation])

LEMMA KeptStep ==
    ASSUME Typed, InSync, Records, Creations, Guests, Rooted, Owned, Membership, Led, Kept,
           Evolve, RelaySteps
    PROVE  Kept'
<1> Types
  BY DEF Typed
<1>1. ASSUME NEW k \in KeyPackages, Prepared(k), NEW n,
             n \in {sessions'[k.owner][k.conversation], stored'[k.owner][k.conversation]},
             Holds(k, sessions[k.owner][k.conversation]), Holds(k, stored[k.owner][k.conversation])
      PROVE  Holds(k, n)
  <2>1. PICK d : d = k.owner
    OBVIOUS
  <2>2. PICK c : c = k.conversation
    OBVIOUS
  <2>3. d \in Daemons /\ c \in Codes /\ Had(d, c) /\ relay[c].owner # d
    BY <1>1, <2>1, <2>2, PackageTypes DEF Prepared
  <2>7. CASE n = NoSession
    BY <2>7 DEF Holds
  <2>8. Evolves(d, c) /\ n \in {sessions'[d][c], stored'[d][c]}
    BY <1>1, <2>1, <2>2, <2>3 DEF Evolve
  <2>4. ASSUME n # NoSession PROVE stored[d][c] \in Session /\ Comes(d, c, n)
    BY <2>3, <2>4, <2>8, SessionComes
  <2>5. CASE \E s \in {sessions[d][c], stored[d][c]} : s \in Session /\ Ahead(s, n)
    BY <1>1, <2>1, <2>2, <2>5, RendezvousAssumption DEF Ahead, Holds
  <2>6. CASE n.group = <<relay[c].owner, c>>
    <3>1. n.group # <<d, c>>
      BY SMTT(30), <2>3, <2>6
    <3> QED
      BY <2>1, <2>2, <3>1 DEF Holds
  <2> QED
    BY <2>4, <2>5, <2>6, <2>7 DEF Comes, Goes
<1>2. ASSUME NEW c \in Codes, NEW r \in Under(relay', c) \cup Under(relayFile', c),
             r.kind = "key-package", NEW n,
             n \in {sessions'[r.package.owner][r.package.conversation],
                    stored'[r.package.owner][r.package.conversation]}
      PROVE  Holds(r.package, n)
  <2>1. r \in Under(relay, c) \cup Under(relayFile, c) \/ Offered(c, r) \/ Welcomed(r)
    BY <1>2 DEF RelaySteps, RelayStep, Fresh
  <2>2. CASE r \in Under(relay, c) \cup Under(relayFile, c)
    <3>1. r \in Response /\ Prepared(r.package)
      BY <2>2, UnderTypes DEF Types, Owned
    <3>2. /\ Holds(r.package, sessions[r.package.owner][r.package.conversation])
          /\ Holds(r.package, stored[r.package.owner][r.package.conversation])
      BY <1>2, <2>2 DEF Kept
    <3>3. r.package \in KeyPackages
      BY <3>1, ResponseTypes
    <3> QED
      BY <1>1, <1>2, <3>1, <3>2, <3>3
  <2>3. CASE Offered(c, r)
    <3>1. PICK d \in Daemons : r = PackageResponse(d, c) /\ Prepares(d, c)
      BY <2>3 DEF Offered
    <3>2. PICK k : k = KeyPackage(d, c)
      OBVIOUS
    <3>3. r.package = k /\ k.owner = d /\ k.conversation = c
      BY SMTT(30), <3>1, <3>2 DEF PackageResponse, KeyPackage
    <3>6. sessions'[d][c] = Prepare(d, c) /\ stored'[d][c] = Prepare(d, c)
      BY <3>1 DEF Prepares, Begun
    <3>4. n = Prepare(d, c)
      BY <1>2, <3>3, <3>6
    <3>5. n.packages = {k}
      BY <3>2, <3>4, FreshFields
    <3> QED
      BY <3>3, <3>5 DEF Holds
  <2>4. ~Welcomed(r)
    BY <1>2 DEF Welcomed
  <2> QED
    BY <2>1, <2>2, <2>3, <2>4
<1> QED
  BY <1>2 DEF Kept, Holds

-----------------------------------------------------------------------------
\* The messages: what was sent or read is behind the session and its checkpoint

\* The daemon d, in session s, will not encrypt m again: m is of the group that
\* d founded and left, of an earlier epoch, or has a generation that is used.
PastSent(d, s, m) ==
    s # NoSession =>
      /\ m.group # s.group => m.group = <<d, m.group[2]>>
      /\ m.group = s.group => m.epoch < s.epoch \/ (m.epoch = s.epoch /\ m.gen < s.gen)

\* The daemon d, in session s, will not open m again.
PastRead(d, s, m) ==
    s # NoSession =>
      /\ m.group # s.group => m.group = <<d, m.group[2]>>
      /\ m.group = s.group => m.epoch < s.epoch \/ (m.epoch = s.epoch /\ <<m.from, m.gen>> \in s.seen)

SentBefore ==
    \A i \in DOMAIN sent :
        /\ Had(sent[i].from, sent[i].group[2])
        /\ PastSent(sent[i].from, sessions[sent[i].from][sent[i].group[2]], sent[i])
        /\ PastSent(sent[i].from, stored[sent[i].from][sent[i].group[2]], sent[i])

ReadBefore ==
    \A d \in Daemons : \A i \in DOMAIN read[d] :
        /\ Had(d, read[d][i].group[2])
        /\ PastRead(d, sessions[d][read[d][i].group[2]], read[d][i])
        /\ PastRead(d, stored[d][read[d][i].group[2]], read[d][i])

LEMMA MessageTypes ==
    ASSUME NEW m \in Message
    PROVE  m.from \in Daemons /\ m.group[2] \in Codes /\ m.epoch \in Nat /\ m.gen \in Nat
  BY SMTT(30) DEF Message

LEMMA GroupCode ==
    ASSUME Membership, NEW d \in Daemons, NEW c \in Codes, sessions[d][c] # NoSession
    PROVE  sessions[d][c].group[2] = c
<1>1. sessions[d][c].group \in {<<d, c>>, <<relay[c].owner, c>>}
  BY DEF Membership, Belongs
<1> QED
  BY SMTT(30), <1>1

LEMMA SentStep ==
    ASSUME Typed, InSync, Membership, Led, SentBefore, Evolve, TalkSteps, LogSteps
    PROVE  SentBefore' /\ sent' \in Seq(Message) /\ (NoRepeats(sent) => NoRepeats(sent'))
<1>PastSentStays.
      ASSUME NEW d \in Daemons, NEW c \in Codes, NEW n, Comes(d, c, n), NEW m \in Message, m.group[2] = c,
             stored[d][c] \in Session, PastSent(d, sessions[d][c], m), PastSent(d, stored[d][c], m)
      PROVE  PastSent(d, n, m)
  <2> USE <1>PastSentStays
  <2>1. ASSUME NEW s \in Session, Ahead(s, n), PastSent(d, s, m) PROVE PastSent(d, n, m)
    <3>1. /\ n \in Session /\ n.group = s.group /\ s.epoch <= n.epoch
          /\ n.epoch = s.epoch => s.gen <= n.gen /\ s.seen \subseteq n.seen
      BY <2>1 DEF Ahead
    <3>2. n # NoSession
      BY ZenonT(60), <3>1, RendezvousAssumption
    <3>3. /\ s.epoch \in Nat /\ n.epoch \in Nat /\ s.gen \in Nat /\ n.gen \in Nat
          /\ m.epoch \in Nat /\ m.gen \in Nat
      BY SMTT(30), <3>1 DEF Session, Message
    <3>4. m.group = s.group => m.epoch < n.epoch \/ (m.epoch = n.epoch /\ m.gen < n.gen)
      <4>1. PICK x : x = <<m.from, m.gen>>
        OBVIOUS
      <4>2. m.group = s.group => m.epoch < s.epoch \/ (m.epoch = s.epoch /\ m.gen < s.gen)
        BY ZenonT(60), <2>1, <4>1, RendezvousAssumption DEF PastSent
      <4>3. m.group = s.group => m.epoch < n.epoch \/ (m.epoch = n.epoch /\ m.gen < n.gen)
        BY SMTT(30), <3>1, <3>3, <4>2
      <4> QED
        BY <4>1, <4>3
    <3> QED
      BY <2>1, <3>1, <3>2, <3>4, RendezvousAssumption DEF PastSent
  <2>2. CASE /\ n \in Session /\ n.group = <<relay[c].owner, c>> /\ relay[c].owner # d
             /\ sessions[d][c] \in Session /\ sessions[d][c].group = <<d, c>>
    <3>1. m.group = <<d, c>>
      BY <2>2, RendezvousAssumption DEF PastSent
    <3>2. m.group # n.group
      BY SMTT(30), <2>2, <3>1
    <3> QED
      BY <2>2, <3>1, <3>2, RendezvousAssumption DEF PastSent
  <2> QED
    BY <2>1, <2>2 DEF Comes, Goes
\* The ciphertext of a session, which is a message of the session's group.
<1>CiphertextFields.
      ASSUME NEW d \in Daemons, NEW s \in Session, NEW m, m = Ciphertext(d, s)
      PROVE  /\ m \in Message /\ m.from = d /\ m.group = s.group /\ m.epoch = s.epoch /\ m.gen = s.gen
  <2> USE <1>CiphertextFields
  <2>1. s.group \in Daemons \X Codes /\ s.epoch \in Nat /\ s.gen \in Nat
    BY SMTT(30) DEF Session
  <2>2. PICK g : g = s.group
    OBVIOUS
  <2>3. PICK a : a = s.epoch
    OBVIOUS
  <2>4. PICK b : b = s.gen
    OBVIOUS
  <2>5. m = [group |-> g, epoch |-> a, from |-> d, gen |-> b]
    BY <2>2, <2>3, <2>4 DEF Ciphertext
  <2> QED
    BY SMTT(30), <2>1, <2>2, <2>3, <2>4, <2>5 DEF Message
<1> Types
  BY DEF Typed
<1>1. ASSUME NEW i \in DOMAIN sent, NEW m, m = sent[i]
      PROVE  /\ m \in Message
             /\ PastSent(m.from, sessions[m.from][m.group[2]], m)
             /\ PastSent(m.from, sessions'[m.from][m.group[2]], m)
             /\ PastSent(m.from, stored'[m.from][m.group[2]], m)
             /\ Had(m.from, m.group[2])'
  <2>1. m \in Message
    BY SMTT(30), <1>1 DEF Types
  <2>2. PICK d : d = m.from
    OBVIOUS
  <2>3. PICK c : c = m.group[2]
    OBVIOUS
  <2>4. d \in Daemons /\ c \in Codes
    BY <2>1, <2>2, <2>3, MessageTypes
  <2>5. PastSent(d, sessions[d][c], m) /\ PastSent(d, stored[d][c], m)
    BY <1>1, <2>2, <2>3 DEF SentBefore
  <2>6. Had(d, c) /\ Evolves(d, c)
    BY <1>1, <2>2, <2>3, <2>4 DEF SentBefore, Evolve
  <2>7. Had(d, c)'
    BY <2>4, <2>6, HadStays
  <2>8. ASSUME NEW n, n \in {sessions'[d][c], stored'[d][c]} PROVE PastSent(d, n, m)
    <3>1. CASE n = NoSession
      BY <3>1 DEF PastSent
    <3>2. CASE n # NoSession
      <4>1. stored[d][c] \in Session /\ Comes(d, c, n)
        BY <2>4, <2>6, <2>8, <3>2, SessionComes
      <4> QED
        BY <2>1, <2>3, <2>4, <2>5, <4>1, <1>PastSentStays
    <3> QED
      BY <3>1, <3>2
  <2> QED
    BY <2>1, <2>2, <2>3, <2>5, <2>7, <2>8
<1>2. CASE UNCHANGED sent
  BY <1>1, <1>2 DEF SentBefore, Types
<1>3. ASSUME NEW d \in Daemons, NEW c \in Codes, Sends(d, c)
      PROVE  SentBefore' /\ sent' \in Seq(Message) /\ (NoRepeats(sent) => NoRepeats(sent'))
  <2>1. PICK s : s = sessions[d][c]
    OBVIOUS
  <2>2. PICK m : m = Ciphertext(d, s)
    OBVIOUS
  <2>3. s \in Session /\ s # NoSession /\ sent' = Append(sent, m)
    BY <1>3, <2>1, <2>2, RendezvousAssumption DEF Sends
  <2>4. m \in Message /\ m.from = d /\ m.group = s.group /\ m.epoch = s.epoch /\ m.gen = s.gen
    BY SMTT(30), <2>2, <2>3, <1>CiphertextFields
  <2>5. m.group[2] = c
    BY <2>1, <2>3, <2>4, GroupCode
  <2>6. PICK n : n = Encrypt(s)
    OBVIOUS
  <2>7. /\ n \in Session /\ n.group = s.group /\ n.epoch = s.epoch /\ s.gen < n.gen
        /\ s.epoch \in Nat /\ s.gen \in Nat
    BY SMTT(30), <2>3, <2>6 DEF Encrypt, Session
  <2>8. PastSent(d, n, m)
    BY <2>4, <2>7, RendezvousAssumption DEF PastSent
  <2>9. sessions'[d][c] = n /\ stored'[d][c] = n
    BY <1>3, <2>1, <2>6 DEF Sends
  <2>10. ASSUME NEW i \in DOMAIN sent, sent[i] = m PROVE FALSE
    <3>1. PastSent(d, s, m)
      BY <1>1, <2>1, <2>4, <2>5, <2>10
    <3>2. s.epoch < s.epoch \/ s.gen < s.gen
      BY <2>3, <2>4, <3>1 DEF PastSent
    <3> QED
      BY SMTT(30), <2>7, <3>2
  <2>11. /\ \A i \in DOMAIN sent' : (i \in DOMAIN sent /\ sent'[i] = sent[i]) \/ sent'[i] = m
         /\ NoRepeats(sent) => NoRepeats(sent')
         /\ sent' \in Seq(Message)
    <3>1. sent \in Seq(Message)
      BY DEF Types
    <3>2. PICK k : k = Len(sent) + 1
      OBVIOUS
    <3>3. /\ \A i \in DOMAIN sent' : (i \in DOMAIN sent /\ sent'[i] = sent[i]) \/ (i = k /\ sent'[i] = m)
          /\ sent' \in Seq(Message)
      BY SMTT(30), <2>3, <2>4, <3>1, <3>2
    <3>4. \A i \in DOMAIN sent : sent[i] # m
      BY <2>10
    <3>5. ASSUME NoRepeats(sent) PROVE NoRepeats(sent')
      BY SMTT(30), <3>3, <3>4, <3>5 DEF NoRepeats
    <3> QED
      BY <3>3, <3>5
  <2>12. ASSUME NEW i \in DOMAIN sent', NEW x, x = sent'[i]
         PROVE  /\ PastSent(x.from, sessions'[x.from][x.group[2]], x)
                /\ PastSent(x.from, stored'[x.from][x.group[2]], x)
                /\ Had(x.from, x.group[2])'
    <3>1. Had(d, c)'
      BY <2>7, <2>9, RendezvousAssumption DEF Had
    <3> QED
      BY <1>1, <2>4, <2>5, <2>8, <2>9, <2>11, <2>12, <3>1
  <2> QED
    BY <2>11, <2>12 DEF SentBefore
<1> QED
  BY <1>2, <1>3 DEF TalkSteps

LEMMA ReadStep ==
    ASSUME Typed, InSync, Membership, Led, ReadBefore, Evolve, TalkSteps, LogSteps
    PROVE  /\ ReadBefore' /\ read' \in [Daemons -> Seq(Message)]
           /\ \A d \in Daemons : NoRepeats(read[d]) => NoRepeats(read'[d])
<1>PastReadStays.
      ASSUME NEW d \in Daemons, NEW c \in Codes, NEW n, Comes(d, c, n), NEW m \in Message, m.group[2] = c,
             stored[d][c] \in Session, PastRead(d, sessions[d][c], m), PastRead(d, stored[d][c], m)
      PROVE  PastRead(d, n, m)
  <2> USE <1>PastReadStays
  <2>1. ASSUME NEW s \in Session, Ahead(s, n), PastRead(d, s, m) PROVE PastRead(d, n, m)
    <3>1. /\ n \in Session /\ n.group = s.group /\ s.epoch <= n.epoch
          /\ n.epoch = s.epoch => s.gen <= n.gen /\ s.seen \subseteq n.seen
      BY <2>1 DEF Ahead
    <3>2. n # NoSession
      BY <3>1, RendezvousAssumption
    <3>3. /\ s.epoch \in Nat /\ n.epoch \in Nat /\ s.gen \in Nat /\ n.gen \in Nat
          /\ m.epoch \in Nat /\ m.gen \in Nat
      BY SMTT(30), <3>1 DEF Session, Message
    <3>4. m.group = s.group => m.epoch < n.epoch \/ (m.epoch = n.epoch /\ <<m.from, m.gen>> \in n.seen)
      <4>1. PICK x : x = <<m.from, m.gen>>
        OBVIOUS
      <4>2. m.group = s.group => m.epoch < s.epoch \/ (m.epoch = s.epoch /\ x \in s.seen)
        BY ZenonT(60), <2>1, <4>1, RendezvousAssumption DEF PastRead
      <4>3. m.group = s.group => m.epoch < n.epoch \/ (m.epoch = n.epoch /\ x \in n.seen)
        BY SMTT(30), <3>1, <3>3, <4>2
      <4> QED
        BY <4>1, <4>3
    <3> QED
      BY <2>1, <3>1, <3>2, <3>4, RendezvousAssumption DEF PastRead
  <2>2. CASE /\ n \in Session /\ n.group = <<relay[c].owner, c>> /\ relay[c].owner # d
             /\ sessions[d][c] \in Session /\ sessions[d][c].group = <<d, c>>
    <3>1. m.group = <<d, c>>
      BY <2>2, RendezvousAssumption DEF PastRead
    <3>2. m.group # n.group
      BY SMTT(30), <2>2, <3>1
    <3> QED
      BY <2>2, <3>1, <3>2, RendezvousAssumption DEF PastRead
  <2> QED
    BY <2>1, <2>2 DEF Comes, Goes
<1> Types
  BY DEF Typed
<1>1. ASSUME NEW d \in Daemons, NEW i \in DOMAIN read[d], NEW m, m = read[d][i]
      PROVE  /\ PastRead(d, sessions[d][m.group[2]], m)
             /\ PastRead(d, sessions'[d][m.group[2]], m)
             /\ PastRead(d, stored'[d][m.group[2]], m)
             /\ Had(d, m.group[2])'
  <2>1. m \in Message
    <3>1. PICK q : q = read[d]
      OBVIOUS
    <3>2. q \in Seq(Message)
      BY SMTT(30), <3>1 DEF Types
    <3>3. q[i] \in Message
      BY SMTT(30), <1>1, <3>1, <3>2
    <3> QED
      BY <1>1, <3>1, <3>3
  <2>3. PICK c : c = m.group[2]
    OBVIOUS
  <2>4. c \in Codes
    BY <2>1, <2>3, MessageTypes
  <2>5. PastRead(d, sessions[d][c], m) /\ PastRead(d, stored[d][c], m)
    BY <1>1, <2>3 DEF ReadBefore
  <2>6. Had(d, c) /\ Evolves(d, c)
    BY <1>1, <2>3, <2>4 DEF ReadBefore, Evolve
  <2>7. Had(d, c)'
    BY <2>4, <2>6, HadStays
  <2>8. ASSUME NEW n, n \in {sessions'[d][c], stored'[d][c]} PROVE PastRead(d, n, m)
    <3>1. CASE n = NoSession
      BY <3>1 DEF PastRead
    <3>2. CASE n # NoSession
      <4>1. stored[d][c] \in Session /\ Comes(d, c, n)
        BY <2>4, <2>6, <2>8, <3>2, SessionComes
      <4> QED
        BY <2>1, <2>3, <2>4, <2>5, <4>1, <1>PastReadStays
    <3> QED
      BY <3>1, <3>2
  <2> QED
    BY <2>3, <2>5, <2>7, <2>8
<1>2. CASE UNCHANGED read
  BY <1>1, <1>2 DEF ReadBefore, Types
<1>3. ASSUME NEW d \in Daemons, NEW c \in Codes, NEW w \in Message, Reads(d, c, w)
      PROVE  /\ ReadBefore' /\ read' \in [Daemons -> Seq(Message)]
             /\ \A e \in Daemons : NoRepeats(read[e]) => NoRepeats(read'[e])
  <2>1. PICK s : s = sessions[d][c]
    OBVIOUS
  <2>2. /\ s \in Session /\ s # NoSession /\ read' = [read EXCEPT ![d] = Append(@, w)]
        /\ w.group = s.group /\ w.epoch = s.epoch /\ <<w.from, w.gen>> \notin s.seen
    BY <1>3, <2>1, RendezvousAssumption DEF Reads, CanDecrypt, SameEpoch
  <2>3. w.group[2] = c
    BY <2>1, <2>2, GroupCode
  <2>4. PICK x : x = <<w.from, w.gen>>
    OBVIOUS
  <2>5. PICK n : n = [s EXCEPT !.seen = @ \cup {x}]
    OBVIOUS
  <2>6. n.group = s.group /\ n.epoch = s.epoch /\ x \in n.seen /\ s.epoch \in Nat
    BY SMTT(30), <2>2, <2>5 DEF Session
  <2>7. sessions'[d][c] = n /\ stored'[d][c] = n
    BY <1>3, <2>1, <2>4, <2>5 DEF Reads, Decrypt
  <2>8. PastRead(d, n, w) /\ n \in Session
    <3>1. n \in Session
      BY SMTT(30), <1>3, <2>2, <2>4, <2>5 DEF Session, Message
    <3> QED
      BY <2>2, <2>4, <2>6, <3>1, RendezvousAssumption DEF PastRead
  <2>9. ASSUME NEW i \in DOMAIN read[d], read[d][i] = w PROVE FALSE
    <3>1. PastRead(d, s, w)
      BY <1>1, <2>1, <2>3, <2>9
    <3>2. s.epoch < s.epoch
      BY <2>2, <3>1 DEF PastRead
    <3> QED
      BY SMTT(30), <2>6, <3>2
  <2>10. PICK q : q = read[d]
    OBVIOUS
  <2>11. PICK p : p = Append(q, w)
    OBVIOUS
  <2>12. /\ read' \in [Daemons -> Seq(Message)] /\ read'[d] = p
         /\ \A e \in Daemons : e # d => read'[e] = read[e]
    <3>1. q \in Seq(Message)
      BY SMTT(30), <2>10 DEF Types
    <3>2. p \in Seq(Message)
      BY SMTT(30), <2>11, <3>1
    <3>3. read' = [read EXCEPT ![d] = p]
      BY <2>2, <2>10, <2>11
    <3> QED
      BY SMTT(30), <3>2, <3>3 DEF Types
  <2>13. PICK k : k = Len(q) + 1
    OBVIOUS
  <2>14. \A i \in DOMAIN p : (i \in DOMAIN q /\ p[i] = q[i]) \/ (i = k /\ p[i] = w)
    <3>1. q \in Seq(Message)
      BY SMTT(30), <2>10 DEF Types
    <3> QED
      BY SMTT(30), <2>11, <2>13, <3>1
  <2>15. ASSUME NoRepeats(q) PROVE NoRepeats(p)
    <3>1. \A i \in DOMAIN q : q[i] # w
      BY <2>9, <2>10
    <3> QED
      BY SMTT(30), <2>14, <2>15, <3>1 DEF NoRepeats
  <2>16. \A e \in Daemons : NoRepeats(read[e]) => NoRepeats(read'[e])
    BY <2>10, <2>12, <2>15
  <2>17. ASSUME NEW e \in Daemons, NEW i \in DOMAIN read'[e], NEW m, m = read'[e][i]
         PROVE  /\ PastRead(e, sessions'[e][m.group[2]], m)
                /\ PastRead(e, stored'[e][m.group[2]], m)
                /\ Had(e, m.group[2])'
    <3>2. Had(d, c)'
      BY <2>7, <2>8, RendezvousAssumption DEF Had
    <3>1. (i \in DOMAIN read[e] /\ m = read[e][i]) \/ (e = d /\ m = w)
      BY <2>10, <2>12, <2>14, <2>17
    <3> QED
      BY <1>1, <2>3, <2>7, <2>8, <3>1, <3>2
  <2> QED
    BY <2>12, <2>16, <2>17 DEF ReadBefore
<1>4. \A i \in 1..Len(sent) : sent[i] \in Message
  BY SMTT(30) DEF Types
<1> QED
  BY <1>2, <1>3, <1>4 DEF TalkSteps

\* A code that is answered consumed was open, and no opened code is.
LEMMA OpenedStep ==
    ASSUME Typed, Records, TalkSteps, NoRepeats(opened)
    PROVE  NoRepeats(opened')
<1> Types
  BY DEF Typed
<1>1. ASSUME NEW c \in Codes, Answers(c) PROVE NoRepeats(opened')
  <2>1. \A i \in DOMAIN opened : opened[i] # c
    BY <1>1 DEF Records, Answers, IsOpened
  <2>2. opened' = Append(opened, c) /\ opened \in Seq(Codes)
    BY <1>1 DEF Answers, Types
  <2>3. \A i \in DOMAIN opened' :
          (i \in DOMAIN opened /\ opened'[i] = opened[i]) \/ (i = Len(opened) + 1 /\ opened'[i] = c)
    BY SMTT(30), <2>2
  <2> QED
    BY SMTT(30), <2>1, <2>3 DEF NoRepeats
<1> QED
  BY <1>1 DEF TalkSteps

-----------------------------------------------------------------------------
\* The checkpoints and the registry

\* The session s may differ from its checkpoint z.
Excused(d, s, z) ==
    \/ s = z \/ s = NoSession \/ s.poisoned
    \/ s = [z EXCEPT !.seen = s.seen] /\ s.seen \subseteq z.seen \cup Misread(d, s)
    \/ /\ s.gen = 0 /\ s.seen \subseteq Misread(d, s)
       /\ \E w \in removals : w.next = s.epoch /\ w.from # d

\* UnsavedOnlyAfterError, of the daemons that are down too.
Settled == \A d \in Daemons, c \in Codes : Excused(d, sessions[d][c], stored[d][c])

LEMMA SettledStep ==
    ASSUME Typed, InSync, Settled, Evolve, CommitSteps, LogSteps
    PROVE  Settled'
<1>MergeFields.
      ASSUME NEW s \in Session, NEW w \in Removal
      PROVE  MergeCommit(s, w).gen = 0 /\ MergeCommit(s, w).seen = {} /\ MergeCommit(s, w).epoch = w.next
  <2> USE <1>MergeFields
  <2>1. PICK m : m = w.members
    OBVIOUS
  <2>2. PICK e : e = w.next
    OBVIOUS
  <2>3. PICK x : x = Commit(s, m, e)
    OBVIOUS
  <2>4. x.gen = 0 /\ x.seen = {} /\ x.epoch = e
    BY SMTT(30), <2>3 DEF Session, Commit
  <2>5. x = MergeCommit(s, w)
    BY <2>1, <2>2, <2>3 DEF MergeCommit
  <2> QED
    BY <2>2, <2>4, <2>5
<1> Types
  BY DEF Typed
<1>1. ASSUME NEW d \in Daemons, NEW s PROVE Misread(d, s) \subseteq Misread(d, s)'
  BY DEF LogSteps, Misread
<1>2. ASSUME NEW d \in Daemons, NEW s, NEW z, Excused(d, s, z) PROVE Excused(d, s, z)'
  <2>1. Misread(d, s) \subseteq Misread(d, s)' /\ removals \subseteq removals'
    BY <1>1 DEF CommitSteps
  <2>2. CASE s = z \/ s = NoSession \/ s.poisoned
    BY <2>2 DEF Excused
  <2>3. CASE s = [z EXCEPT !.seen = s.seen] /\ s.seen \subseteq z.seen \cup Misread(d, s)
    BY <2>1, <2>3 DEF Excused
  <2>4. CASE /\ s.gen = 0 /\ s.seen \subseteq Misread(d, s)
             /\ \E w \in removals : w.next = s.epoch /\ w.from # d
    BY <2>1, <2>4 DEF Excused
  <2> QED
    BY <1>2, <2>2, <2>3, <2>4 DEF Excused
\* A key that was used up is on record.
<1>3. ASSUME NEW d \in Daemons, NEW s \in Session, NEW z \in Session, NEW w \in misread'[d],
             CanDecrypt(d, s, w), Excused(d, s, z), NEW n, n = Decrypt(s, w)
      PROVE  Excused(d, n, z)'
  <2>1. PICK x : x = <<w.from, w.gen>>
    OBVIOUS
  <2>2. PICK y : y = s.seen \cup {x}
    OBVIOUS
  <2>3. n = [s EXCEPT !.seen = y]
    BY <1>3, <2>1, <2>2 DEF Decrypt
  <2>4. n.seen = y /\ n.group = s.group /\ n.epoch = s.epoch /\ n.gen = s.gen
    BY SMTT(30), <2>3 DEF Session
  <2>5. w.group = s.group /\ w.epoch = s.epoch /\ ~s.poisoned /\ s # NoSession
    BY <1>3 DEF CanDecrypt, SameEpoch, Usable
  <2>6. Misread(d, s) \subseteq Misread(d, n)' /\ x \in Misread(d, n)'
    <3>1. Misread(d, s)' = Misread(d, n)'
      BY <2>4 DEF Misread
    <3>2. x \in Misread(d, s)'
      BY <1>3, <2>1, <2>5 DEF Misread
    <3> QED
      BY <1>1, <3>1, <3>2
  <2>7. CASE s = z
    <3>1. n = [z EXCEPT !.seen = n.seen]
      BY <2>3, <2>4, <2>7
    <3>2. n.seen \subseteq z.seen \cup Misread(d, n)'
      BY <2>2, <2>4, <2>6, <2>7
    <3> QED
      BY <3>1, <3>2 DEF Excused
  <2>8. CASE s = [z EXCEPT !.seen = s.seen] /\ s.seen \subseteq z.seen \cup Misread(d, s)
    <3>1. PICK q : q = s.seen
      OBVIOUS
    <3>2. s = [z EXCEPT !.seen = q]
      BY <2>8, <3>1
    <3>3. n = [z EXCEPT !.seen = y]
      <4> DEFINE with(v) == [group |-> z.group, epoch |-> z.epoch, members |-> z.members, gen |-> z.gen,
                             seen |-> v, packages |-> z.packages, poisoned |-> z.poisoned]
      <4>1. ASSUME NEW v PROVE [z EXCEPT !.seen = v] = with(v)
        BY SMTT(30) DEF Session
      <4>2. [with(q) EXCEPT !.seen = y] = with(y)
        BY SMTT(30)
      <4> HIDE DEF with
      <4> QED
        BY <2>3, <3>2, <4>1, <4>2
    <3>4. n.seen \subseteq z.seen \cup Misread(d, n)'
      BY <2>2, <2>4, <2>6, <2>8
    <3> QED
      BY <2>4, <3>3, <3>4 DEF Excused
  <2>9. CASE /\ s.gen = 0 /\ s.seen \subseteq Misread(d, s)
             /\ \E v \in removals : v.next = s.epoch /\ v.from # d
    <3>1. n.seen \subseteq Misread(d, n)' /\ n.gen = 0
      BY <2>2, <2>4, <2>6, <2>9
    <3>2. \E v \in removals' : v.next = n.epoch /\ v.from # d
      BY <2>4, <2>9 DEF CommitSteps
    <3> QED
      BY <3>1, <3>2 DEF Excused
  <2> QED
    BY <1>3, <2>5, <2>7, <2>8, <2>9 DEF Excused
<1>4. ASSUME NEW d \in Daemons, NEW c \in Codes, NEW n, n = sessions'[d][c], NEW m, m = stored'[d][c]
      PROVE  Excused(d, n, m)'
  <2>1. Settles(d, c) /\ removals \subseteq removals'
    BY DEF Evolve, Evolves, CommitSteps
  <2>2. PICK s, z : s = sessions[d][c] /\ z = stored[d][c]
    OBVIOUS
  <2>3. Excused(d, s, z)
    BY <2>2 DEF Settled
  <2>4. CASE Rests(d, c)
    <3>1. n = s /\ m = z
      BY <1>4, <2>2, <2>4 DEF Rests
    <3> QED
      BY <1>2, <2>3, <3>1
  <2>5. CASE n = m \/ n = NoSession \/ n.poisoned
    BY <2>5 DEF Excused
  <2>6. ASSUME NEW w \in removals, w.from # d, s \in Session, n = MergeCommit(s, w)
        PROVE  Excused(d, n, m)'
    <3>1. w \in Removal
      BY <2>6 DEF Types
    <3>2. n.gen = 0 /\ n.seen = {} /\ n.epoch = w.next
      BY <2>6, <3>1, <1>MergeFields
    <3>3. n.seen \subseteq Misread(d, n)'
      BY <3>2
    <3>4. w \in removals'
      BY <2>1
    <3> QED
      BY <2>6, <3>2, <3>3, <3>4 DEF Excused
  <2>7. CASE Misreads(d, c)
    <3>1. s \in Session /\ m = z
      BY <1>4, <2>2, <2>7 DEF Misreads
    <3>2. z \in Session
      BY <2>2, <3>1, CatalogTypes, RendezvousAssumption DEF Types
    <3>3. PICK w \in misread'[d] : CanDecrypt(d, s, w) /\ n = Decrypt(s, w)
      BY <1>4, <2>2, <2>7 DEF Misreads
    <3> QED
      BY <1>3, <2>3, <3>1, <3>2, <3>3
  <2> QED
    BY <1>4, <2>1, <2>2, <2>4, <2>5, <2>6, <2>7 DEF Settles
<1>5. ASSUME NEW d \in Daemons, NEW c \in Codes PROVE Excused(d, sessions[d][c], stored[d][c])'
  <2>1. PICK n, m : n = sessions'[d][c] /\ m = stored'[d][c]
    OBVIOUS
  <2>2. Excused(d, n, m)'
    BY <1>4, <2>1
  <2> QED
    BY <2>1, <2>2 DEF Excused, Misread
<1> QED
  BY <1>5 DEF Settled

\* The registry in memory is the one in the store.
Registered == registry \in [Daemons -> SUBSET Others] /\ storedRegistry = registry

\* Only devices/revoke, session/remove-device and a restart touch the registry.
LEMMA RegistryMoves ==
    ASSUME [Next]_vars
    PROVE  \/ UNCHANGED devices
           \/ \E d \in Daemons, o \in Others : RevokeDevice(d, o) \/ RemoveDevice(d, o)
           \/ \E d \in Daemons : Restart(d)
<1>1. ASSUME NEW d \in Daemons, NEW c \in Codes,
             \/ CreateBegin(d, c) \/ ConsumeBegin(d, c) \/ SyncBegin(d, c) \/ CompleteBegin(d, c)
             \/ SendMessage(d, c) \/ SendAttachment(d, c)
             \/ \E i \in 1..Len(sent) : ReadMessage(d, c, sent[i]) \/ ReadAttachment(d, c, sent[i])
             \/ \E w \in removals : ReadRemoval(d, c, w)
             \/ \E o \in Others : AddDevice(d, c, o)
             \/ \E m \in Daemons \cup Others : DropMember(d, c, m)
      PROVE  UNCHANGED devices
  BY <1>1 DEF CreateBegin, ConsumeBegin, SyncBegin, CompleteBegin, SendMessage, SendAttachment,
     ReadMessage, ReadAttachment, MisreadMessage, ReadRemoval, AddDevice, DropMember
<1>2. ASSUME NEW d \in Daemons,
             \/ Confirm(d) \/ RejectPeer(d) \/ ApproveBegin(d) \/ Crash(d)
             \/ \E t \in tasks[d] : \/ CreateEnd(d, t) \/ ConsumeEnd(d, t) \/ SyncEnd(d, t)
                                    \/ ApproveEnd(d, t) \/ CompleteEnd(d, t)
             \/ \E a \in Daemons : DeleteContact(d, a)
      PROVE  UNCHANGED devices
  BY <1>2 DEF Confirm, RejectPeer, ApproveBegin, Crash, CreateEnd, ConsumeEnd, SyncEnd,
     ApproveEnd, CompleteEnd, DeleteContact
<1>3. CASE UNCHANGED vars \/ RelayRestart \/ \E p \in Peers : Expire(p)
  BY <1>3 DEF vars, RelayRestart, Expire
<1> QED
  BY <1>1, <1>2, <1>3 DEF Next

LEMMA RegisteredStep ==
    ASSUME Registered, [Next]_vars
    PROVE  Registered'
<1>1. CASE UNCHANGED devices
  BY <1>1 DEF Registered, devices
<1>2. ASSUME NEW d \in Daemons, NEW o \in Others, NEW revoked, revoked \subseteq Others,
             RemoveFromAll(d, o, revoked)
      PROVE  Registered'
  <2>1. CASE /\ registry' = [registry EXCEPT ![d] = revoked]
             /\ storedRegistry' = [storedRegistry EXCEPT ![d] = revoked]
    <3>1. registry' \in [Daemons -> SUBSET Others]
      BY SMTT(30), <1>2, <2>1 DEF Registered
    <3> QED
      BY <2>1, <3>1 DEF Registered
  <2> QED
    BY <1>1, <1>2, <2>1 DEF RemoveFromAll
<1>3. ASSUME NEW d \in Daemons, NEW o \in Others, RevokeDevice(d, o) \/ RemoveDevice(d, o)
      PROVE  Registered'
  <2>1. registry[d] \subseteq Others /\ registry[d] \cup {o} \subseteq Others
    BY SMTT(30) DEF Registered
  <2> QED
    BY <1>2, <1>3, <2>1 DEF RevokeDevice, RemoveDevice
<1>4. ASSUME NEW d \in Daemons, Restart(d) PROVE Registered'
  <2>1. registry' = [registry EXCEPT ![d] = registry[d]] /\ UNCHANGED storedRegistry
    BY <1>4 DEF Restart, Registered
  <2>2. registry' = registry
    BY SMTT(30), <2>1 DEF Registered
  <2> QED
    BY <2>1, <2>2 DEF Registered
<1> QED
  BY <1>1, <1>3, <1>4, RegistryMoves

-----------------------------------------------------------------------------
\* The inductive invariant

IInv ==
    /\ Typed /\ InSync /\ Numbered /\ Aimed
    /\ Records /\ Creations /\ Guests /\ Rooted
    /\ Owned /\ Membership /\ Led /\ Kept
    /\ SentBefore /\ ReadBefore /\ Settled /\ Registered
    /\ CodeOpensOnce /\ RatchetNeverReused /\ MessageReadOnce

LEMMA InitInv == Init => IInv
<1> SUFFICES ASSUME Init PROVE IInv
  OBVIOUS
<1>1. /\ \A d \in Daemons, c \in Codes : sessions[d][c] = NoSession /\ stored[d][c] = NoSession
      /\ sessions \in Catalogs /\ stored \in Catalogs
  BY SMTT(30) DEF Init, Catalogs
<1>2. PICK v : v = [status |-> "none", owner |-> None, responses |-> <<>>]
  OBVIOUS
<1>3. v \in Invite /\ v.status = "none" /\ v.responses = <<>>
  BY SMTT(30), <1>2 DEF Invite
<1>4. relay = [c \in Codes |-> v] /\ relayFile = [c \in Codes |-> v]
  BY <1>2 DEF Init
<1>5. /\ relay \in [Codes -> Invite] /\ relayFile \in [Codes -> Invite]
      /\ \A c \in Codes : relay[c] = v /\ relayFile[c] = v
  BY SMTT(30), <1>3, <1>4
<1>6. \A c \in Codes : Under(relay, c) = {} /\ Under(relayFile, c) = {}
  <2>1. DOMAIN v.responses = {}
    BY SMTT(30), <1>3
  <2> QED
    BY <1>5, <2>1 DEF Under
<1>7. /\ \A d \in Daemons : tasks[d] = {} /\ packages[d] = <<>> /\ read[d] = <<>>
      /\ codes \in [Daemons -> Seq(Codes)] /\ conversation \in [Daemons -> Codes \cup {None}]
      /\ packages \in [Daemons -> Seq(KeyPackages)] /\ tasks \in [Daemons -> SUBSET Task]
      /\ read \in [Daemons -> Seq(Message)] /\ registry \in [Daemons -> SUBSET Others]
      /\ misread \in [Daemons -> SUBSET Message]
  BY SMTT(30) DEF Init
<1>8. /\ opened = <<>> /\ sent = <<>> /\ removals = {} /\ commits \in Nat /\ up = Daemons
      /\ storedRegistry = registry /\ deleted = {}
  BY SMTT(30) DEF Init
<1>9. <<>> \in Seq(Codes) /\ <<>> \in Seq(Message) /\ DOMAIN <<>> = {}
  BY SMTT(30)
<1>10. Typed
  BY <1>1, <1>5, <1>7, <1>8, <1>9 DEF Typed, Types
<1>11. InSync /\ Numbered /\ Aimed
  BY <1>1, <1>7, <1>8 DEF InSync, Numbered, Aimed
<1>12. Records /\ Creations
  BY <1>3, <1>5, <1>7, <1>8, <1>9 DEF Records, Creations, IsOpened
<1>13. Guests /\ Rooted
  BY <1>1, <1>7, <1>8 DEF Guests, Guest, Consumes, Rooted, Had
<1>14. Owned /\ Led /\ Kept
  BY <1>6, <1>7, <1>9 DEF Owned, Led, Kept
<1>15. Membership /\ Settled
  BY <1>1 DEF Membership, Belongs, Settled, Excused
<1>16. SentBefore /\ ReadBefore /\ Registered
  BY <1>7, <1>8, <1>9 DEF SentBefore, ReadBefore, Registered
<1>17. CodeOpensOnce /\ RatchetNeverReused /\ MessageReadOnce
  BY <1>7, <1>8, <1>9 DEF CodeOpensOnce, RatchetNeverReused, MessageReadOnce, NoRepeats
<1> QED
  BY <1>10, <1>11, <1>12, <1>13, <1>14, <1>15, <1>16, <1>17 DEF IInv

\* What a step does to each part of the state.
LEMMA AllSteps ==
    ASSUME IInv, [Next]_vars
    PROVE  Evolve /\ RelaySteps /\ TaskSteps /\ PendingSteps /\ TalkSteps /\ CommitSteps /\ LogSteps
<1>1. /\ Typed /\ InSync /\ Numbered /\ Aimed /\ Records /\ Creations /\ Guests /\ Rooted
  BY DEF IInv
<1>2. Unfounded
  BY <1>1, NothingFounded
<1> QED
  BY <1>1, <1>2, SessionSteps, RelayMoves, TaskMoves, PendingMoves, TalkMoves, CommitMoves, LogMoves

LEMMA StepInv == IInv /\ [Next]_vars => IInv'
<1> SUFFICES ASSUME IInv, [Next]_vars PROVE IInv'
  OBVIOUS
<1>1. Evolve /\ RelaySteps /\ TaskSteps /\ PendingSteps /\ TalkSteps /\ CommitSteps /\ LogSteps
  BY AllSteps
<1>2. /\ Typed /\ InSync /\ Numbered /\ Aimed /\ Records /\ Creations /\ Guests /\ Rooted
      /\ Owned /\ Membership /\ Led /\ Kept /\ SentBefore /\ ReadBefore /\ Settled /\ Registered
      /\ CodeOpensOnce /\ RatchetNeverReused /\ MessageReadOnce
  BY DEF IInv
<1>3. SentBefore' /\ sent' \in Seq(Message) /\ RatchetNeverReused'
  BY <1>1, <1>2, SentStep DEF RatchetNeverReused
<1>4. ReadBefore' /\ read' \in [Daemons -> Seq(Message)] /\ MessageReadOnce'
  BY <1>1, <1>2, ReadStep DEF MessageReadOnce
<1>5. CodeOpensOnce'
  BY <1>1, <1>2, OpenedStep DEF CodeOpensOnce
<1>6. opened' \in Seq(Codes)
  BY <1>1, <1>2, OpenedGrows
<1>7. Typed'
  BY <1>1, <1>3, <1>4, <1>6 DEF Typed, Types, Evolve, RelaySteps, TaskSteps, PendingSteps, CommitSteps,
     LogSteps
<1>8. InSync' /\ Numbered' /\ Aimed'
  BY <1>1, <1>2, InSyncStep, NumberedStep, AimedStep
<1>9. Records' /\ Creations'
  BY <1>1, <1>2, RecordsStep, CreationsStep
<1>10. Guests' /\ Rooted'
  BY <1>1, <1>2, GuestsStep, RootedStep
<1>11. Owned' /\ Membership'
  BY <1>1, <1>2, PackagesStep, MembershipStep
<1>12. Led' /\ Kept'
  BY <1>1, <1>2, LedStep, KeptStep
<1>13. Settled' /\ Registered'
  BY <1>1, <1>2, SettledStep, RegisteredStep
<1> QED
  BY ZenonT(60), <1>3, <1>4, <1>5, <1>7, <1>8, <1>9, <1>10, <1>11, <1>12, <1>13 DEF IInv

LEMMA SpecInv == Spec => []IInv
  BY InitInv, StepInv, PTL DEF Spec

-----------------------------------------------------------------------------
\* The properties

\* A code is answered consumed at most once (consume_invite of the relay): a code
\* is answered only when its use is in the file, and what is in the file is not
\* open again after any restart of the relay.
THEOREM CodesOpenOnce == Spec => []CodeOpensOnce
<1>1. IInv => CodeOpensOnce
  BY DEF IInv
<1> QED
  BY <1>1, SpecInv, PTL

\* No two ciphertexts that left a daemon have the same group, epoch, sender and
\* generation (send_unpersisted, saved before the answer): every one that left is
\* behind the checkpoint, and no restart goes back behind that.
THEOREM RatchetsFresh == Spec => []RatchetNeverReused
<1>1. IInv => RatchetNeverReused
  BY DEF IInv
<1> QED
  BY <1>1, SpecInv, PTL

\* A message is answered in plaintext at most once by a daemon, however often it
\* is presented (receive_delivery_unpersisted, saved before the answer).
THEOREM MessagesReadOnce == Spec => []MessageReadOnce
<1>1. IInv => MessageReadOnce
  BY DEF IInv
<1> QED
  BY <1>1, SpecInv, PTL

\* What a session in memory has and its checkpoint does not was answered with an
\* error: it is poisoned or deleted, it opened messages that were no attachments,
\* or it merged the removal of another member and used no key since
\* (persist_or_poison, remove, decrypt_attachment, and session/receive of a
\* removal).
THEOREM UnsavedAfterError == Spec => []UnsavedOnlyAfterError
<1>1. ASSUME IInv PROVE UnsavedOnlyAfterError
  <2>1. Settled /\ up \subseteq Daemons
    BY <1>1 DEF IInv, Typed, Types
  <2> QED
    BY <2>1 DEF Settled, Excused, UnsavedOnlyAfterError
<1> QED
  BY <1>1, SpecInv, PTL

\* What lies under a code was saved first by whoever left it there: the session
\* of a key package is in the store and holds it until it has joined, and the
\* checkpoint of a welcome's founder is not behind the welcome (prepare and
\* add_member save before they answer).  Only contacts/delete takes either away.
THEOREM HandedOutStays == Spec => []HandedOutOutlivesRestart
<1>1. ASSUME IInv, NEW c \in Codes, NEW i \in DOMAIN relay[c].responses, NEW r,
             r = relay[c].responses[i]
      PROVE  /\ r.kind = "key-package" =>
                  \/ <<r.package.owner, r.package.conversation>> \in deleted
                  \/ /\ stored[r.package.owner][r.package.conversation] # NoSession
                     /\ \/ r.package \in stored[r.package.owner][r.package.conversation].packages
                        \/ stored[r.package.owner][r.package.conversation].group
                             # <<r.package.owner, r.package.conversation>>
             /\ r.kind = "welcome" /\ r.package.conversation = r.conversation =>
                  \/ r.group \in deleted
                  \/ /\ stored[r.group[1]][r.group[2]] # NoSession
                     /\ stored[r.group[1]][r.group[2]].epoch >= r.epoch
  <2>1. r \in Under(relay, c)
    BY <1>1 DEF Under
  <2>2. CASE r.kind = "key-package"
    <3>1. Prepared(r.package) /\ Holds(r.package, stored[r.package.owner][r.package.conversation])
      BY <1>1, <2>1, <2>2 DEF IInv, Owned, Kept
    <3> QED
      BY <2>2, <3>1 DEF Prepared, Holds, Had
  <2>3. CASE r.kind = "welcome" /\ r.package.conversation = r.conversation
    <3>1. Leads(r)
      BY <1>1, <2>1, <2>3 DEF IInv, Led, Joinable
    <3>2. PICK o : o = relay[r.conversation].owner
      OBVIOUS
    <3>3. PICK k : k = r.conversation
      OBVIOUS
    <3>4. /\ r.group = <<o, k>> /\ (stored[o][k] # NoSession \/ <<o, k>> \in deleted)
          /\ stored[o][k] # NoSession => r.epoch <= stored[o][k].epoch
      BY <3>1, <3>2, <3>3 DEF Leads, Had
    <3>5. r.group[1] = o /\ r.group[2] = k
      BY SMTT(30), <3>4
    <3>6. stored[o][k] # NoSession => stored[o][k].epoch >= r.epoch
      BY SMTT(30), <3>4
    <3> QED
      BY <2>3, <3>4, <3>5, <3>6
  <2> QED
    BY <2>2, <2>3
<1>2. IInv => HandedOutOutlivesRestart
  BY <1>1 DEF HandedOutOutlivesRestart
<1> QED
  BY <1>2, SpecInv, PTL

\* When a device enters the saved registry it is out of every conversation, in
\* memory and in the store, but for a checkpoint that a merged removal is ahead
\* of and one whose session left memory with a contact (devices/revoke: one batch
\* for the registry and the checkpoints).
THEOREM RevokedLeaves == Spec => RevokedLeavesEveryConversation
<1>1. ASSUME IInv, NEW d \in Daemons, NEW o, RemoveFromAll(d, o, registry[d] \cup {o}),
             storedRegistry' # storedRegistry, NEW c \in Codes, sessions'[d][c] # NoSession
      PROVE  /\ o \notin sessions'[d][c].members
             /\ o \in stored'[d][c].members =>
                  \E w \in removals : w.next = sessions[d][c].epoch /\ w.from # d
  <2>1. PICK cs : cs = {k \in {x \in Codes : sessions[d][x] # NoSession} : o \in sessions[d][k].members}
    OBVIOUS
  <2>2. PICK e : e = commits'
    OBVIOUS
  <2>3. /\ \A k \in {x \in Codes : sessions[d][x] # NoSession} : ~sessions[d][k].poisoned
        /\ sessions' = [sessions EXCEPT ![d] = [k \in Codes |->
                          IF k \in cs THEN RemoveMember(@[k], o, e) ELSE @[k]]]
        /\ stored' = RevocationBatch(d, o, cs, e)
    BY <1>1, <2>1, <2>2 DEF RemoveFromAll, devices
  <2>4. PICK f : f = [k \in Codes |-> IF k \in cs THEN RemoveMember(sessions[d][k], o, e) ELSE sessions[d][k]]
    OBVIOUS
  <2>5. PICK g : g = [k \in Codes |-> IF k \in cs THEN RemoveMember(sessions[d][k], o, e) ELSE stored[d][k]]
    OBVIOUS
  <2>6. sessions' = [sessions EXCEPT ![d] = f] /\ stored' = [stored EXCEPT ![d] = g]
    BY <2>3, <2>4, <2>5 DEF RevocationBatch
  <2>7. sessions \in Catalogs /\ stored \in Catalogs
    BY <1>1 DEF IInv, Typed, Types
  <2>8. sessions'[d] = f /\ stored'[d] = g
    BY SMTT(30), <2>6, <2>7 DEF Catalogs
  <2>9. CASE c \in cs
    <3>1. PICK s : s = sessions[d][c]
      OBVIOUS
    <3>2. s \in Session
      BY <1>1, <2>1, <2>9, <3>1, CatalogTypes DEF IInv, Typed, Types
    <3>3. PICK n : n = RemoveMember(s, o, e)
      OBVIOUS
    <3>4. n.members = s.members \ {o}
      <4>1. PICK m : m = s.members \ {o}
        OBVIOUS
      <4>2. n = Commit(s, m, e)
        BY <3>3, <4>1 DEF RemoveMember
      <4>3. n.members = m
        BY SMTT(30), <3>2, <4>2 DEF Commit, Session
      <4> QED
        BY <4>1, <4>3
    <3>5. sessions'[d][c] = n /\ stored'[d][c] = n
      BY <2>4, <2>5, <2>8, <2>9, <3>1, <3>3
    <3> QED
      BY <3>4, <3>5
  <2>10. CASE c \notin cs
    <3>1. sessions'[d][c] = sessions[d][c] /\ stored'[d][c] = stored[d][c]
      BY ZenonT(60), <2>4, <2>5, <2>8, <2>10
    <3>2. o \notin sessions[d][c].members /\ ~sessions[d][c].poisoned
      BY <1>1, <2>1, <2>3, <2>10, <3>1
    <3>3. \/ sessions[d][c].members = stored[d][c].members
          \/ \E w \in removals : w.next = sessions[d][c].epoch /\ w.from # d
      <4>1. PICK s, z : s = sessions[d][c] /\ z = stored[d][c]
        OBVIOUS
      <4>2. z \in Session
        BY <1>1, <3>1, <4>1, CatalogTypes DEF IInv, Typed, Types
      <4>3. PICK q : q = s.seen
        OBVIOUS
      <4>4. s = [z EXCEPT !.seen = q] => s.members = z.members
        BY SMTT(30), <4>2 DEF Session
      <4>5. Excused(d, s, z) /\ s # NoSession /\ ~s.poisoned
        BY <1>1, <3>1, <3>2, <4>1 DEF IInv, Settled
      <4> QED
        BY <4>1, <4>3, <4>4, <4>5 DEF Excused
    <3> QED
      BY <3>1, <3>2, <3>3
  <2> QED
    BY <2>9, <2>10
<1>2. IInv /\ [Next]_vars =>
        [\A d \in Daemons : \A o \in storedRegistry'[d] \ storedRegistry[d], c \in Codes :
           \/ sessions'[d][c] = NoSession
           \/ /\ o \notin sessions'[d][c].members
              /\ o \in stored'[d][c].members =>
                   \E w \in removals : w.next = sessions[d][c].epoch /\ w.from # d]_vars
  <2>1. ASSUME IInv, [Next]_vars, NEW d \in Daemons, NEW o \in storedRegistry'[d] \ storedRegistry[d]
        PROVE  RemoveFromAll(d, o, registry[d] \cup {o}) /\ storedRegistry' # storedRegistry
    <3>1. Registered
      BY <2>1 DEF IInv
    <3>2. storedRegistry' # storedRegistry
      BY <2>1
    <3>3. PICK e \in Daemons, u \in Others : RevokeDevice(e, u) \/ RemoveDevice(e, u)
      BY <2>1, <3>2, RegistryMoves DEF devices, Restart
    <3>4. PICK revoked \in {registry[e], registry[e] \cup {u}} :
            /\ RemoveFromAll(e, u, revoked)
            /\ revoked = registry[e] \cup {u} \/ revoked = registry[e]
      BY <3>3 DEF RevokeDevice, RemoveDevice
    <3>5. storedRegistry' = [registry EXCEPT ![e] = revoked]
      BY <3>1, <3>2, <3>4 DEF RemoveFromAll, devices, Registered
    <3>6. storedRegistry'[e] = revoked /\ \A x \in Daemons : x # e => storedRegistry'[x] = registry[x]
      BY SMTT(30), <3>1, <3>5 DEF Registered
    <3>7. d = e /\ o \in revoked /\ o \notin registry[e]
      BY <2>1, <3>1, <3>6 DEF Registered
    <3>8. o = u /\ revoked = registry[e] \cup {u}
      BY <3>4, <3>7
    <3> QED
      BY <3>2, <3>4, <3>7, <3>8
  <2> QED
    BY <1>1, <2>1
<1> QED
  BY <1>2, SpecInv, PTL DEF Spec, RevokedLeavesEveryConversation

=============================================================================

---------------------------- MODULE RecordsProofs ----------------------------
(***************************************************************************)
(* What is proved of the records that several parties share: a live        *)
(* drive's exchange, the usage snapshot, and the histories two hosts       *)
(* synchronise.                                                            *)
(***************************************************************************)
EXTENDS LiveExchange, UsageSnapshot, HistorySync, FiniteSetTheorems, NaturalsInduction, WellFoundedInduction, SequenceTheorems, TLAPS

Configs == UNION {[S -> Nat] : S \in SUBSET Paths}
Inboxes == [seq : Nat, cfg : Configs]
Outboxes == [seq : Nat, cfg : [Paths -> Nat], last : Nat]
Flows == [issued : Nat, acked : Nat, outboxes : Nat, pending : SUBSET Inboxes, common : [Paths -> Nat]]
Applies == [at : {"idle", "count"}]
           \cup [at : {"write"}, asked : SUBSET Paths, left : SUBSET Paths, next : [Paths -> Nat]]

\* The drive and the computers: what they hold.
ExchangeTypeOK ==
    /\ source \in [Computers -> [Paths -> Nat]]
    /\ flow \in [Computers -> SUBSET Flows]
    /\ reserved \in SUBSET Inboxes /\ inbox \in Inboxes
    /\ outbox \in SUBSET Outboxes /\ collected \in SUBSET Outboxes
    /\ drive \in [Paths -> Nat]
    /\ exchange \in [hashes : [Paths -> Nat], last : Nat, applied : Nat, outboxes : Nat]
    /\ booted \in BOOLEAN /\ apply \in Applies
    /\ had \in [Paths -> SUBSET Nat] /\ typed \in SUBSET Nat
    /\ contents \in Nat /\ losses \in Nat

\* The partition is one side's at a time.
OneSide == (booted => reserved = {}) /\ (apply.at # "idle" => booted)

\* A content of a computer: one that exists and was not made on the drive.
Theirs(n) == n <= contents /\ n \notin typed

\* What was made on the drive is nowhere but on the drive.
ContentsApart ==
    /\ \A n \in typed : 0 < n /\ n <= contents
    /\ \A c \in Computers, p \in Paths : Theirs(source[c][p])
    /\ \A b \in reserved : \A p \in DOMAIN b.cfg : Theirs(b.cfg[p])
    /\ \A p \in DOMAIN inbox.cfg : Theirs(inbox.cfg[p])
    /\ \A p \in Paths : Theirs(exchange.hashes[p])
    /\ apply.at = "write" => \A p \in Paths : Theirs(apply.next[p])

\* What is still to be written is asked for or not the drive's own.
WritesAskedFor ==
    apply.at = "write" => \A p \in apply.left :
        /\ p \in DOMAIN inbox.cfg
        /\ drive[p] \in typed => exchange.hashes[p] = 0 \/ p \in apply.asked

\* The numbers the drive has, and those under way.
NumbersRise ==
    /\ exchange.last <= inbox.seq
    /\ \A b \in reserved : b.seq > inbox.seq

\* The drive had what it has and what its bundles say of it.
DriveHadIt ==
    /\ \A p \in Paths : drive[p] # 0 => drive[p] \in had[p]
    /\ \A b \in outbox \cup collected, p \in Paths : b.cfg[p] # 0 => b.cfg[p] \in had[p]

LEMMA LargerIsNat == ASSUME NEW a \in Nat, NEW b \in Nat PROVE Larger(a, b) \in Nat /\ Larger(a, b) >= a /\ Larger(a, b) >= b
  BY DEF Larger

LEMMA NewFlowType == NewFlow \in Flows
  BY DEF NewFlow, Flows, Nothing

\* A restricted configuration is one.
LEMMA RestrictType == ASSUME NEW f \in [Paths -> Nat], NEW S \in SUBSET Paths PROVE Restrict(f, S) \in [S -> Nat] /\ Restrict(f, S) \in Configs
  BY DEF Restrict, Configs

\* Reconciling keeps a flow state one, takes for common only what an outbox has,
\* and takes over at least the inbox's number.
LEMMA ReconciledFlow ==
    ASSUME ExchangeTypeOK, NEW f \in Flows
    PROVE  /\ Reconciled(f) \in Flows
           /\ \A p \in Paths : Reconciled(f).common[p] = f.common[p] \/ \E b \in outbox : Reconciled(f).common[p] = b.cfg[p]
<1>1. inbox.seq \in Nat /\ f.issued \in Nat /\ Larger(f.issued, inbox.seq) \in Nat
  BY LargerIsNat DEF ExchangeTypeOK, Inboxes, Flows
<1>2. CASE News(f) = {}
  <2>1. Reconciled(f) = [f EXCEPT !.issued = Larger(f.issued, inbox.seq)]
    BY <1>2 DEF Reconciled
  <2>q. QED BY <1>1, <2>1 DEF Flows
<1>3. CASE News(f) # {}
  <2> DEFINE b == CHOOSE b \in News(f) : TRUE
  <2>1. b \in outbox /\ b \in Outboxes
    BY <1>3 DEF News, ExchangeTypeOK
  <2> HIDE DEF b
  <2>2. Reconciled(f) = [issued |-> Larger(Larger(f.issued, inbox.seq), b.last), acked |-> b.last, outboxes |-> b.seq,
                         pending |-> {pr \in f.pending : b.last < pr.seq}, common |-> Common(f, b)]
    BY <1>3 DEF Reconciled, b
  <2>3. \A p \in Paths : Common(f, b)[p] = b.cfg[p] \/ Common(f, b)[p] = f.common[p]
    BY DEF Common
  <2>4. Common(f, b) \in [Paths -> Nat]
    BY <2>1 DEF Common, Outboxes, Flows
  <2>5. Larger(Larger(f.issued, inbox.seq), b.last) \in Nat
    BY <1>1, <2>1, LargerIsNat DEF Outboxes
  <2>6. {pr \in f.pending : b.last < pr.seq} \in SUBSET Inboxes
    BY DEF Flows
  <2>7. Reconciled(f) \in Flows
    BY <2>1, <2>2, <2>4, <2>5, <2>6 DEF Flows, Outboxes
  <2>8. Reconciled(f).common = Common(f, b)
    BY <2>2
  <2>q. QED BY <2>1, <2>3, <2>7, <2>8
<1>q. QED BY <1>2, <1>3

\* The number of a refresh is above every one that is known.
LEMMA NextIsNew == ASSUME ExchangeTypeOK, NEW f \in Flows PROVE NextSequence(f) \in Nat /\ NextSequence(f) > inbox.seq
<1>1. inbox.seq \in Nat /\ f.issued \in Nat /\ f.acked \in Nat
  BY DEF ExchangeTypeOK, Inboxes, Flows
<1>2. Larger(f.issued, f.acked) \in Nat
  BY <1>1, LargerIsNat
<1>3. Larger(Larger(f.issued, f.acked), inbox.seq) \in Nat /\ Larger(Larger(f.issued, f.acked), inbox.seq) >= inbox.seq
  BY <1>1, <1>2, LargerIsNat
<1>q. QED BY <1>1, <1>3 DEF NextSequence

\* What a published refresh has is its computer's.
LEMMA RefreshType ==
    ASSUME ExchangeTypeOK, NEW c \in Computers, PublishRefresh(c)
    PROVE  \E f \in flow[c], S \in SUBSET Paths :
             LET r == [seq |-> NextSequence(f), cfg |-> Restrict(source[c], S)] IN
             /\ f \in Flows /\ r \in Inboxes /\ r.seq > inbox.seq
             /\ reserved' = {r} /\ flow' = [flow EXCEPT ![c] = {[f EXCEPT !.issued = NextSequence(f), !.pending = {r}]}]
<1>1. PICK f \in flow[c], recent \in BOOLEAN :
        LET r == [seq |-> NextSequence(f), cfg |-> Restrict(source[c], IF recent THEN Included(f, c) ELSE {})] IN
        /\ reserved' = {r} /\ flow' = [flow EXCEPT ![c] = {[f EXCEPT !.issued = NextSequence(f), !.pending = reserved']}]
  BY DEF PublishRefresh
<1>2. f \in Flows
  BY DEF ExchangeTypeOK
<1> DEFINE S == IF recent THEN Included(f, c) ELSE {}
           r == [seq |-> NextSequence(f), cfg |-> Restrict(source[c], S)]
<1>3. S \in SUBSET Paths
  BY DEF Included
<1>4. r \in Inboxes /\ r.seq > inbox.seq
  BY <1>2, <1>3, RestrictType, NextIsNew DEF ExchangeTypeOK, Inboxes
<1>q. QED BY <1>1, <1>2, <1>3, <1>4

LEMMA InitHolds == ASSUME ExchangeInit PROVE ExchangeTypeOK /\ OneSide /\ ContentsApart /\ WritesAskedFor /\ NumbersRise /\ DriveHadIt /\ CommonWasThere
<1>1. [NewFlow EXCEPT !.issued = 1] \in Flows /\ [NewFlow EXCEPT !.issued = 1].common = Nothing
  BY DEF NewFlow, Flows, Nothing
<1>2. [p \in Paths |-> 1] \in Configs
  BY DEF Configs
<1>3. ExchangeTypeOK
  BY <1>1, <1>2 DEF ExchangeInit, ExchangeTypeOK, Inboxes, Applies, Nothing
<1>4. CommonWasThere
  BY <1>1 DEF ExchangeInit, CommonWasThere, Nothing
<1>q. QED BY <1>3, <1>4 DEF ExchangeInit, OneSide, ContentsApart, Theirs, WritesAskedFor, NumbersRise, DriveHadIt, Nothing

\* Types stay.
LEMMA TypeStep == ASSUME ExchangeTypeOK, WritesAskedFor, ExchangeNext PROVE ExchangeTypeOK'
<1> USE DEF ExchangeTypeOK, ofDrive, ofComputers
<1>1. ASSUME NEW c \in Computers, NEW p \in Paths, Edit(c, p) PROVE ExchangeTypeOK'
  BY <1>1 DEF Edit
<1>2. ASSUME NEW p \in Paths, EditOnDrive(p) PROVE ExchangeTypeOK'
  BY <1>2 DEF EditOnDrive
<1>3. ASSUME Boot PROVE ExchangeTypeOK'
  BY <1>3 DEF Boot
<1>4. ASSUME Shutdown PROVE ExchangeTypeOK'
  BY <1>4 DEF Shutdown
<1>5. ASSUME PowerCut PROVE ExchangeTypeOK'
  <2>1. apply' \in Applies /\ losses' \in Nat
    BY <1>5 DEF PowerCut, Lose, Applies
  <2>q. QED BY <1>5, <2>1 DEF PowerCut
<1>6. ASSUME PublicationFails PROVE ExchangeTypeOK'
  BY <1>6 DEF PublicationFails, Lose
<1>7. ASSUME NEW c \in Computers, FlowIsLost(c) PROVE ExchangeTypeOK'
  BY <1>7 DEF FlowIsLost, Lose
<1>8. ASSUME ApplyInbox PROVE ExchangeTypeOK'
  <2>1. \A p \in DOMAIN inbox.cfg : p \in Paths /\ inbox.cfg[p] \in Nat
    BY DEF Inboxes, Configs
  <2>2. CASE inbox.seq <= exchange.last
    BY <1>8, <2>2 DEF ApplyInbox, Applies
  <2>3. CASE ~(inbox.seq <= exchange.last)
    <3>1. PICK kept \in SUBSET {p \in DOMAIN inbox.cfg : Diverged(p)} :
            apply' = [at |-> "write", asked |-> {p \in DOMAIN inbox.cfg : Diverged(p)}, left |-> DOMAIN inbox.cfg \ Settled(kept),
                      next |-> [p \in Paths |-> IF p \in Settled(kept) THEN inbox.cfg[p] ELSE exchange.hashes[p]]]
      BY <1>8, <2>3 DEF ApplyInbox
    <3>2. Settled(kept) \subseteq DOMAIN inbox.cfg
      BY DEF Settled
    <3>3. apply' \in Applies
      BY <2>1, <3>1, <3>2 DEF Applies
    <3>q. QED BY <1>8, <3>3 DEF ApplyInbox
  <2>q. QED BY <2>2, <2>3
<1>9. ASSUME WritesFile PROVE ExchangeTypeOK'
  <2>1. PICK p \in apply.left :
          /\ drive' = [drive EXCEPT ![p] = inbox.cfg[p]] /\ had' = [had EXCEPT ![p] = @ \cup {inbox.cfg[p]}]
          /\ apply' = [apply EXCEPT !.left = @ \ {p}, !.next[p] = inbox.cfg[p]]
    BY <1>9 DEF WritesFile
  <2>2. apply.at = "write" /\ p \in DOMAIN inbox.cfg
    BY <1>9, <2>1 DEF WritesFile, WritesAskedFor
  <2>3. apply \in [at : {"write"}, asked : SUBSET Paths, left : SUBSET Paths, next : [Paths -> Nat]]
    BY <2>2 DEF Applies
  <2>4. p \in Paths /\ inbox.cfg[p] \in Nat
    BY <2>1, <2>2, <2>3 DEF Inboxes, Configs
  <2>5. apply' \in [at : {"write"}, asked : SUBSET Paths, left : SUBSET Paths, next : [Paths -> Nat]]
    BY <2>1, <2>3, <2>4
  <2>q. QED BY <1>9, <2>1, <2>4, <2>5 DEF WritesFile, Applies
<1>10. ASSUME SavesState PROVE ExchangeTypeOK'
  <2>1. exchange' \in [hashes : [Paths -> Nat], last : Nat, applied : Nat, outboxes : Nat]
    BY <1>10, LargerIsNat DEF SavesState, Applies, Inboxes
  <2>q. QED BY <1>10, <2>1 DEF SavesState, Applies
<1>11. ASSUME CountsInbox PROVE ExchangeTypeOK'
  BY <1>11 DEF CountsInbox, Applies, Inboxes
<1>12. ASSUME CollectsOutbox PROVE ExchangeTypeOK'
  BY <1>12 DEF CollectsOutbox, Outboxes
<1>13. ASSUME PublishesOutbox PROVE ExchangeTypeOK'
  BY <1>13 DEF PublishesOutbox
<1>14. ASSUME NEW c \in Computers, Reconciles(c) PROVE ExchangeTypeOK'
  <2>1. flow' = [flow EXCEPT ![c] = IF @ = {} THEN {Reconciled(NewFlow)} ELSE {Reconciled(f) : f \in @}]
    BY <1>14 DEF Reconciles
  <2>2. flow'[c] \in SUBSET Flows
    BY <2>1, NewFlowType, ReconciledFlow
  <2>q. QED BY <1>14, <2>1, <2>2 DEF Reconciles
<1>15. ASSUME NEW c \in Computers, PublishRefresh(c) PROVE ExchangeTypeOK'
  <2>1. PICK f \in flow[c], S \in SUBSET Paths :
          LET r == [seq |-> NextSequence(f), cfg |-> Restrict(source[c], S)] IN
          /\ f \in Flows /\ r \in Inboxes /\ r.seq > inbox.seq
          /\ reserved' = {r} /\ flow' = [flow EXCEPT ![c] = {[f EXCEPT !.issued = NextSequence(f), !.pending = {r}]}]
    BY <1>15, RefreshType
  <2>2. NextSequence(f) \in Nat
    BY <2>1, NextIsNew
  <2>3. [f EXCEPT !.issued = NextSequence(f), !.pending = reserved'] \in Flows
    BY <2>1, <2>2 DEF Flows
  <2>q. QED BY <1>15, <2>1, <2>3 DEF PublishRefresh
<1>16. ASSUME PublishesInbox PROVE ExchangeTypeOK'
  BY <1>16 DEF PublishesInbox
<1>q. QED BY <1>1, <1>2, <1>3, <1>4, <1>5, <1>6, <1>7, <1>8, <1>9, <1>10, <1>11, <1>12, <1>13, <1>14, <1>15, <1>16
          DEF ExchangeNext

\* Computers and drive take turns.
LEMMA SideStep == ASSUME OneSide, ExchangeNext PROVE OneSide'
<1> USE DEF OneSide, ofDrive, ofComputers
<1>1. ASSUME NEW c \in Computers, NEW p \in Paths, Edit(c, p) PROVE OneSide'
  BY <1>1 DEF Edit
<1>2. ASSUME NEW p \in Paths, EditOnDrive(p) PROVE OneSide'
  BY <1>2 DEF EditOnDrive
<1>3. ASSUME Boot PROVE OneSide'
  BY <1>3 DEF Boot
<1>4. ASSUME Shutdown PROVE OneSide'
  BY <1>4 DEF Shutdown
<1>5. ASSUME PowerCut PROVE OneSide'
  BY <1>5 DEF PowerCut, Lose
<1>6. ASSUME PublicationFails PROVE OneSide'
  BY <1>6 DEF PublicationFails, Lose
<1>7. ASSUME NEW c \in Computers, FlowIsLost(c) PROVE OneSide'
  BY <1>7 DEF FlowIsLost, Lose
<1>8. ASSUME ApplyInbox PROVE OneSide'
  BY <1>8 DEF ApplyInbox
<1>9. ASSUME WritesFile PROVE OneSide'
  BY <1>9 DEF WritesFile
<1>10. ASSUME SavesState PROVE OneSide'
  BY <1>10 DEF SavesState
<1>11. ASSUME CountsInbox PROVE OneSide'
  BY <1>11 DEF CountsInbox
<1>12. ASSUME CollectsOutbox PROVE OneSide'
  BY <1>12 DEF CollectsOutbox
<1>13. ASSUME PublishesOutbox PROVE OneSide'
  BY <1>13 DEF PublishesOutbox
<1>14. ASSUME NEW c \in Computers, Reconciles(c) PROVE OneSide'
  BY <1>14 DEF Reconciles
<1>15. ASSUME NEW c \in Computers, PublishRefresh(c) PROVE OneSide'
  BY <1>15 DEF PublishRefresh
<1>16. ASSUME PublishesInbox PROVE OneSide'
  BY <1>16 DEF PublishesInbox
<1>q. QED BY <1>1, <1>2, <1>3, <1>4, <1>5, <1>6, <1>7, <1>8, <1>9, <1>10, <1>11, <1>12, <1>13, <1>14, <1>15, <1>16
          DEF ExchangeNext

\* No content of the drive's reaches a computer, a bundle or the record of both.
LEMMA ContentsStep == ASSUME ExchangeTypeOK, WritesAskedFor, ContentsApart, ExchangeNext PROVE ContentsApart'
<1> USE DEF ContentsApart, Theirs, ofDrive, ofComputers
<1>1. ASSUME NEW c \in Computers, NEW p \in Paths, Edit(c, p) PROVE ContentsApart'
  <2>1. \A d \in Computers, q \in Paths : source'[d][q] = contents' \/ source'[d][q] = source[d][q]
    BY <1>1 DEF Edit, ExchangeTypeOK
  <2>2. contents' = contents + 1 /\ contents \in Nat
    BY <1>1 DEF Edit, ExchangeTypeOK
  <2>3. contents' <= contents' /\ contents' \notin typed'
    BY <1>1, <2>2 DEF Edit
  <2>4. \A n \in Nat : n <= contents /\ n \notin typed => n <= contents' /\ n \notin typed'
    BY <1>1, <2>2 DEF Edit
  <2>q. QED BY <1>1, <2>1, <2>2, <2>3, <2>4 DEF Edit, ExchangeTypeOK, Inboxes, Configs, Applies
<1>2. ASSUME NEW p \in Paths, EditOnDrive(p) PROVE ContentsApart'
  <2>1. \A n \in Nat : n <= contents /\ n \notin typed => n <= contents' /\ n \notin typed'
    BY <1>2 DEF EditOnDrive, ExchangeTypeOK
  <2>2. \A n \in typed' : 0 < n /\ n <= contents'
    BY <1>2 DEF EditOnDrive, ExchangeTypeOK
  <2>q. QED BY <1>2, <2>1, <2>2 DEF EditOnDrive, ExchangeTypeOK, Inboxes, Configs
<1>3. ASSUME Boot PROVE ContentsApart'
  BY <1>3 DEF Boot
<1>4. ASSUME Shutdown PROVE ContentsApart'
  BY <1>4 DEF Shutdown
<1>5. ASSUME PowerCut PROVE ContentsApart'
  BY <1>5 DEF PowerCut, Lose
<1>6. ASSUME PublicationFails PROVE ContentsApart'
  BY <1>6 DEF PublicationFails, Lose
<1>7. ASSUME NEW c \in Computers, FlowIsLost(c) PROVE ContentsApart'
  BY <1>7 DEF FlowIsLost, Lose
<1>8. ASSUME ApplyInbox PROVE ContentsApart'
  <2>1. apply'.at = "write" => \A p \in Paths : Theirs(apply'.next[p])
    BY <1>8 DEF ApplyInbox, Settled
  <2>q. QED BY <1>8, <2>1 DEF ApplyInbox
<1>9. ASSUME WritesFile PROVE ContentsApart'
  <2>1. PICK p \in apply.left : apply' = [apply EXCEPT !.left = @ \ {p}, !.next[p] = inbox.cfg[p]]
    BY <1>9 DEF WritesFile
  <2>2. apply.at = "write" /\ p \in DOMAIN inbox.cfg /\ apply \in Applies
    BY <1>9, <2>1 DEF WritesFile, WritesAskedFor, ExchangeTypeOK
  <2>3. apply.next \in [Paths -> Nat]
    BY <2>2 DEF Applies
  <2>4. \A q \in Paths : Theirs(apply'.next[q])
    BY <2>1, <2>2, <2>3 DEF Applies
  <2>q. QED BY <1>9, <2>4 DEF WritesFile
<1>10. ASSUME SavesState PROVE ContentsApart'
  BY <1>10 DEF SavesState
<1>11. ASSUME CountsInbox PROVE ContentsApart'
  BY <1>11 DEF CountsInbox
<1>12. ASSUME CollectsOutbox PROVE ContentsApart'
  BY <1>12 DEF CollectsOutbox
<1>13. ASSUME PublishesOutbox PROVE ContentsApart'
  BY <1>13 DEF PublishesOutbox
<1>14. ASSUME NEW c \in Computers, Reconciles(c) PROVE ContentsApart'
  BY <1>14 DEF Reconciles
<1>15. ASSUME NEW c \in Computers, PublishRefresh(c) PROVE ContentsApart'
  <2>1. PICK f \in flow[c], S \in SUBSET Paths :
          LET r == [seq |-> NextSequence(f), cfg |-> Restrict(source[c], S)] IN
          /\ f \in Flows /\ r \in Inboxes /\ r.seq > inbox.seq
          /\ reserved' = {r} /\ flow' = [flow EXCEPT ![c] = {[f EXCEPT !.issued = NextSequence(f), !.pending = {r}]}]
    BY <1>15, RefreshType
  <2>2. \A p \in DOMAIN Restrict(source[c], S) : Restrict(source[c], S)[p] = source[c][p] /\ p \in Paths
    BY DEF Restrict
  <2>3. \A b \in reserved' : b.cfg = Restrict(source[c], S)
    BY <2>1
  <2>q. QED BY <1>15, <2>2, <2>3 DEF PublishRefresh
<1>16. ASSUME PublishesInbox PROVE ContentsApart'
  BY <1>16 DEF PublishesInbox
<1>q. QED BY <1>1, <1>2, <1>3, <1>4, <1>5, <1>6, <1>7, <1>8, <1>9, <1>10, <1>11, <1>12, <1>13, <1>14, <1>15, <1>16
          DEF ExchangeNext

\* A write that is pending stays asked for, or not of the drive's own.
LEMMA WritesStep == ASSUME ExchangeTypeOK, OneSide, ContentsApart, WritesAskedFor, ExchangeNext PROVE WritesAskedFor'
<1> USE DEF WritesAskedFor, OneSide, ofDrive, ofComputers
<1>1. ASSUME NEW c \in Computers, NEW p \in Paths, Edit(c, p) PROVE WritesAskedFor'
  BY <1>1 DEF Edit
<1>2. ASSUME NEW p \in Paths, EditOnDrive(p) PROVE WritesAskedFor'
  BY <1>2 DEF EditOnDrive
<1>3. ASSUME Boot PROVE WritesAskedFor'
  BY <1>3 DEF Boot
<1>4. ASSUME Shutdown PROVE WritesAskedFor'
  BY <1>4 DEF Shutdown
<1>5. ASSUME PowerCut PROVE WritesAskedFor'
  BY <1>5 DEF PowerCut, Lose
<1>6. ASSUME PublicationFails PROVE WritesAskedFor'
  BY <1>6 DEF PublicationFails, Lose
<1>7. ASSUME NEW c \in Computers, FlowIsLost(c) PROVE WritesAskedFor'
  BY <1>7 DEF FlowIsLost, Lose
<1>8. ASSUME ApplyInbox PROVE WritesAskedFor'
  <2>1. CASE inbox.seq <= exchange.last
    BY <1>8, <2>1 DEF ApplyInbox
  <2>2. CASE ~(inbox.seq <= exchange.last)
    <3>1. PICK kept \in SUBSET {p \in DOMAIN inbox.cfg : Diverged(p)} :
            /\ apply'.asked = {p \in DOMAIN inbox.cfg : Diverged(p)}
            /\ apply'.left = DOMAIN inbox.cfg \ Settled(kept)
      BY <1>8, <2>2 DEF ApplyInbox
    <3>2. UNCHANGED <<inbox, drive, exchange, typed>>
      BY <1>8 DEF ApplyInbox
    <3>q. QED BY <3>1, <3>2 DEF Settled, Diverged, ContentsApart, Theirs, ExchangeTypeOK, Inboxes, Configs
  <2>q. QED BY <2>1, <2>2
<1>9. ASSUME WritesFile PROVE WritesAskedFor'
  <2>1. PICK p \in apply.left :
          /\ drive' = [drive EXCEPT ![p] = inbox.cfg[p]]
          /\ apply' = [apply EXCEPT !.left = @ \ {p}, !.next[p] = inbox.cfg[p]]
    BY <1>9 DEF WritesFile
  <2>2. apply.at = "write" /\ apply \in [at : {"write"}, asked : SUBSET Paths, left : SUBSET Paths, next : [Paths -> Nat]]
    BY <1>9 DEF WritesFile, ExchangeTypeOK, Applies
  <2>3. apply'.left = apply.left \ {p} /\ apply'.asked = apply.asked
    BY <2>1, <2>2
  <2>4. \A q \in apply'.left : drive'[q] = drive[q]
    BY <2>1, <2>2, <2>3 DEF ExchangeTypeOK
  <2>q. QED BY <1>9, <2>2, <2>3, <2>4 DEF WritesFile
<1>10. ASSUME SavesState PROVE WritesAskedFor'
  BY <1>10 DEF SavesState
<1>11. ASSUME CountsInbox PROVE WritesAskedFor'
  BY <1>11 DEF CountsInbox
<1>12. ASSUME CollectsOutbox PROVE WritesAskedFor'
  BY <1>12 DEF CollectsOutbox
<1>13. ASSUME PublishesOutbox PROVE WritesAskedFor'
  BY <1>13 DEF PublishesOutbox
<1>14. ASSUME NEW c \in Computers, Reconciles(c) PROVE WritesAskedFor'
  BY <1>14 DEF Reconciles
<1>15. ASSUME NEW c \in Computers, PublishRefresh(c) PROVE WritesAskedFor'
  BY <1>15 DEF PublishRefresh
<1>16. ASSUME PublishesInbox PROVE WritesAskedFor'
  BY <1>16 DEF PublishesInbox
<1>q. QED BY <1>1, <1>2, <1>3, <1>4, <1>5, <1>6, <1>7, <1>8, <1>9, <1>10, <1>11, <1>12, <1>13, <1>14, <1>15, <1>16
          DEF ExchangeNext

\* Numbers under way are above the drive's.
LEMMA NumbersStep == ASSUME ExchangeTypeOK, NumbersRise, ExchangeNext PROVE NumbersRise'
<1> USE DEF NumbersRise, ofDrive, ofComputers
<1>1. ASSUME NEW c \in Computers, NEW p \in Paths, Edit(c, p) PROVE NumbersRise'
  BY <1>1 DEF Edit
<1>2. ASSUME NEW p \in Paths, EditOnDrive(p) PROVE NumbersRise'
  BY <1>2 DEF EditOnDrive
<1>3. ASSUME Boot PROVE NumbersRise'
  BY <1>3 DEF Boot
<1>4. ASSUME Shutdown PROVE NumbersRise'
  BY <1>4 DEF Shutdown
<1>5. ASSUME PowerCut PROVE NumbersRise'
  BY <1>5 DEF PowerCut, Lose
<1>6. ASSUME PublicationFails PROVE NumbersRise'
  BY <1>6 DEF PublicationFails, Lose
<1>7. ASSUME NEW c \in Computers, FlowIsLost(c) PROVE NumbersRise'
  BY <1>7 DEF FlowIsLost, Lose
<1>8. ASSUME ApplyInbox PROVE NumbersRise'
  BY <1>8 DEF ApplyInbox
<1>9. ASSUME WritesFile PROVE NumbersRise'
  BY <1>9 DEF WritesFile
<1>10. ASSUME SavesState PROVE NumbersRise'
  <2>1. exchange'.last = Larger(exchange.last, inbox.seq)
    BY <1>10 DEF SavesState, ExchangeTypeOK
  <2>2. Larger(exchange.last, inbox.seq) = inbox.seq
    <3>1. exchange.last \in Nat /\ inbox.seq \in Nat /\ exchange.last <= inbox.seq
      BY DEF ExchangeTypeOK, Inboxes
    <3>q. QED BY <3>1 DEF Larger
  <2>q. QED BY <1>10, <2>1, <2>2 DEF SavesState, ExchangeTypeOK, Inboxes
<1>11. ASSUME CountsInbox PROVE NumbersRise'
  BY <1>11 DEF CountsInbox, ExchangeTypeOK
<1>12. ASSUME CollectsOutbox PROVE NumbersRise'
  BY <1>12 DEF CollectsOutbox, ExchangeTypeOK
<1>13. ASSUME PublishesOutbox PROVE NumbersRise'
  BY <1>13 DEF PublishesOutbox
<1>14. ASSUME NEW c \in Computers, Reconciles(c) PROVE NumbersRise'
  BY <1>14 DEF Reconciles
<1>15. ASSUME NEW c \in Computers, PublishRefresh(c) PROVE NumbersRise'
  <2>1. PICK f \in flow[c], S \in SUBSET Paths :
          LET r == [seq |-> NextSequence(f), cfg |-> Restrict(source[c], S)] IN
          /\ f \in Flows /\ r \in Inboxes /\ r.seq > inbox.seq
          /\ reserved' = {r} /\ flow' = [flow EXCEPT ![c] = {[f EXCEPT !.issued = NextSequence(f), !.pending = {r}]}]
    BY <1>15, RefreshType
  <2>q. QED BY <1>15, <2>1 DEF PublishRefresh
<1>16. ASSUME PublishesInbox PROVE NumbersRise'
  BY <1>16 DEF PublishesInbox, ExchangeTypeOK, Inboxes
<1>q. QED BY <1>1, <1>2, <1>3, <1>4, <1>5, <1>6, <1>7, <1>8, <1>9, <1>10, <1>11, <1>12, <1>13, <1>14, <1>15, <1>16
          DEF ExchangeNext

\* The drive had what bundles and computers say it had.
LEMMA HadStep == ASSUME ExchangeTypeOK, DriveHadIt, CommonWasThere, ExchangeNext PROVE DriveHadIt' /\ CommonWasThere'
<1> USE DEF DriveHadIt, CommonWasThere, ofDrive, ofComputers
<1>1. ASSUME NEW c \in Computers, NEW p \in Paths, Edit(c, p) PROVE DriveHadIt' /\ CommonWasThere'
  BY <1>1 DEF Edit
<1>2. ASSUME NEW p \in Paths, EditOnDrive(p) PROVE DriveHadIt' /\ CommonWasThere'
  <2>2. \A q \in Paths : had[q] \subseteq had'[q] /\ (drive'[q] = drive[q] \/ drive'[q] \in had'[q])
    BY <1>2 DEF EditOnDrive, ExchangeTypeOK
  <2>q. QED BY <1>2, <2>2 DEF EditOnDrive
<1>3. ASSUME Boot PROVE DriveHadIt' /\ CommonWasThere'
  BY <1>3 DEF Boot
<1>4. ASSUME Shutdown PROVE DriveHadIt' /\ CommonWasThere'
  BY <1>4 DEF Shutdown
<1>5. ASSUME PowerCut PROVE DriveHadIt' /\ CommonWasThere'
  BY <1>5 DEF PowerCut, Lose
<1>6. ASSUME PublicationFails PROVE DriveHadIt' /\ CommonWasThere'
  BY <1>6 DEF PublicationFails, Lose
<1>7. ASSUME NEW c \in Computers, FlowIsLost(c) PROVE DriveHadIt' /\ CommonWasThere'
  <2>1. \A d \in Computers : flow'[d] \subseteq flow[d]
    BY <1>7 DEF FlowIsLost, ExchangeTypeOK
  <2>q. QED BY <1>7, <2>1 DEF FlowIsLost
<1>8. ASSUME ApplyInbox PROVE DriveHadIt' /\ CommonWasThere'
  BY <1>8 DEF ApplyInbox
<1>9. ASSUME WritesFile PROVE DriveHadIt' /\ CommonWasThere'
  <2>1. PICK p \in apply.left :
          drive' = [drive EXCEPT ![p] = inbox.cfg[p]] /\ had' = [had EXCEPT ![p] = @ \cup {inbox.cfg[p]}]
    BY <1>9 DEF WritesFile
  <2>2. \A q \in Paths : had[q] \subseteq had'[q] /\ (drive'[q] = drive[q] \/ drive'[q] \in had'[q])
    BY <2>1 DEF ExchangeTypeOK
  <2>q. QED BY <1>9, <2>2 DEF WritesFile
<1>10. ASSUME SavesState PROVE DriveHadIt' /\ CommonWasThere'
  BY <1>10 DEF SavesState
<1>11. ASSUME CountsInbox PROVE DriveHadIt' /\ CommonWasThere'
  BY <1>11 DEF CountsInbox
<1>12. ASSUME CollectsOutbox PROVE DriveHadIt' /\ CommonWasThere'
  <2>1. \A b \in collected' : b.cfg = drive
    BY <1>12 DEF CollectsOutbox
  <2>q. QED BY <1>12, <2>1 DEF CollectsOutbox
<1>13. ASSUME PublishesOutbox PROVE DriveHadIt' /\ CommonWasThere'
  BY <1>13 DEF PublishesOutbox
<1>14. ASSUME NEW c \in Computers, Reconciles(c) PROVE DriveHadIt' /\ CommonWasThere'
  <2>1. flow' = [flow EXCEPT ![c] = IF @ = {} THEN {Reconciled(NewFlow)} ELSE {Reconciled(f) : f \in @}]
    BY <1>14 DEF Reconciles
  <2>2. \A g \in flow'[c] : \E f \in flow[c] \cup {NewFlow} : g = Reconciled(f)
    BY <2>1 DEF ExchangeTypeOK
  <2>3. \A f \in flow[c] \cup {NewFlow} : f \in Flows /\ \A p \in Paths : f.common[p] # 0 => f.common[p] \in had[p]
    <3>1. \A p \in Paths : NewFlow.common[p] = 0
      BY DEF NewFlow, Nothing
    <3>2. flow[c] \subseteq Flows
      BY DEF ExchangeTypeOK
    <3>q. QED BY <3>1, <3>2, NewFlowType
  <2>4. \A g \in flow'[c], p \in Paths : g.common[p] # 0 => g.common[p] \in had[p]
    BY <2>2, <2>3, ReconciledFlow
  <2>5. \A d \in Computers \ {c} : flow'[d] = flow[d]
    BY <2>1 DEF ExchangeTypeOK
  <2>q. QED BY <1>14, <2>4, <2>5 DEF Reconciles
<1>15. ASSUME NEW c \in Computers, PublishRefresh(c) PROVE DriveHadIt' /\ CommonWasThere'
  <2>1. PICK f \in flow[c], S \in SUBSET Paths :
          LET r == [seq |-> NextSequence(f), cfg |-> Restrict(source[c], S)] IN
          /\ f \in Flows /\ r \in Inboxes /\ r.seq > inbox.seq
          /\ reserved' = {r} /\ flow' = [flow EXCEPT ![c] = {[f EXCEPT !.issued = NextSequence(f), !.pending = {r}]}]
    BY <1>15, RefreshType
  <2>2. [f EXCEPT !.issued = NextSequence(f), !.pending = reserved'].common = f.common
    BY <2>1 DEF Flows
  <2>3. \A d \in Computers : \A g \in flow'[d] : \E h \in flow[d] : g.common = h.common
    BY <2>1, <2>2 DEF ExchangeTypeOK
  <2>q. QED BY <1>15, <2>3 DEF PublishRefresh
<1>16. ASSUME PublishesInbox PROVE DriveHadIt' /\ CommonWasThere'
  BY <1>16 DEF PublishesInbox
<1>q. QED BY <1>1, <1>2, <1>3, <1>4, <1>5, <1>6, <1>7, <1>8, <1>9, <1>10, <1>11, <1>12, <1>13, <1>14, <1>15, <1>16
          DEF ExchangeNext

ExchangeInv ==
    /\ ExchangeTypeOK /\ OneSide /\ ContentsApart /\ WritesAskedFor
    /\ NumbersRise /\ DriveHadIt /\ CommonWasThere

LEMMA ExchangeInvariant == ExchangeSpec => []ExchangeInv
<1>1. ExchangeInit => ExchangeInv
  BY InitHolds DEF ExchangeInv
<1>2. ExchangeInv /\ [ExchangeNext]_exchangeVars => ExchangeInv'
  <2> SUFFICES ASSUME ExchangeInv, [ExchangeNext]_exchangeVars PROVE ExchangeInv'
    OBVIOUS
  <2>1. CASE ExchangeNext
    BY <2>1, TypeStep, SideStep, ContentsStep, WritesStep, NumbersStep, HadStep DEF ExchangeInv
  <2>2. CASE UNCHANGED exchangeVars
    BY <2>2 DEF exchangeVars, ExchangeInv, ExchangeTypeOK, OneSide, ContentsApart, Theirs, WritesAskedFor, NumbersRise,
                DriveHadIt, CommonWasThere
  <2>q. QED BY <2>1, <2>2
<1>q. QED BY <1>1, <1>2, PTL DEF ExchangeSpec

\* A computer takes for common only what the drive had, whatever was lost.
THEOREM CommonHolds == ExchangeSpec => []CommonWasThere
  BY ExchangeInvariant, PTL DEF ExchangeInv

\* What was made on the drive is overwritten only by a person's choice.
THEOREM EditsAreSafe == ExchangeSpec => EditsAreAskedFor
<1>1. ExchangeInv /\ [ExchangeNext]_exchangeVars =>
        [\A p \in Paths : apply.at = "write" /\ drive'[p] # drive[p] /\ drive[p] \in typed =>
            exchange.hashes[p] = 0 \/ p \in apply.asked]_exchangeVars
  <2> SUFFICES ASSUME ExchangeInv, ExchangeNext, NEW p \in Paths,
                      apply.at = "write", drive'[p] # drive[p], drive[p] \in typed
               PROVE  exchange.hashes[p] = 0 \/ p \in apply.asked
    OBVIOUS
  <2>1. WritesFile
    BY DEF ExchangeNext, Edit, EditOnDrive, Boot, Shutdown, PowerCut, PublicationFails, FlowIsLost, ApplyInbox, SavesState, CountsInbox,
           CollectsOutbox, PublishesOutbox, Reconciles, PublishRefresh, PublishesInbox, ofDrive, ofComputers
  <2>2. p \in apply.left
    BY <2>1 DEF WritesFile, ExchangeInv, ExchangeTypeOK
  <2>q. QED BY <2>2 DEF ExchangeInv, WritesAskedFor
<1>q. QED BY ExchangeInvariant, <1>1, PTL DEF ExchangeSpec, EditsAreAskedFor

\* No inbox is published under a number that the drive passes over.
THEOREM InboxesAreNew == ExchangeSpec => NewToTheDrive
<1>1. ExchangeInv /\ [ExchangeNext]_exchangeVars =>
        [inbox' # inbox => inbox'.seq > exchange.last /\ inbox'.seq > inbox.seq]_exchangeVars
  <2> SUFFICES ASSUME ExchangeInv, ExchangeNext, inbox' # inbox PROVE inbox'.seq > exchange.last /\ inbox'.seq > inbox.seq
    OBVIOUS
  <2>1. PublishesInbox
    BY DEF ExchangeNext, Edit, EditOnDrive, Boot, Shutdown, PowerCut, PublicationFails, FlowIsLost, ApplyInbox, WritesFile, SavesState, CountsInbox,
           CollectsOutbox, PublishesOutbox, Reconciles, PublishRefresh, ofDrive, ofComputers
  <2>2. PICK b \in reserved : inbox' = b
    BY <2>1 DEF PublishesInbox
  <2>q. QED BY <2>2 DEF ExchangeInv, NumbersRise, ExchangeTypeOK, Inboxes
<1>q. QED BY ExchangeInvariant, <1>1, PTL DEF ExchangeSpec, NewToTheDrive

-----------------------------------------------------------------------------
(* The usage snapshot.                                                     *)

Part == [seen : Nat, success : SUBSET Nat, attempt : Nat, failed : BOOLEAN, batch : Nat]

Shot == [started : Nat, completed : Nat, error : {"none", "discovery", "partition", "interrupted"}, parts : [Sources -> Part]]

AtWork == {"discover", "scan", "commit"}

\* A batch file of s with number n.
HasBatch(n, s) == \E b \in batches : b.nr = n /\ b.of = s

\* What a collector knows at each step.
CycleShape(k) ==
    /\ k.at \in AtWork \cup {"off", "begin", "release", "acknowledge", "claimed"}
    /\ k.at \in {"scan", "commit"} => k.due \subseteq Sources
    /\ k.at = "commit" => k.of \in Sources /\ k.seen \in Nat /\ k.batch \in Nat
    /\ k.at \in {"scan", "commit", "acknowledge", "claimed"} => DOMAIN k.read \subseteq Keys
    /\ k.at = "acknowledge" => k = [at |-> "acknowledge", read |-> k.read, left |-> k.left]
    /\ k.at \in {"acknowledge", "claimed"} => k.left \subseteq DOMAIN k.read
    /\ k.at = "claimed" => k.claim.key \in DOMAIN k.read /\ k.claim.token \in Nat

\* A collector that is under way has the lock, and works on the snapshot as it is.
CycleOwns(c) ==
    /\ cycle[c].at # "off" => flock = {c}
    /\ cycle[c].at \in AtWork => cycle[c].shot = snapshot /\ cycle[c].started = snapshot.started

SnapshotTypes ==
    /\ snapshot \in Shot /\ time \in Nat /\ promoted \in Nat /\ data \in [Sources -> Nat]
    /\ tokens \in Nat /\ marks \in [Keys -> Nat]
    /\ DOMAIN cycle = Collectors

BatchInv ==
    /\ SnapshotTypes
    /\ \A c \in Collectors : CycleShape(cycle[c]) /\ CycleOwns(c)
    /\ \A c \in Collectors : cycle[c].at = "commit" /\ cycle[c].batch # 0 => HasBatch(cycle[c].batch, cycle[c].of)
    /\ BatchIsThere

LEMMA BatchStarts == SnapshotInit => BatchInv
<1> SUFFICES ASSUME SnapshotInit PROVE BatchInv
    OBVIOUS
<1>1. Pending \in Part
    BY DEF Pending, Part
<1>2. SnapshotTypes
  <2>1. [s \in Sources |-> Pending] \in [Sources -> Part]
    BY <1>1
  <2>2. snapshot \in Shot
    BY <2>1 DEF SnapshotInit, Shot
  <2>3. marks \in [Keys -> Nat]
    BY DEF SnapshotInit
  <2> QED
    BY <2>2, <2>3 DEF SnapshotInit, SnapshotTypes
<1>3. \A c \in Collectors : cycle[c] = [at |-> "off"]
    BY DEF SnapshotInit
<1>4. \A c \in Collectors : CycleShape(cycle[c]) /\ CycleOwns(c)
    BY <1>3 DEF CycleShape, CycleOwns, AtWork
<1>5. BatchIsThere
    BY DEF SnapshotInit, BatchIsThere, Pending
<1> QED
    BY <1>2, <1>3, <1>4, <1>5 DEF BatchInv

\* A write of the snapshot keeps the batches that it lists.
LEMMA WritesKeep ==
    ASSUME NEW shot \in Shot, Writes(shot),
           \A s \in Sources : shot.parts[s].batch # 0 => HasBatch(shot.parts[s].batch, s)
    PROVE  BatchIsThere'
<1> SUFFICES ASSUME NEW s \in Sources, snapshot'.parts[s].batch # 0
             PROVE  \E b \in batches' : b.nr = snapshot'.parts[s].batch /\ b.of = s
    BY DEF BatchIsThere
<1>1. snapshot' = shot /\ batches' = Kept(shot, batches)
    BY DEF Writes
<1>2. PICK b \in batches : b.nr = shot.parts[s].batch /\ b.of = s
    BY <1>1 DEF HasBatch
<1>3. b.nr \in Listed(shot)
    BY <1>2 DEF Listed
<1>4. b \in batches'
    BY <1>1, <1>3 DEF Kept
<1> QED
    BY <1>1, <1>2, <1>4


-----------------------------------------------------------------------------
(* The steps around a cycle.                                               *)

LEMMA SourcesKeepBatches ==
    ASSUME BatchInv, EnsureDirty \/ TimePasses \/ \E s \in Sources : Updates(s) \/ MarkDirty(s)
    PROVE  BatchInv'
<1> USE DEF BatchInv
<1>1. UNCHANGED <<snapshot, batches, promoted, flock, cycle>>
    BY DEF EnsureDirty, TimePasses, Updates, MarkDirty
<1>2. SnapshotTypes'
  <2>1. CASE EnsureDirty
    BY <2>1 DEF EnsureDirty, SnapshotTypes, Keys
  <2>2. CASE TimePasses
    BY <2>2 DEF TimePasses, SnapshotTypes
  <2>3. ASSUME NEW s \in Sources, Updates(s) PROVE SnapshotTypes'
    BY <2>3 DEF Updates, SnapshotTypes
  <2>4. ASSUME NEW s \in Sources, MarkDirty(s) PROVE SnapshotTypes'
    BY <2>4 DEF MarkDirty, SnapshotTypes, Keys
  <2> QED
    BY <2>1, <2>2, <2>3, <2>4
<1>3. \A c \in Collectors : (CycleShape(cycle[c]) /\ CycleOwns(c))'
    BY <1>1 DEF CycleShape, CycleOwns
<1>4. BatchIsThere' /\ \A n, s : HasBatch(n, s)' = HasBatch(n, s)
    BY <1>1 DEF BatchIsThere, HasBatch
<1> QED
    BY <1>1, <1>2, <1>3, <1>4

\* While one collector is under way no other is.
LEMMA OneCollector ==
    ASSUME BatchInv, NEW c \in Collectors, cycle[c].at # "off", NEW d \in Collectors, d # c
    PROVE  cycle[d].at = "off"
BY DEF BatchInv, CycleOwns

\* What the steps of collector c leave to show: the others stay away.
LEMMA OthersStay ==
    ASSUME BatchInv, NEW c \in Collectors, cycle[c].at # "off", NEW k, cycle' = [cycle EXCEPT ![c] = k],
           SnapshotTypes', CycleShape(k), CycleOwns(c)', BatchIsThere',
           k.at = "commit" /\ k.batch # 0 => HasBatch(k.batch, k.of)'
    PROVE  BatchInv'
<1>1. DOMAIN cycle = Collectors /\ cycle'[c] = k
    BY DEF BatchInv, SnapshotTypes
<1>2. ASSUME NEW d \in Collectors, d # c PROVE cycle'[d] = cycle[d] /\ cycle[d].at = "off"
    BY <1>1, <1>2, OneCollector
<1>3. ASSUME NEW d \in Collectors PROVE (CycleShape(cycle[d]) /\ CycleOwns(d))'
  <2>1. CASE d = c
    BY <2>1, <1>1 DEF CycleShape
  <2>2. CASE d # c
    BY <2>2, <1>2 DEF CycleShape, CycleOwns, AtWork
  <2> QED
    BY <2>1, <2>2
<1>4. ASSUME NEW d \in Collectors, (cycle[d].at = "commit" /\ cycle[d].batch # 0)'
      PROVE  HasBatch(cycle[d].batch, cycle[d].of)'
  <2>1. d = c
    BY <1>2, <1>4
  <2> QED
    BY <1>1, <1>4, <2>1 DEF HasBatch
<1> QED
    BY <1>3, <1>4 DEF BatchInv


LEMMA StartsKeepBatches ==
    ASSUME BatchInv, NEW c \in Collectors, Starts(c)
    PROVE  BatchInv'
<1> USE DEF BatchInv
<1>1. /\ flock = {} /\ flock' = {c} /\ cycle' = [cycle EXCEPT ![c] = [at |-> "begin"]]
      /\ UNCHANGED <<data, marks, tokens, snapshot, batches, promoted, time>>
    BY DEF Starts
<1>2. SnapshotTypes' /\ cycle'[c] = [at |-> "begin"]
    BY <1>1 DEF SnapshotTypes
<1>3. ASSUME NEW d \in Collectors, d # c PROVE cycle'[d] = cycle[d] /\ cycle[d].at = "off"
    BY <1>1, <1>3 DEF SnapshotTypes, CycleOwns
<1>4. ASSUME NEW d \in Collectors PROVE (CycleShape(cycle[d]) /\ CycleOwns(d))' /\ cycle'[d].at # "commit"
    BY <1>1, <1>2, <1>3 DEF CycleShape, CycleOwns, AtWork
<1>5. BatchIsThere'
    BY <1>1 DEF BatchIsThere
<1> QED
    BY <1>2, <1>4, <1>5

\* The end of a cycle, whichever, frees the lock.
LEMMA EndsKeepBatches ==
    ASSUME BatchInv, NEW c \in Collectors, Unlocks(c) \/ CollectorDies(c)
    PROVE  BatchInv'
<1>1. /\ cycle[c].at # "off" /\ cycle' = [cycle EXCEPT ![c] = [at |-> "off"]]
      /\ UNCHANGED <<data, marks, tokens, snapshot, batches, promoted, time>>
    BY DEF Unlocks, CollectorDies
<1>2. SnapshotTypes' /\ cycle'[c] = [at |-> "off"]
    BY <1>1 DEF SnapshotTypes, BatchInv
<1>3. CycleShape([at |-> "off"])
    BY DEF CycleShape, AtWork
<1>4. CycleOwns(c)'
    BY <1>2 DEF CycleOwns, AtWork
<1>5. BatchIsThere'
    BY <1>1 DEF BatchIsThere, BatchInv
<1> QED
    BY <1>1, <1>2, <1>3, <1>4, <1>5, OthersStay

LEMMA FailureKeepsBatches ==
    ASSUME BatchInv, RecordsFailure
    PROVE  BatchInv'
<1> USE DEF BatchInv
<1>0. UNCHANGED <<data, unmarked, marks, tokens, claims, promoted, flock, cycle, time>>
    BY DEF RecordsFailure
<1>1. CASE UNCHANGED <<snapshot, batches>>
  <2>1. SnapshotTypes' /\ BatchIsThere' /\ \A n, s : HasBatch(n, s)' = HasBatch(n, s)
      BY <1>0, <1>1 DEF SnapshotTypes, BatchIsThere, HasBatch
  <2>2. \A c \in Collectors : (CycleShape(cycle[c]) /\ CycleOwns(c))'
      BY <1>0, <1>1 DEF CycleShape, CycleOwns
  <2> QED
      BY <2>1, <2>2, <1>0
<1>2. CASE ~UNCHANGED <<snapshot, batches>>
  <2> DEFINE parts == [s \in Sources |-> IF snapshot.parts[s].attempt = snapshot.started /\ snapshot.parts[s].success = {}
                                         THEN [snapshot.parts[s] EXCEPT !.failed = TRUE] ELSE snapshot.parts[s]]
             shot == [snapshot EXCEPT !.completed = time, !.error = "interrupted", !.parts = parts]
  <2>1. flock = {} /\ Writes(shot)
      BY <1>2 DEF RecordsFailure
  <2>2. snapshot.parts \in [Sources -> Part]
      BY DEF SnapshotTypes, Shot
  <2>3. parts \in [Sources -> Part] /\ \A s \in Sources : parts[s].batch = snapshot.parts[s].batch
      BY <2>2 DEF Part
  <2> HIDE DEF parts
  <2>4. shot \in Shot /\ shot.parts = parts
      BY <2>3 DEF SnapshotTypes, Shot
  <2> HIDE DEF shot
  <2>5. BatchIsThere'
      BY <2>1, <2>3, <2>4, WritesKeep DEF BatchIsThere, HasBatch
  <2>6. SnapshotTypes'
      BY <1>0, <2>1, <2>4 DEF Writes, SnapshotTypes
  <2>7. \A c \in Collectors : (CycleShape(cycle[c]) /\ CycleOwns(c))' /\ cycle'[c].at = "off"
      BY <1>0, <2>1 DEF CycleShape, CycleOwns, AtWork
  <2> QED
      BY <2>5, <2>6, <2>7
<1> QED
    BY <1>1, <1>2

-----------------------------------------------------------------------------
(* The steps of a cycle.                                                   *)

LEMMA BeginKeepsBatches ==
    ASSUME BatchInv, NEW c \in Collectors, BeginsCycle(c)
    PROVE  BatchInv'
<1> DEFINE shot == [snapshot EXCEPT !.started = time, !.error = "none"]
           k == [at |-> "discover", started |-> time, shot |-> shot]
<1>1. /\ cycle[c].at # "off" /\ Writes(shot) /\ cycle' = [cycle EXCEPT ![c] = k]
      /\ UNCHANGED <<data, marks, tokens, promoted, flock, time>>
    BY DEF BeginsCycle
<1>2. shot \in Shot /\ shot.parts = snapshot.parts /\ shot.started = time
    BY DEF BatchInv, SnapshotTypes, Shot
<1>3. CycleShape(k) /\ k.at = "discover" /\ k.shot = shot /\ k.started = time
    BY DEF CycleShape, AtWork
<1> HIDE DEF shot, k
<1>4. BatchIsThere'
    BY <1>1, <1>2, WritesKeep DEF BatchInv, BatchIsThere, HasBatch
<1>5. SnapshotTypes' /\ snapshot' = shot /\ cycle'[c] = k
    BY <1>1, <1>2 DEF Writes, BatchInv, SnapshotTypes
<1>6. CycleOwns(c)'
    BY <1>1, <1>2, <1>3, <1>5 DEF CycleOwns, BatchInv
<1> QED
    BY <1>1, <1>3, <1>4, <1>5, <1>6, OthersStay

LEMMA DiscoveryKeepsBatches ==
    ASSUME BatchInv, NEW c \in Collectors, Discovers(c)
    PROVE  BatchInv'
<1>0. /\ cycle[c].at = "discover" /\ UNCHANGED <<data, marks, tokens, promoted, flock, time>>
      /\ cycle[c].shot = snapshot /\ cycle[c].started = snapshot.started /\ flock = {c} /\ snapshot \in Shot
    BY DEF Discovers, BatchInv, CycleOwns, SnapshotTypes, AtWork
<1>1. CASE /\ Writes([cycle[c].shot EXCEPT !.completed = cycle[c].started, !.error = "discovery"])
           /\ cycle' = [cycle EXCEPT ![c] = [at |-> "release"]]
  <2> DEFINE shot == [snapshot EXCEPT !.completed = snapshot.started, !.error = "discovery"]
  <2>1. shot \in Shot /\ shot.parts = snapshot.parts /\ Writes(shot)
      BY <1>0, <1>1 DEF Shot
  <2> HIDE DEF shot
  <2>2. BatchIsThere'
      BY <2>1, WritesKeep DEF BatchInv, BatchIsThere, HasBatch
  <2>3. SnapshotTypes' /\ cycle'[c] = [at |-> "release"]
      BY <1>0, <1>1, <2>1 DEF Writes, BatchInv, SnapshotTypes
  <2>4. CycleShape([at |-> "release"]) /\ CycleOwns(c)'
      BY <1>0, <2>3 DEF CycleShape, CycleOwns, AtWork
  <2> QED
      BY <1>0, <1>1, <2>2, <2>3, <2>4, OthersStay
<1>2. CASE LET present == {k \in Keys : marks[k] # 0}
               read == [k \in present |-> marks[k]]
               shot == [cycle[c].shot EXCEPT !.parts =
                         [s \in Sources |-> IF @[s] = Pending THEN [Pending EXCEPT !.attempt = cycle[c].started] ELSE @[s]]]
           IN  /\ Writes(shot)
               /\ cycle' = [cycle EXCEPT ![c] = [at |-> "scan", started |-> @.started, shot |-> shot, read |-> read,
                                                 due |-> Due(shot, read)]]
  <2> DEFINE read == [k \in {k \in Keys : marks[k] # 0} |-> marks[k]]
             parts == [s \in Sources |-> IF snapshot.parts[s] = Pending THEN [Pending EXCEPT !.attempt = snapshot.started]
                                                                        ELSE snapshot.parts[s]]
             shot == [snapshot EXCEPT !.parts = parts]
             due == Due(shot, read)
             k == [at |-> "scan", started |-> snapshot.started, shot |-> shot, read |-> read, due |-> due]
  <2>1. Writes(shot) /\ cycle' = [cycle EXCEPT ![c] = k]
      BY <1>0, <1>2
  <2>2. snapshot.parts \in [Sources -> Part] /\ Pending \in Part /\ snapshot.started \in Nat
      BY <1>0 DEF Shot, Pending, Part
  <2>3. parts \in [Sources -> Part] /\ \A s \in Sources : parts[s].batch = snapshot.parts[s].batch
      BY <2>2 DEF Part
  <2>4. due \subseteq Sources /\ DOMAIN read \subseteq Keys
      BY DEF Due
  <2> HIDE DEF parts, read, due
  <2>5. shot \in Shot /\ shot.parts = parts /\ shot.started = snapshot.started
      BY <1>0, <2>3 DEF Shot
  <2>6. CycleShape(k) /\ k.at = "scan" /\ k.shot = shot /\ k.started = snapshot.started
      BY <2>4 DEF CycleShape, AtWork
  <2> HIDE DEF shot, k
  <2>7. BatchIsThere'
      BY <2>1, <2>3, <2>5, WritesKeep DEF BatchInv, BatchIsThere, HasBatch
  <2>8. SnapshotTypes' /\ snapshot' = shot /\ cycle'[c] = k
      BY <1>0, <2>1, <2>5 DEF Writes, BatchInv, SnapshotTypes
  <2>9. CycleOwns(c)'
      BY <1>0, <2>5, <2>6, <2>8 DEF CycleOwns
  <2> QED
      BY <1>0, <2>1, <2>6, <2>7, <2>8, <2>9, OthersStay
<1> QED
    BY <1>1, <1>2 DEF Discovers


LEMMA ScanKeepsBatches ==
    ASSUME BatchInv, NEW c \in Collectors, Scans(c)
    PROVE  BatchInv'
<1> USE DEF BatchInv
<1>0. PICK s \in cycle[c].due, good \in BOOLEAN :
         /\ promoted' = IF good THEN promoted + 1 ELSE promoted
         /\ batches' = IF good THEN batches \cup {[of |-> s, nr |-> promoted', at |-> time]} ELSE batches
         /\ cycle' = [cycle EXCEPT ![c] = [at |-> "commit", started |-> @.started, shot |-> @.shot, read |-> @.read, due |-> @.due,
                                           of |-> s, seen |-> IF good THEN data[s] ELSE 0, batch |-> IF good THEN promoted' ELSE 0]]
    BY DEF Scans
<1>1. /\ cycle[c].at = "scan" /\ s \in Sources /\ cycle[c].due \subseteq Sources
      /\ UNCHANGED <<data, marks, tokens, snapshot, flock, time>>
    BY DEF Scans, CycleShape
<1>2. PICK k : /\ k = [at |-> "commit", started |-> cycle[c].started, shot |-> cycle[c].shot, read |-> cycle[c].read,
                      due |-> cycle[c].due, of |-> s, seen |-> IF good THEN data[s] ELSE 0,
                      batch |-> IF good THEN promoted + 1 ELSE 0]
               /\ cycle' = [cycle EXCEPT ![c] = k]
    BY <1>0
<1>3. promoted' \in Nat /\ (good => promoted' = promoted + 1)
    BY <1>0 DEF SnapshotTypes
<1>4. batches \subseteq batches' /\ (good => HasBatch(promoted, s)')
  <2>1. CASE good
    <3> DEFINE b == [of |-> s, nr |-> promoted', at |-> time]
    <3>1. b \in batches' /\ batches \subseteq batches' /\ b.nr = promoted' /\ b.of = s
        BY <1>0, <2>1
    <3> QED
        BY <3>1 DEF HasBatch
  <2>2. CASE ~good
      BY <1>0, <2>2
  <2> QED
      BY <2>1, <2>2
<1>5. CycleShape(k) /\ k.at = "commit" /\ k.shot = cycle[c].shot /\ k.started = cycle[c].started /\ k.of = s /\ (k.batch # 0 => good /\ k.batch = promoted')
    BY <1>1, <1>2, <1>3 DEF CycleShape, AtWork, SnapshotTypes
<1>6. BatchIsThere'
    BY <1>1, <1>4 DEF BatchIsThere
<1>7. SnapshotTypes' /\ cycle'[c] = k
    BY <1>1, <1>2, <1>3 DEF SnapshotTypes
<1>8. CycleOwns(c)'
    BY <1>1, <1>5, <1>7 DEF CycleOwns, AtWork
<1>9. k.at = "commit" /\ k.batch # 0 => HasBatch(k.batch, k.of)'
    BY <1>4, <1>5 DEF HasBatch
<1> QED
    BY <1>1, <1>2, <1>5, <1>6, <1>7, <1>8, <1>9, OthersStay

LEMMA CommitKeepsBatches ==
    ASSUME BatchInv, NEW c \in Collectors, SavePartition(c)
    PROVE  BatchInv'
<1>0. /\ cycle[c].at = "commit" /\ UNCHANGED <<data, marks, tokens, promoted, flock, time>>
      /\ cycle[c].shot = snapshot /\ cycle[c].started = snapshot.started /\ flock = {c} /\ snapshot \in Shot
      /\ cycle[c].of \in Sources /\ cycle[c].seen \in Nat /\ cycle[c].batch \in Nat /\ cycle[c].due \subseteq Sources /\ time \in Nat
    BY DEF SavePartition, BatchInv, CycleOwns, CycleShape, SnapshotTypes, AtWork
<1> DEFINE s == cycle[c].of
           part == IF cycle[c].batch # 0
                   THEN [seen |-> cycle[c].seen, success |-> {time}, attempt |-> snapshot.started, failed |-> FALSE,
                         batch |-> cycle[c].batch]
                   ELSE [snapshot.parts[s] EXCEPT !.attempt = snapshot.started, !.failed = TRUE]
           shot == [snapshot EXCEPT !.parts[s] = part]
           k == [at |-> "scan", started |-> snapshot.started, shot |-> shot, read |-> cycle[c].read, due |-> cycle[c].due \ {s}]
<1>1. Writes(shot) /\ cycle' = [cycle EXCEPT ![c] = k]
    BY <1>0 DEF SavePartition
<1>2. snapshot.parts \in [Sources -> Part] /\ snapshot.started \in Nat
    BY <1>0 DEF Shot
<1>3. part \in Part /\ part.batch = IF cycle[c].batch # 0 THEN cycle[c].batch ELSE snapshot.parts[s].batch
  <2>1. CASE cycle[c].batch # 0
      BY <1>0, <1>2, <2>1 DEF Part
  <2>2. CASE cycle[c].batch = 0
    <3>1. snapshot.parts[s] \in Part
        BY <1>0, <1>2
    <3> QED
        BY <1>2, <2>2, <3>1 DEF Part
  <2> QED
      BY <2>1, <2>2
<1> HIDE DEF part
<1>4. shot \in Shot /\ shot.started = snapshot.started
      /\ \A r \in Sources : shot.parts[r] = IF r = s THEN part ELSE snapshot.parts[r]
    BY <1>0, <1>2, <1>3 DEF Shot
<1>5. CycleShape(k) /\ k.at = "scan" /\ k.shot = shot /\ k.started = snapshot.started
    BY <1>0 DEF CycleShape, AtWork, BatchInv
<1> HIDE DEF shot, k
<1>6. \A r \in Sources : shot.parts[r].batch # 0 => HasBatch(shot.parts[r].batch, r)
    BY <1>0, <1>3, <1>4 DEF BatchInv, BatchIsThere, HasBatch
<1>7. BatchIsThere'
    BY <1>1, <1>4, <1>6, WritesKeep
<1>8. SnapshotTypes' /\ snapshot' = shot /\ cycle'[c] = k
    BY <1>0, <1>1, <1>4 DEF Writes, BatchInv, SnapshotTypes
<1>9. CycleOwns(c)'
    BY <1>0, <1>4, <1>5, <1>8 DEF CycleOwns
<1> QED
    BY <1>0, <1>1, <1>5, <1>7, <1>8, <1>9, OthersStay

LEMMA CompletionKeepsBatches ==
    ASSUME BatchInv, NEW c \in Collectors, CompletesCycle(c)
    PROVE  BatchInv'
<1>0. /\ cycle[c].at = "scan" /\ UNCHANGED <<data, marks, tokens, promoted, flock, time>>
      /\ cycle[c].shot = snapshot /\ flock = {c} /\ snapshot \in Shot /\ time \in Nat
    BY DEF CompletesCycle, BatchInv, CycleOwns, SnapshotTypes, AtWork
<1> DEFINE failed == \E s \in Sources : snapshot.parts[s].attempt = cycle[c].started /\ snapshot.parts[s].failed
           shot == [snapshot EXCEPT !.completed = time, !.error = IF failed THEN "partition" ELSE "none"]
           left == Answered(c, snapshot)
           k == [at |-> "acknowledge", read |-> cycle[c].read, left |-> left]
<1>1. Writes(shot) /\ cycle' = [cycle EXCEPT ![c] = k]
    BY <1>0 DEF CompletesCycle
<1>7. left \subseteq DOMAIN cycle[c].read
    BY DEF Answered
<1> HIDE DEF failed, left
<1>2. shot \in Shot /\ shot.parts = snapshot.parts
    BY <1>0 DEF Shot
<1>3. CycleShape(k) /\ k.at = "acknowledge"
    BY <1>0, <1>7 DEF CycleShape, AtWork, BatchInv
<1> HIDE DEF shot, k
<1>4. BatchIsThere'
    BY <1>1, <1>2, WritesKeep DEF BatchInv, BatchIsThere, HasBatch
<1>5. SnapshotTypes' /\ cycle'[c] = k
    BY <1>0, <1>1, <1>2 DEF Writes, BatchInv, SnapshotTypes
<1>6. CycleOwns(c)'
    BY <1>0, <1>3, <1>5 DEF CycleOwns, AtWork
<1> QED
    BY <1>0, <1>1, <1>3, <1>4, <1>5, <1>6, OthersStay

\* To acknowledge touches marks alone.
LEMMA AcknowledgeKeepsBatches ==
    ASSUME BatchInv, NEW c \in Collectors, Claims(c) \/ Compares(c)
    PROVE  BatchInv'
<1>0. /\ cycle[c].at \in {"acknowledge", "claimed"}
      /\ UNCHANGED <<data, tokens, snapshot, batches, promoted, flock, time>>
    BY DEF Claims, Compares
<1>1. BatchIsThere'
    BY <1>0 DEF BatchInv, BatchIsThere
<1>2. CASE Claims(c)
  <2>0. cycle[c] = [at |-> "acknowledge", read |-> cycle[c].read, left |-> cycle[c].left]
      BY <1>2 DEF Claims, BatchInv, CycleShape
  <2>1. PICK m \in cycle[c].left :
            \/ cycle' = [cycle EXCEPT ![c].left = @ \ {m}] /\ UNCHANGED marks
            \/ /\ marks' = [marks EXCEPT ![m] = 0]
               /\ cycle' = [cycle EXCEPT ![c] = [at |-> "claimed", read |-> @.read, left |-> @.left \ {m},
                                                 claim |-> [key |-> m, token |-> marks[m]]]]
      BY <1>2 DEF Claims
  <2>2. marks' \in [Keys -> Nat]
      BY <2>1 DEF BatchInv, SnapshotTypes
  <2>3. PICK k : /\ cycle' = [cycle EXCEPT ![c] = k]
                 /\ \/ k = [at |-> "acknowledge", read |-> cycle[c].read, left |-> cycle[c].left \ {m}]
                    \/ k = [at |-> "claimed", read |-> cycle[c].read, left |-> cycle[c].left \ {m}, claim |-> [key |-> m, token |-> marks[m]]]
    <3>1. CASE cycle' = [cycle EXCEPT ![c].left = @ \ {m}]
      <4> DEFINE a == [at |-> "acknowledge", read |-> cycle[c].read, left |-> cycle[c].left \ {m}]
      <4>1. [cycle[c] EXCEPT !.left = @ \ {m}] = a
          BY <2>0
      <4>2. cycle' = [cycle EXCEPT ![c] = a]
          BY <3>1, <4>1
      <4> QED
          BY <4>2
    <3> QED
        BY <2>1, <3>1
  <2>4. CycleShape(k) /\ k.at \in {"acknowledge", "claimed"}
    <3>1. DOMAIN cycle[c].read \subseteq Keys /\ cycle[c].left \subseteq DOMAIN cycle[c].read
        BY <1>2 DEF Claims, BatchInv, CycleShape
    <3>2. marks[m] \in Nat
        BY <3>1 DEF BatchInv, SnapshotTypes
    <3> QED
        BY <2>3, <3>1, <3>2 DEF CycleShape, AtWork
  <2>5. SnapshotTypes' /\ cycle'[c] = k
      BY <1>0, <2>2, <2>3 DEF BatchInv, SnapshotTypes
  <2>6. CycleOwns(c)'
      BY <1>0, <2>4, <2>5 DEF CycleOwns, AtWork, BatchInv
  <2> QED
      BY <1>0, <1>1, <2>3, <2>4, <2>5, <2>6, OthersStay
<1>3. CASE Compares(c)
  <2> DEFINE k == [at |-> "acknowledge", read |-> cycle[c].read, left |-> cycle[c].left]
  <2>1. cycle' = [cycle EXCEPT ![c] = k]
      BY <1>3 DEF Compares
  <2>2. marks' = marks \/ (\E m, t : marks' = [marks EXCEPT ![m] = t] /\ t \in Nat)
      BY <1>3 DEF Compares, BatchInv, CycleShape
  <2>3. CycleShape(k) /\ k.at = "acknowledge"
      BY <1>3 DEF Compares, BatchInv, CycleShape, AtWork
  <2> HIDE DEF k
  <2>5. SnapshotTypes' /\ cycle'[c] = k
      BY <1>0, <2>1, <2>2 DEF BatchInv, SnapshotTypes
  <2>6. CycleOwns(c)'
      BY <1>0, <2>3, <2>5 DEF CycleOwns, AtWork, BatchInv
  <2> QED
      BY <1>0, <1>1, <2>1, <2>3, <2>5, <2>6, OthersStay
<1> QED
    BY <1>2, <1>3


LEMMA BatchesStay == BatchInv /\ [SnapshotNext]_snapshotVars => BatchInv'
<1> SUFFICES ASSUME BatchInv, [SnapshotNext]_snapshotVars PROVE BatchInv'
    OBVIOUS
<1>1. CASE UNCHANGED snapshotVars
    BY <1>1 DEF snapshotVars, BatchInv, SnapshotTypes, CycleShape, CycleOwns, BatchIsThere, HasBatch
<1>2. CASE EnsureDirty \/ TimePasses \/ \E s \in Sources : Updates(s) \/ MarkDirty(s)
    BY <1>2, SourcesKeepBatches
<1>3. CASE RecordsFailure
    BY <1>3, FailureKeepsBatches
<1>4. ASSUME NEW c \in Collectors,
             \/ Starts(c) \/ BeginsCycle(c) \/ Discovers(c) \/ Scans(c) \/ SavePartition(c) \/ CompletesCycle(c)
             \/ Claims(c) \/ Compares(c) \/ Unlocks(c) \/ CollectorDies(c)
      PROVE  BatchInv'
    BY <1>4, StartsKeepBatches, BeginKeepsBatches, DiscoveryKeepsBatches, ScanKeepsBatches, CommitKeepsBatches,
       CompletionKeepsBatches, AcknowledgeKeepsBatches, EndsKeepBatches
<1> QED
    BY <1>1, <1>2, <1>3, <1>4 DEF SnapshotNext

\* Whatever dies before its commit, and whatever the sweeps remove, the batch a
\* partition points to is there.
THEOREM BatchesHold == SnapshotSpec => []BatchIsThere
<1>1. SnapshotSpec => []BatchInv
    BY BatchStarts, BatchesStay, PTL DEF SnapshotSpec
<1>2. BatchInv => BatchIsThere
    BY DEF BatchInv
<1> QED
    BY <1>1, <1>2, PTL


-----------------------------------------------------------------------------
(* No change is forgotten.                                                 *)

\* A mark that cycle c has not read asks for s, or will.
Newer(c, s) ==
    \/ s \in unmarked
    \/ marks[s] # 0 /\ marks[s] # cycle[c].read[s]
    \/ \E f \in claims : f.key = s /\ f.token # cycle[c].read[s]

Noted(s) == s \in unmarked \/ marks[s] # 0 \/ \E f \in claims : f.key = s

Behind(s) == data[s] > snapshot.parts[s].seen /\ snapshot.parts[s].success # {}

\* What the cycle of c may take for answered.
Answers(c, s) ==
    \/ /\ cycle[c].at \in {"scan", "commit"} /\ s \in DOMAIN cycle[c].read
       /\ snapshot.parts[s].attempt = snapshot.started /\ ~snapshot.parts[s].failed
    \/ cycle[c].at \in {"acknowledge", "claimed"} /\ s \in cycle[c].left
    \/ cycle[c].at = "claimed" /\ s = cycle[c].claim.key

CycleNotes(c) ==
    /\ cycle[c].at \in {"scan", "commit", "acknowledge", "claimed"} =>
           \A k \in DOMAIN cycle[c].read : cycle[c].read[k] \in 0..tokens
    /\ cycle[c].at = "claimed" => cycle[c].claim.token \in 1..tokens /\ cycle[c].claim.key \notin cycle[c].left
    /\ cycle[c].at = "discover" => \A s \in Sources : snapshot.parts[s].attempt < snapshot.started
    /\ cycle[c].at = "commit" /\ cycle[c].batch # 0 /\ data[cycle[c].of] > cycle[c].seen =>
           /\ Noted(cycle[c].of)
           /\ cycle[c].of \in DOMAIN cycle[c].read => Newer(c, cycle[c].of)
    /\ \A s \in Sources : Answers(c, s) /\ Behind(s) => Newer(c, s)

ChangeParts ==
    /\ \A m \in Keys : marks[m] \in 0..tokens
    /\ \A s \in Sources : snapshot.parts[s].attempt <= snapshot.started
    /\ \A c \in Collectors : CycleNotes(c)
    /\ \A s \in Sources : Behind(s) => Noted(s)

ChangeInv == BatchInv /\ ChangeParts


\* A collector that knows nothing of marks owes nothing.
LEMMA IdleNotes ==
    ASSUME NEW c, cycle[c].at \in {"off", "begin", "release"}
    PROVE  CycleNotes(c)
BY DEF CycleNotes, Answers

LEMMA OthersNote ==
    ASSUME BatchInv, NEW c \in Collectors, cycle[c].at # "off", NEW k, cycle' = [cycle EXCEPT ![c] = k], CycleNotes(c)'
    PROVE  \A d \in Collectors : CycleNotes(d)'
<1> SUFFICES ASSUME NEW d \in Collectors, d # c PROVE CycleNotes(d)'
    OBVIOUS
<1>1. cycle'[d].at = "off"
    BY OneCollector DEF BatchInv, SnapshotTypes
<1> QED
    BY <1>1 DEF CycleNotes, Answers

LEMMA ChangesStart == SnapshotInit => ChangeParts
<1> SUFFICES ASSUME SnapshotInit PROVE ChangeParts
    OBVIOUS
<1>1. \A s \in Sources : snapshot.parts[s] = Pending /\ snapshot.started = 0
    BY DEF SnapshotInit
<1>2. \A c \in Collectors : cycle[c].at = "off"
    BY DEF SnapshotInit
<1> QED
    BY <1>1, <1>2, IdleNotes DEF ChangeParts, Pending, Behind, SnapshotInit, Keys

\* A change of a source, and the marks that come in, are noted before any cycle
\* reads them.
LEMMA SourcesKeepChanges ==
    ASSUME ChangeInv, EnsureDirty \/ TimePasses \/ \E s \in Sources : Updates(s) \/ MarkDirty(s)
    PROVE  ChangeParts'
<1> USE DEF ChangeInv, ChangeParts
<1>1. UNCHANGED <<snapshot, claims, flock, cycle>>
    BY DEF EnsureDirty, TimePasses, Updates, MarkDirty
<1>t. /\ data \in [Sources -> Nat] /\ tokens \in Nat /\ marks \in [Keys -> Nat]
      /\ \A s \in Sources : snapshot.parts[s].seen \in Nat
    BY DEF BatchInv, SnapshotTypes, Shot, Part
<1>2. ASSUME NEW s \in Sources
      PROVE  \/ s \in unmarked'
             \/ (s \in unmarked => s \in unmarked') /\ data'[s] = data[s] /\ marks'[s] = marks[s]
             \/ marks'[s] = tokens + 1
  <2>1. CASE EnsureDirty
      BY <2>1, <1>t DEF EnsureDirty, Keys
  <2>2. CASE TimePasses
      BY <2>2 DEF TimePasses
  <2>3. ASSUME NEW r \in Sources, Updates(r) 
        PROVE  \/ s \in unmarked'
               \/ (s \in unmarked => s \in unmarked') /\ data'[s] = data[s] /\ marks'[s] = marks[s]
    <3>1. CASE r = s
        BY <2>3, <3>1 DEF Updates
    <3>2. CASE r # s
        BY <2>3, <1>t, <3>2 DEF Updates
    <3> QED
        BY <3>1, <3>2
  <2>4. ASSUME NEW r \in Sources, MarkDirty(r)
        PROVE  \/ (s \in unmarked => s \in unmarked') /\ data'[s] = data[s] /\ marks'[s] = marks[s]
               \/ marks'[s] = tokens + 1
      BY <2>4, <1>t DEF MarkDirty, Keys
  <2> QED
      BY <2>1, <2>2, <2>3, <2>4
<1>3. tokens' \in Nat /\ tokens <= tokens'
    BY <1>t DEF EnsureDirty, TimePasses, Updates, MarkDirty
<1>4. ASSUME NEW s \in Sources, Behind(s) => Noted(s) PROVE (Behind(s) => Noted(s))'
    BY <1>1, <1>t, <1>2, <1>4 DEF Behind, Noted
<1>5. ASSUME NEW c \in Collectors, NEW s \in Sources, Answers(c, s)', Behind(s)'
      PROVE  Newer(c, s)'
  <2>1. Answers(c, s) /\ cycle[c].at \in {"scan", "commit", "acknowledge", "claimed"} /\ s \in DOMAIN cycle[c].read
      BY <1>1, <1>5 DEF Answers, BatchInv, CycleShape
  <2>2. cycle[c].read[s] \in 0..tokens
      BY <2>1 DEF CycleNotes
  <2>3. Behind(s) => Newer(c, s)
      BY <2>1 DEF CycleNotes
  <2> QED
      BY <1>1, <1>t, <1>2, <1>5, <2>2, <2>3 DEF Behind, Newer
<1>6. ASSUME NEW c \in Collectors, (cycle[c].at = "commit" /\ cycle[c].batch # 0 /\ data[cycle[c].of] > cycle[c].seen)'
      PROVE  (/\ Noted(cycle[c].of)
              /\ cycle[c].of \in DOMAIN cycle[c].read => Newer(c, cycle[c].of))'
  <2> DEFINE s == cycle[c].of
  <2>1. s \in Sources /\ cycle[c].seen \in Nat /\ cycle[c].at = "commit" /\ cycle[c].batch # 0
      BY <1>1, <1>6 DEF BatchInv, CycleShape
  <2>2. data[s] > cycle[c].seen => Noted(s) /\ (s \in DOMAIN cycle[c].read => Newer(c, s))
      BY <2>1 DEF CycleNotes
  <2>3. s \in DOMAIN cycle[c].read => cycle[c].read[s] \in 0..tokens
      BY <2>1 DEF CycleNotes
  <2>4. Noted(s)'
      BY <1>1, <1>t, <1>2, <1>6, <2>1, <2>2 DEF Noted
  <2>5. s \in DOMAIN cycle[c].read => Newer(c, s)'
      BY <1>1, <1>t, <1>2, <1>6, <2>1, <2>2, <2>3 DEF Newer
  <2> QED
      BY <1>1, <2>4, <2>5
<1>8. \A m \in Keys : marks'[m] \in 0..tokens'
    BY <1>t DEF EnsureDirty, TimePasses, Updates, MarkDirty
<1>7. ASSUME NEW c \in Collectors PROVE CycleNotes(c)'
  <2>1. (cycle[c].at \in {"scan", "commit", "acknowledge", "claimed"} => \A k \in DOMAIN cycle[c].read : cycle[c].read[k] \in 0..tokens)'
      BY <1>1, <1>t, <1>3 DEF CycleNotes
  <2>2. (cycle[c].at = "discover" => \A s \in Sources : snapshot.parts[s].attempt < snapshot.started)'
      BY <1>1 DEF CycleNotes
  <2>3. (cycle[c].at = "claimed" => cycle[c].claim.token \in 1..tokens /\ cycle[c].claim.key \notin cycle[c].left)'
      BY <1>1, <1>t, <1>3 DEF CycleNotes
  <2> QED
      BY <2>1, <2>2, <2>3, <1>5, <1>6 DEF CycleNotes
<1> QED
    BY <1>1, <1>4, <1>7, <1>8 DEF ChangeParts

LEMMA EndsKeepChanges ==
    ASSUME ChangeInv, NEW c \in Collectors, Starts(c) \/ Unlocks(c) \/ CollectorDies(c)
    PROVE  ChangeParts'
<1>1. UNCHANGED <<data, unmarked, marks, tokens, claims, snapshot>>
    BY DEF Starts, Unlocks, CollectorDies
<1>2. cycle'[c].at \in {"off", "begin"} /\ \A d \in Collectors : d # c => cycle'[d] = cycle[d]
    BY DEF Starts, Unlocks, CollectorDies, ChangeInv, BatchInv, SnapshotTypes
<1>3. ASSUME NEW d \in Collectors PROVE CycleNotes(d)'
  <2>2. cycle'[d].at \in {"off", "begin"}
    <3>1. CASE Starts(c)
        BY <3>1, <1>2 DEF Starts, ChangeInv, BatchInv, CycleOwns
    <3>2. CASE Unlocks(c) \/ CollectorDies(c)
        BY <3>2, <1>2, OneCollector DEF Unlocks, CollectorDies, ChangeInv
    <3> QED
        BY <3>1, <3>2
  <2> QED
      BY <2>2 DEF CycleNotes, Answers
<1>4. \A s \in Sources : (Behind(s) => Noted(s))'
    BY <1>1 DEF ChangeInv, ChangeParts, Behind, Noted
<1> QED
    BY <1>1, <1>3, <1>4 DEF ChangeParts, ChangeInv


LEMMA FailureKeepsChanges ==
    ASSUME ChangeInv, RecordsFailure
    PROVE  ChangeParts'
<1> USE DEF ChangeInv, ChangeParts
<1>0. UNCHANGED <<data, unmarked, marks, tokens, claims, cycle>>
    BY DEF RecordsFailure
<1>1. CASE snapshot' = snapshot
    BY <1>0, <1>1 DEF ChangeParts, CycleNotes, Answers, Behind, Noted, Newer
<1>2. CASE snapshot' # snapshot
  <2>1. flock = {} /\ \A s \in Sources : /\ snapshot'.parts[s].attempt = snapshot.parts[s].attempt
                                         /\ snapshot'.parts[s].seen = snapshot.parts[s].seen
                                         /\ snapshot'.parts[s].success = snapshot.parts[s].success
                        /\ snapshot'.started = snapshot.started
    <3>1. snapshot.parts \in [Sources -> Part] /\ snapshot \in Shot
        BY DEF BatchInv, SnapshotTypes, Shot
    <3> DEFINE parts == [s \in Sources |-> IF snapshot.parts[s].attempt = snapshot.started /\ snapshot.parts[s].success = {}
                                           THEN [snapshot.parts[s] EXCEPT !.failed = TRUE] ELSE snapshot.parts[s]]
    <3>2. flock = {} /\ snapshot' = [snapshot EXCEPT !.completed = time, !.error = "interrupted", !.parts = parts]
        BY <1>2 DEF RecordsFailure, Writes
    <3>3. \A s \in Sources : /\ parts[s].attempt = snapshot.parts[s].attempt /\ parts[s].seen = snapshot.parts[s].seen
                             /\ parts[s].success = snapshot.parts[s].success
        BY <3>1 DEF Part
    <3> HIDE DEF parts
    <3>4. snapshot'.parts = parts /\ snapshot'.started = snapshot.started
        BY <3>1, <3>2 DEF Shot
    <3> QED
        BY <3>2, <3>3, <3>4
  <2>2. \A c \in Collectors : CycleNotes(c)'
    <3> SUFFICES ASSUME NEW c \in Collectors PROVE CycleNotes(c)'
        OBVIOUS
    <3>1. cycle'[c].at = "off"
        BY <1>0, <2>1 DEF BatchInv, CycleOwns
    <3> QED
        BY <3>1 DEF CycleNotes, Answers
  <2>3. \A s \in Sources : (Behind(s) => Noted(s))'
      BY <1>0, <2>1 DEF Behind, Noted
  <2> QED
      BY <1>0, <2>1, <2>2, <2>3 DEF ChangeParts
<1> QED
    BY <1>1, <1>2

LEMMA BeginKeepsChanges ==
    ASSUME ChangeInv, NEW c \in Collectors, BeginsCycle(c)
    PROVE  ChangeParts'
<1> USE DEF ChangeInv, ChangeParts
<1>0. UNCHANGED <<data, unmarked, marks, tokens, claims>> /\ cycle[c].at # "off"
    BY DEF BeginsCycle
<1>1. snapshot'.parts = snapshot.parts /\ snapshot'.started = time /\ time > snapshot.started /\ time \in Nat
    BY DEF BeginsCycle, Writes, BatchInv, SnapshotTypes, Shot
<1>2. PICK k : k.at = "discover" /\ cycle' = [cycle EXCEPT ![c] = k]
  <2> DEFINE w == [at |-> "discover", started |-> time, shot |-> [snapshot EXCEPT !.started = time, !.error = "none"]]
  <2>1. w.at = "discover" /\ cycle' = [cycle EXCEPT ![c] = w]
      BY DEF BeginsCycle
  <2> HIDE DEF w
  <2> QED
      BY <2>1
<1>3. \A s \in Sources : snapshot.parts[s].attempt \in Nat /\ snapshot.started \in Nat
    BY DEF BatchInv, SnapshotTypes, Shot, Part
<1>4. \A s \in Sources : snapshot'.parts[s].attempt < snapshot'.started
    BY <1>1, <1>3
<1>5. cycle'[c] = k
    BY <1>2 DEF BatchInv, SnapshotTypes
<1>6. CycleNotes(c)'
    BY <1>2, <1>4, <1>5 DEF CycleNotes, Answers
<1>7. \A s \in Sources : (Behind(s) => Noted(s))'
    BY <1>0, <1>1 DEF Behind, Noted
<1>8. \A d \in Collectors : CycleNotes(d)'
    BY <1>0, <1>2, <1>6, OthersNote
<1>9. \A s \in Sources : snapshot'.parts[s].attempt <= snapshot'.started
    BY <1>1, <1>3, <1>4
<1> QED
    BY <1>0, <1>7, <1>8, <1>9 DEF ChangeParts

\* A cycle reads the marks before its scans, and nothing counts as scanned yet.
LEMMA DiscoveryKeepsChanges ==
    ASSUME ChangeInv, NEW c \in Collectors, Discovers(c)
    PROVE  ChangeParts'
<1> USE DEF ChangeInv, ChangeParts
<1>0. /\ UNCHANGED <<data, unmarked, marks, tokens, claims>> /\ cycle[c].at = "discover"
      /\ cycle[c].shot = snapshot /\ cycle[c].started = snapshot.started /\ snapshot \in Shot
      /\ snapshot.parts \in [Sources -> Part] /\ marks \in [Keys -> Nat] /\ tokens \in Nat /\ DOMAIN cycle = Collectors
    BY DEF Discovers, BatchInv, CycleOwns, SnapshotTypes, AtWork, Shot
<1>d. \A s \in Sources : snapshot.parts[s].attempt < snapshot.started
    BY <1>0 DEF CycleNotes
<1>1. CASE /\ Writes([cycle[c].shot EXCEPT !.completed = cycle[c].started, !.error = "discovery"])
           /\ cycle' = [cycle EXCEPT ![c] = [at |-> "release"]]
  <2>1. snapshot'.parts = snapshot.parts /\ snapshot'.started = snapshot.started
      BY <1>0, <1>1 DEF Writes, Shot
  <2>2. cycle'[c].at = "release"
      BY <1>0, <1>1
  <2>3. CycleNotes(c)'
      BY <2>2 DEF CycleNotes, Answers
  <2>4. \A s \in Sources : (Behind(s) => Noted(s))'
      BY <1>0, <2>1 DEF Behind, Noted
  <2> QED
      BY <1>0, <1>1, <2>1, <2>3, <2>4, OthersNote DEF ChangeParts
<1>2. CASE LET present == {k \in Keys : marks[k] # 0}
               read == [k \in present |-> marks[k]]
               shot == [cycle[c].shot EXCEPT !.parts =
                         [s \in Sources |-> IF @[s] = Pending THEN [Pending EXCEPT !.attempt = cycle[c].started] ELSE @[s]]]
           IN  /\ Writes(shot)
               /\ cycle' = [cycle EXCEPT ![c] = [at |-> "scan", started |-> @.started, shot |-> shot, read |-> read,
                                                 due |-> Due(shot, read)]]
  <2> DEFINE read == [k \in {k \in Keys : marks[k] # 0} |-> marks[k]]
             parts == [s \in Sources |-> IF snapshot.parts[s] = Pending THEN [Pending EXCEPT !.attempt = snapshot.started]
                                                                        ELSE snapshot.parts[s]]
             shot == [snapshot EXCEPT !.parts = parts]
             due == Due(shot, read)
             k == [at |-> "scan", started |-> snapshot.started, shot |-> shot, read |-> read, due |-> due]
  <2>1. snapshot' = shot /\ cycle' = [cycle EXCEPT ![c] = k]
      BY <1>0, <1>2 DEF Writes
  <2>3. \A s \in Sources : \/ parts[s] = snapshot.parts[s]
                           \/ parts[s].success = {} /\ parts[s].attempt = snapshot.started /\ snapshot.started \in Nat
      BY <1>0 DEF Pending, Shot
  <2>4. \A m \in DOMAIN read : read[m] \in 0..tokens
      BY <1>0
  <2> HIDE DEF parts, read, due
  <2>5. shot.parts = parts /\ shot.started = snapshot.started
      BY <1>0 DEF Shot
  <2>6. k.at = "scan" /\ k.read = read
      OBVIOUS
  <2> HIDE DEF shot, k
  <2>7. cycle'[c] = k
      BY <1>0, <2>1
  <2>8. \A s \in Sources : Behind(s)' => Behind(s) /\ snapshot'.parts[s].attempt < snapshot'.started
      BY <1>0, <1>d, <2>1, <2>3, <2>5 DEF Behind
  <2>9. \A s \in Sources : ~(Answers(c, s) /\ Behind(s))'
    <3> SUFFICES ASSUME NEW s \in Sources, Answers(c, s)', Behind(s)' PROVE FALSE
        OBVIOUS
    <3>1. snapshot'.parts[s].attempt = snapshot'.started
        BY <2>6, <2>7 DEF Answers
    <3>2. snapshot'.started \in Nat
        BY <1>0, <2>1, <2>5 DEF Shot
    <3> QED
        BY <2>8, <3>1, <3>2
  <2>10. CycleNotes(c)'
      BY <1>0, <2>4, <2>6, <2>7, <2>9 DEF CycleNotes
  <2>11. \A s \in Sources : (Behind(s) => Noted(s))'
      BY <1>0, <2>8 DEF Noted
  <2>12. \A s \in Sources : snapshot'.parts[s].attempt <= snapshot'.started
      BY <2>1, <2>3, <2>5
  <2> QED
      BY <1>0, <2>1, <2>10, <2>11, <2>12, OthersNote DEF ChangeParts
<1> QED
    BY <1>1, <1>2 DEF Discovers


\* What a scan read of its source was all there was.
LEMMA ScanKeepsChanges ==
    ASSUME ChangeInv, NEW c \in Collectors, Scans(c)
    PROVE  ChangeParts'
<1> USE DEF ChangeInv, ChangeParts
<1>0. /\ UNCHANGED <<data, unmarked, marks, tokens, claims, snapshot>> /\ cycle[c].at = "scan"
      /\ cycle[c].due \subseteq Sources /\ data \in [Sources -> Nat] /\ DOMAIN cycle = Collectors
    BY DEF Scans, BatchInv, SnapshotTypes, CycleShape
<1>1. PICK s \in cycle[c].due, good \in BOOLEAN :
         cycle' = [cycle EXCEPT ![c] = [at |-> "commit", started |-> @.started, shot |-> @.shot, read |-> @.read, due |-> @.due,
                                        of |-> s, seen |-> IF good THEN data[s] ELSE 0, batch |-> IF good THEN promoted' ELSE 0]]
    BY DEF Scans
<1>2. /\ cycle'[c].at = "commit" /\ cycle'[c].read = cycle[c].read /\ cycle'[c].of = s
      /\ cycle'[c].batch # 0 => cycle'[c].seen = data[s]
    BY <1>0, <1>1
<1>3. ASSUME NEW r \in Sources, Answers(c, r)', Behind(r)' PROVE Newer(c, r)'
  <2>1. Answers(c, r) /\ Behind(r)
      BY <1>0, <1>2, <1>3 DEF Answers, Behind
  <2>2. Newer(c, r)
      BY <2>1 DEF CycleNotes
  <2> QED
      BY <1>0, <1>2, <2>2 DEF Newer
<1>4. ~(data[s] > data[s])
    BY <1>0
<1>5. CycleNotes(c)'
    BY <1>0, <1>2, <1>3, <1>4 DEF CycleNotes
<1>6. PICK k : cycle' = [cycle EXCEPT ![c] = k]
    BY <1>1
<1>7. \A d \in Collectors : CycleNotes(d)'
    BY <1>0, <1>5, <1>6, OthersNote
<1> QED
    BY <1>0, <1>7 DEF Behind, Noted

LEMMA CommitKeepsChanges ==
    ASSUME ChangeInv, NEW c \in Collectors, SavePartition(c)
    PROVE  ChangeParts'
<1> USE DEF ChangeInv, ChangeParts
<1>0. /\ cycle[c].at = "commit" /\ UNCHANGED <<data, unmarked, marks, tokens, claims>>
      /\ cycle[c].shot = snapshot /\ cycle[c].started = snapshot.started /\ snapshot \in Shot
      /\ cycle[c].of \in Sources /\ cycle[c].seen \in Nat /\ cycle[c].batch \in Nat /\ DOMAIN cycle = Collectors
    BY DEF SavePartition, BatchInv, CycleOwns, CycleShape, SnapshotTypes, AtWork
<1> DEFINE s == cycle[c].of
           part == IF cycle[c].batch # 0
                   THEN [seen |-> cycle[c].seen, success |-> {time}, attempt |-> snapshot.started, failed |-> FALSE,
                         batch |-> cycle[c].batch]
                   ELSE [snapshot.parts[s] EXCEPT !.attempt = snapshot.started, !.failed = TRUE]
           shot == [snapshot EXCEPT !.parts[s] = part]
           k == [at |-> "scan", started |-> snapshot.started, shot |-> shot, read |-> cycle[c].read, due |-> cycle[c].due \ {s}]
<1>1. snapshot' = shot /\ cycle' = [cycle EXCEPT ![c] = k]
    BY <1>0 DEF SavePartition, Writes
<1>2. snapshot.parts \in [Sources -> Part] /\ snapshot.started \in Nat
    BY <1>0 DEF Shot
<1>p. snapshot.parts[s] \in Part
    BY <1>0, <1>2
<1>3. /\ part.attempt = snapshot.started
      /\ \/ cycle[c].batch # 0 /\ part.seen = cycle[c].seen
         \/ part.failed = TRUE /\ part.seen = snapshot.parts[s].seen /\ part.success = snapshot.parts[s].success
    BY <1>0, <1>p DEF Part
<1> HIDE DEF part
<1>4. shot.started = snapshot.started /\ \A r \in Sources : shot.parts[r] = IF r = s THEN part ELSE snapshot.parts[r]
    BY <1>0, <1>2 DEF Shot
<1>5. k.at = "scan" /\ k.read = cycle[c].read
    OBVIOUS
<1> HIDE DEF shot, k
<1>6. cycle'[c] = k
    BY <1>0, <1>1
<1>7. ASSUME NEW r \in Sources, Behind(r)' PROVE Noted(r)' /\ (Answers(c, r)' => Newer(c, r)')
  <2>0. ASSUME Newer(c, r) PROVE Newer(c, r)'
      BY <1>0, <1>5, <1>6, <2>0 DEF Newer
  <2>1. CASE r = s
    <3>1. CASE cycle[c].batch # 0 /\ part.seen = cycle[c].seen
      <4>1. data[s] > cycle[c].seen
          BY <1>0, <1>1, <1>4, <1>7, <2>1, <3>1 DEF Behind
      <4>2. Noted(s) /\ (s \in DOMAIN cycle[c].read => Newer(c, s))
          BY <1>0, <3>1, <4>1 DEF CycleNotes
      <4>3. Answers(c, r)' => s \in DOMAIN cycle[c].read
          BY <1>5, <1>6, <2>1 DEF Answers
      <4> QED
          BY <1>0, <2>0, <2>1, <4>2, <4>3 DEF Noted
    <3>2. CASE part.failed = TRUE /\ part.seen = snapshot.parts[s].seen /\ part.success = snapshot.parts[s].success
      <4>1. Behind(s)
          BY <1>0, <1>1, <1>4, <1>7, <2>1, <3>2 DEF Behind
      <4>2. ~Answers(c, r)'
          BY <1>1, <1>4, <1>5, <1>6, <2>1, <3>2 DEF Answers
      <4> QED
          BY <1>0, <2>1, <4>1, <4>2 DEF Noted
    <3> QED
        BY <1>3, <3>1, <3>2
  <2>2. CASE r # s
    <3>1. Behind(r) /\ (Answers(c, r)' => Answers(c, r))
        BY <1>0, <1>1, <1>4, <1>5, <1>6, <1>7, <2>2 DEF Behind, Answers
    <3>2. Noted(r) /\ (Answers(c, r)' => Newer(c, r))
        BY <3>1 DEF CycleNotes
    <3> QED
        BY <1>0, <2>0, <3>2 DEF Noted
  <2> QED
      BY <2>1, <2>2
<1>8. CycleNotes(c)'
    BY <1>0, <1>5, <1>6, <1>7 DEF CycleNotes
<1>9. \A r \in Sources : snapshot'.parts[r].attempt <= snapshot'.started
    BY <1>1, <1>2, <1>3, <1>4
<1>10. \A d \in Collectors : CycleNotes(d)'
    BY <1>0, <1>1, <1>8, OthersNote
<1> QED
    BY <1>0, <1>7, <1>9, <1>10

\* A mark is taken for answered only if its source was scanned well in this cycle.
LEMMA CompletionKeepsChanges ==
    ASSUME ChangeInv, NEW c \in Collectors, CompletesCycle(c)
    PROVE  ChangeParts'
<1> USE DEF ChangeInv, ChangeParts
<1>0. /\ cycle[c].at = "scan" /\ UNCHANGED <<data, unmarked, marks, tokens, claims>>
      /\ cycle[c].shot = snapshot /\ cycle[c].started = snapshot.started /\ snapshot \in Shot /\ DOMAIN cycle = Collectors
    BY DEF CompletesCycle, BatchInv, CycleOwns, SnapshotTypes, AtWork
<1> DEFINE failed == \E s \in Sources : snapshot.parts[s].attempt = cycle[c].started /\ snapshot.parts[s].failed
           left == Answered(c, snapshot)
           k == [at |-> "acknowledge", read |-> cycle[c].read, left |-> left]
<1>1. /\ snapshot' = [snapshot EXCEPT !.completed = time, !.error = IF failed THEN "partition" ELSE "none"]
      /\ cycle' = [cycle EXCEPT ![c] = k]
    BY <1>0 DEF CompletesCycle, Writes
<1> HIDE DEF failed
<1>2. snapshot'.parts = snapshot.parts /\ snapshot'.started = snapshot.started
    BY <1>0, <1>1 DEF Shot
<1>3. \A s \in Sources : s \in left => Answers(c, s)
    BY <1>0 DEF Answered, Fresh, Answers
<1> HIDE DEF left
<1>4. k.at = "acknowledge" /\ k.read = cycle[c].read /\ k.left = left
    OBVIOUS
<1> HIDE DEF k
<1>5. cycle'[c] = k
    BY <1>0, <1>1
<1>6. ASSUME NEW s \in Sources, Answers(c, s)', Behind(s)' PROVE Newer(c, s)'
  <2>1. Answers(c, s) /\ Behind(s)
      BY <1>0, <1>2, <1>3, <1>4, <1>5, <1>6 DEF Answers, Behind
  <2>2. Newer(c, s)
      BY <2>1 DEF CycleNotes
  <2> QED
      BY <1>0, <1>4, <1>5, <2>2 DEF Newer
<1>7. CycleNotes(c)'
    BY <1>0, <1>4, <1>5, <1>6 DEF CycleNotes
<1>8. \A d \in Collectors : CycleNotes(d)'
    BY <1>0, <1>1, <1>7, OthersNote
<1> QED
    BY <1>0, <1>2, <1>8 DEF Behind, Noted


\* A claim says as much as the mark it was.
LEMMA ClaimKeepsChanges ==
    ASSUME ChangeInv, NEW c \in Collectors, Claims(c)
    PROVE  ChangeParts'
<1> USE DEF ChangeInv, ChangeParts
<1>0. /\ UNCHANGED <<data, unmarked, tokens, snapshot>> /\ cycle[c].at = "acknowledge"
      /\ marks \in [Keys -> Nat] /\ tokens \in Nat /\ DOMAIN cycle = Collectors
      /\ DOMAIN cycle[c].read \subseteq Keys /\ cycle[c].left \subseteq DOMAIN cycle[c].read
      /\ cycle[c] = [at |-> "acknowledge", read |-> cycle[c].read, left |-> cycle[c].left]
    BY DEF Claims, BatchInv, SnapshotTypes, CycleShape
<1>1. PICK m \in cycle[c].left :
         \/ cycle' = [cycle EXCEPT ![c].left = @ \ {m}] /\ UNCHANGED <<marks, claims>>
         \/ /\ marks[m] # 0 /\ marks' = [marks EXCEPT ![m] = 0] /\ claims' = claims \cup {[key |-> m, token |-> marks[m]]}
            /\ cycle' = [cycle EXCEPT ![c] = [at |-> "claimed", read |-> @.read, left |-> @.left \ {m},
                                              claim |-> [key |-> m, token |-> marks[m]]]]
    BY DEF Claims
<1>2. m \in Keys /\ marks[m] \in 0..tokens
    BY <1>0
<1>3. CASE cycle' = [cycle EXCEPT ![c].left = @ \ {m}] /\ UNCHANGED <<marks, claims>>
  <2> DEFINE a == [at |-> "acknowledge", read |-> cycle[c].read, left |-> cycle[c].left \ {m}]
  <2>1. [cycle[c] EXCEPT !.left = @ \ {m}] = a
      BY <1>0
  <2>2. cycle' = [cycle EXCEPT ![c] = a]
      BY <1>3, <2>1
  <2>3. a.at = "acknowledge" /\ a.read = cycle[c].read /\ a.left \subseteq cycle[c].left
      OBVIOUS
  <2> HIDE DEF a
  <2>4. cycle'[c] = a
      BY <1>0, <2>2
  <2>5. ASSUME NEW s \in Sources, Answers(c, s)', Behind(s)' PROVE Newer(c, s)'
    <3>1. Answers(c, s) /\ Behind(s)
        BY <1>0, <2>3, <2>4, <2>5 DEF Answers, Behind
    <3>2. Newer(c, s)
        BY <3>1 DEF CycleNotes
    <3> QED
        BY <1>0, <1>3, <2>3, <2>4, <3>2 DEF Newer
  <2>6. CycleNotes(c)'
      BY <1>0, <2>3, <2>4, <2>5 DEF CycleNotes
  <2>7. \A d \in Collectors : CycleNotes(d)'
      BY <1>0, <2>2, <2>6, OthersNote
  <2> QED
      BY <1>0, <1>3, <2>7 DEF Behind, Noted
<1>4. CASE /\ marks[m] # 0 /\ marks' = [marks EXCEPT ![m] = 0] /\ claims' = claims \cup {[key |-> m, token |-> marks[m]]}
           /\ cycle' = [cycle EXCEPT ![c] = [at |-> "claimed", read |-> @.read, left |-> @.left \ {m},
                                             claim |-> [key |-> m, token |-> marks[m]]]]
  <2> DEFINE f == [key |-> m, token |-> marks[m]]
             k == [at |-> "claimed", read |-> cycle[c].read, left |-> cycle[c].left \ {m}, claim |-> f]
  <2>1. cycle' = [cycle EXCEPT ![c] = k] /\ claims' = claims \cup {f}
      BY <1>4
  <2>2. f.key = m /\ f.token = marks[m]
      OBVIOUS
  <2> HIDE DEF f
  <2>3. k.at = "claimed" /\ k.read = cycle[c].read /\ k.left = cycle[c].left \ {m} /\ k.claim = f
      OBVIOUS
  <2> HIDE DEF k
  <2>4. cycle'[c] = k
      BY <1>0, <2>1
  <2>5. ASSUME NEW s \in Sources PROVE (Noted(s) => Noted(s)') /\ (Newer(c, s) => Newer(c, s)')
    <3>1. CASE s = m
        BY <1>0, <1>2, <2>1, <2>2, <2>3, <2>4, <3>1 DEF Noted, Newer
    <3>2. CASE s # m
      <4>1. marks'[s] = marks[s]
          BY <1>0, <1>4, <3>2 DEF Keys
      <4> QED
          BY <1>0, <2>1, <2>3, <2>4, <4>1 DEF Noted, Newer
    <3> QED
        BY <3>1, <3>2
  <2>6. ASSUME NEW s \in Sources, Answers(c, s)', Behind(s)' PROVE Newer(c, s)'
    <3>1. Answers(c, s) /\ Behind(s)
        BY <1>0, <2>2, <2>3, <2>4, <2>6 DEF Answers, Behind
    <3> QED
        BY <2>5, <3>1 DEF CycleNotes
  <2>7. CycleNotes(c)'
      BY <1>0, <1>2, <1>4, <2>2, <2>3, <2>4, <2>6 DEF CycleNotes
  <2>8. \A d \in Collectors : CycleNotes(d)'
      BY <1>0, <2>1, <2>7, OthersNote
  <2>9. \A k1 \in Keys : marks'[k1] \in 0..tokens'
      BY <1>0, <1>4
  <2> QED
      BY <1>0, <2>5, <2>8, <2>9 DEF Behind
<1> QED
    BY <1>1, <1>3, <1>4

\* What is newer than the scans is put back, or something newer still is there.
LEMMA CompareKeepsChanges ==
    ASSUME ChangeInv, NEW c \in Collectors, Compares(c)
    PROVE  ChangeParts'
<1> USE DEF ChangeInv, ChangeParts
<1> DEFINE f == cycle[c].claim
           k == [at |-> "acknowledge", read |-> cycle[c].read, left |-> cycle[c].left]
<1>0. /\ UNCHANGED <<data, unmarked, tokens, snapshot>> /\ cycle[c].at = "claimed"
      /\ marks \in [Keys -> Nat] /\ tokens \in Nat /\ DOMAIN cycle = Collectors
      /\ DOMAIN cycle[c].read \subseteq Keys /\ f.key \in DOMAIN cycle[c].read
    BY DEF Compares, BatchInv, SnapshotTypes, CycleShape
<1>1. /\ marks' = IF f.token # cycle[c].read[f.key] /\ marks[f.key] = 0 THEN [marks EXCEPT ![f.key] = f.token] ELSE marks
      /\ claims' = claims \ {f} /\ cycle' = [cycle EXCEPT ![c] = k]
    BY DEF Compares
<1>2. f.token \in 1..tokens /\ f.key \notin cycle[c].left
    BY <1>0 DEF CycleNotes
<1>3. k.at = "acknowledge" /\ k.read = cycle[c].read /\ k.left = cycle[c].left
    OBVIOUS
<1> HIDE DEF f, k
<1>4. cycle'[c] = k
    BY <1>0, <1>1
<1>5. ASSUME NEW s \in Sources, s # f.key PROVE marks'[s] = marks[s] /\ \A g \in claims : g.key = s => g \in claims'
    BY <1>0, <1>1, <1>5 DEF Keys
<1>6. ASSUME NEW s \in Sources, Behind(s) PROVE Noted(s)' /\ (Answers(c, s)' => Newer(c, s)')
  <2>1. CASE s = f.key
    <3>1. Newer(c, s)
        BY <1>0, <1>6, <2>1 DEF CycleNotes, Answers, f
    <3>2. Noted(s)'
      <4>1. CASE f.token # cycle[c].read[s] /\ marks[s] = 0
          BY <1>0, <1>1, <1>2, <2>1, <4>1 DEF Noted
      <4>2. CASE marks[s] # 0
          BY <1>0, <1>1, <2>1, <4>2 DEF Noted
      <4>3. CASE f.token = cycle[c].read[s]
          BY <1>0, <1>1, <2>1, <3>1, <4>3 DEF Noted, Newer
      <4> QED
          BY <4>1, <4>2, <4>3
    <3>3. ~Answers(c, s)'
        BY <1>2, <1>3, <1>4, <2>1 DEF Answers
    <3> QED
        BY <3>2, <3>3
  <2>2. CASE s # f.key
    <3>1. Noted(s)'
        BY <1>0, <1>5, <1>6, <2>2 DEF Noted
    <3>2. Answers(c, s)' => Answers(c, s)
        BY <1>0, <1>3, <1>4 DEF Answers
    <3>3. Answers(c, s) => Newer(c, s)
        BY <1>6 DEF CycleNotes
    <3>4. Newer(c, s) => Newer(c, s)'
        BY <1>0, <1>3, <1>4, <1>5, <2>2 DEF Newer
    <3> QED
        BY <3>1, <3>2, <3>3, <3>4
  <2> QED
      BY <2>1, <2>2
<1>7. \A s \in Sources : Behind(s)' => Behind(s)
    BY <1>0 DEF Behind
<1>8. CycleNotes(c)'
    BY <1>0, <1>3, <1>4, <1>6, <1>7 DEF CycleNotes
<1>9. \A d \in Collectors : CycleNotes(d)'
    BY <1>0, <1>1, <1>8, OthersNote
<1>10. \A k1 \in Keys : marks'[k1] \in 0..tokens'
    BY <1>0, <1>1, <1>2
<1> QED
    BY <1>0, <1>6, <1>7, <1>9, <1>10

LEMMA ChangesStay == ChangeInv /\ [SnapshotNext]_snapshotVars => ChangeInv'
<1> SUFFICES ASSUME ChangeInv, [SnapshotNext]_snapshotVars PROVE ChangeParts'
    BY BatchesStay DEF ChangeInv
<1>1. CASE UNCHANGED snapshotVars
    BY <1>1 DEF snapshotVars, ChangeInv, ChangeParts, CycleNotes, Answers, Behind, Noted, Newer
<1>2. CASE EnsureDirty \/ TimePasses \/ \E s \in Sources : Updates(s) \/ MarkDirty(s)
    BY <1>2, SourcesKeepChanges
<1>3. CASE RecordsFailure
    BY <1>3, FailureKeepsChanges
<1>4. ASSUME NEW c \in Collectors,
             \/ Starts(c) \/ BeginsCycle(c) \/ Discovers(c) \/ Scans(c) \/ SavePartition(c) \/ CompletesCycle(c)
             \/ Claims(c) \/ Compares(c) \/ Unlocks(c) \/ CollectorDies(c)
      PROVE  ChangeParts'
    BY <1>4, EndsKeepChanges, BeginKeepsChanges, DiscoveryKeepsChanges, ScanKeepsChanges, CommitKeepsChanges,
       CompletionKeepsChanges, ClaimKeepsChanges, CompareKeepsChanges
<1> QED
    BY <1>1, <1>2, <1>3, <1>4 DEF SnapshotNext

\* What changed since the last good scan of its source has a mark, is about to get
\* one, or has it in the hands of whoever acknowledges.
THEOREM ChangesAreNoted == SnapshotSpec => []NoChangeForgotten
<1>1. SnapshotSpec => []ChangeInv
    BY BatchStarts, ChangesStart, ChangesStay, PTL DEF SnapshotSpec, ChangeInv
<1>2. ChangeInv => NoChangeForgotten
    BY DEF ChangeInv, ChangeParts, NoChangeForgotten, Behind, Noted
<1> QED
    BY <1>1, <1>2, PTL

-----------------------------------------------------------------------------
(* Histories.                                                              *)

LEMMA LeastNumber == ASSUME NEW S \in SUBSET Nat, S # {} PROVE \E m \in S : \A n \in S : m <= n
<1>1. PICK m \in S : \A n \in S : <<n, m>> \notin OpToRel(<, Nat)
  BY NatLessThanWellFounded, WFMin
<1>2. \A n \in S : ~(n < m)
  BY <1>1 DEF OpToRel
<1>q. QED BY <1>2

-----------------------------------------------------------------------------
(* What stands at chosen places of a text.                                 *)

\* The function that the model's recursion defines, as far as n.
IsPick(g, text, K, n) ==
    g = [i \in 0..n |-> IF i = 0 THEN << >> ELSE IF i \in K THEN Append(g[i - 1], text[i]) ELSE g[i - 1]]

Pick(text, K) == CHOOSE g : IsPick(g, text, K, Len(text))

LEMMA PicksIsPick == ASSUME NEW text, NEW K PROVE Picks(text, K) = Pick(text, K)
BY DEF Picks, Pick, IsPick

LEMMA PickExists ==
    ASSUME NEW text, NEW K, NEW N \in Nat
    PROVE  \E g : IsPick(g, text, K, N)
<1> DEFINE F == {n \in 0..N : ~ \E g : IsPick(g, text, K, n)}
<1> SUFFICES ASSUME F # {} PROVE FALSE
  OBVIOUS
<1>1. F \in SUBSET Nat
  OBVIOUS
<1>2. PICK n \in F : \A i \in F : n <= i
  <2> HIDE DEF F
  <2>q. QED BY <1>1, LeastNumber
<1>3. n \in 0..N /\ ~ \E g : IsPick(g, text, K, n)
  BY <1>2
<1>4. CASE n = 0
  <2> DEFINE g == [i \in 0..0 |-> << >>]
  <2>1. IsPick(g, text, K, 0)
    BY DEF IsPick
  <2>q. QED BY <1>3, <1>4, <2>1
<1>5. CASE n # 0
  <2>1. n - 1 \in 0..N /\ n - 1 \notin F
    BY <1>2, <1>3, <1>5
  <2>2. PICK g : IsPick(g, text, K, n - 1)
    BY <2>1
  <2> DEFINE f == [i \in 0..n |-> IF i < n THEN g[i] ELSE IF i \in K THEN Append(g[i - 1], text[i]) ELSE g[i - 1]]
  <2> DEFINE e(i) == IF i = 0 THEN << >> ELSE IF i \in K THEN Append(f[i - 1], text[i]) ELSE f[i - 1]
  <2>3. ASSUME NEW i \in 0..n PROVE f[i] = e(i)
    <3>1. i # 0 => i - 1 \in 0..n /\ i - 1 < n /\ f[i - 1] = g[i - 1]
      BY <1>3
    <3>2. CASE i < n
      <4>1. i \in 0..(n - 1) /\ f[i] = g[i]
        BY <1>3, <3>2
      <4>2. g[i] = IF i = 0 THEN << >> ELSE IF i \in K THEN Append(g[i - 1], text[i]) ELSE g[i - 1]
        BY <2>2, <4>1 DEF IsPick
      <4>q. QED BY <3>1, <4>1, <4>2
    <3>3. CASE i = n
      <4>1. f[i] = IF i \in K THEN Append(g[i - 1], text[i]) ELSE g[i - 1]
        BY <3>3, <1>3
      <4>q. QED BY <3>1, <3>3, <4>1, <1>5
    <3>q. QED BY <3>2, <3>3, <1>3
  <2>4. f = [i \in 0..n |-> e(i)]
    <3> DEFINE k == [i \in 0..n |-> e(i)]
    <3>1. \A i \in 0..n : k[i] = e(i)
      OBVIOUS
    <3> HIDE DEF e
    <3>q. QED BY <2>3
  <2>5. IsPick(f, text, K, n)
    <3> HIDE DEF f
    <3>q. QED BY <2>4 DEF IsPick
  <2>q. QED BY <1>3, <2>5
<1>q. QED BY <1>4, <1>5

LEMMA PicksAre ==
    ASSUME NEW text, NEW K, Len(text) \in Nat
    PROVE  /\ Picks(text, K)[0] = << >>
           /\ \A i \in 1..Len(text) : Picks(text, K)[i] = IF i \in K THEN Append(Picks(text, K)[i - 1], text[i]) ELSE Picks(text, K)[i - 1]
<1>1. IsPick(Pick(text, K), text, K, Len(text))
  BY PickExists DEF Pick
<1> DEFINE g == Pick(text, K)
<1> HIDE DEF g
<1>2. g = [i \in 0..Len(text) |-> IF i = 0 THEN << >> ELSE IF i \in K THEN Append(g[i - 1], text[i]) ELSE g[i - 1]]
  BY <1>1 DEF IsPick, g
<1>3. \A i \in 0..Len(text) : g[i] = IF i = 0 THEN << >> ELSE IF i \in K THEN Append(g[i - 1], text[i]) ELSE g[i - 1]
  BY ONLY <1>2
<1>4. g[0] = << >> /\ \A i \in 1..Len(text) : g[i] = IF i \in K THEN Append(g[i - 1], text[i]) ELSE g[i - 1]
  BY <1>3
<1>q. QED BY <1>4, PicksIsPick DEF g

-----------------------------------------------------------------------------
(* Texts made of whole lines.                                              *)

Halves == {Half(l) : l \in Lines}

Tokens == Halves \cup LineEnds

\* The two halves of a line are told apart, and from those of another line.
TokensDiffer ==
    \A l \in Lines : \A m \in Lines : /\ Half(l) = Half(m) => l = m
                                      /\ End(l) = End(m) => l = m
                                      /\ Half(l) # End(m)

LEMMA TokensDo == SharedStarts = FALSE => TokensDiffer
<1> SUFFICES ASSUME SharedStarts = FALSE, NEW l \in Lines, NEW m \in Lines
             PROVE /\ Half(l) = Half(m) => l = m
                   /\ End(l) = End(m) => l = m
                   /\ Half(l) # End(m)
  BY DEF TokensDiffer
<1>1. Half(l) = [front |-> l] /\ Half(m) = [front |-> m]
  BY DEF Half
<1>2. DOMAIN Half(l) = {"front"} /\ DOMAIN End(m) = {"back"}
  BY <1>1 DEF End
<1>3. Half(l).front = l /\ Half(m).front = m /\ End(l).back = l /\ End(m).back = m
  BY <1>1 DEF End
<1>q. QED BY <1>2, <1>3

\* A second half stands after the first, and a line begins after another's end.
InOrder(t) ==
    \A i \in 2..Len(t) : /\ t[i] \in Halves => t[i - 1] \in LineEnds
                         /\ \A l \in Lines : t[i] = End(l) => t[i - 1] = Half(l)

Once(t) == \A i \in 1..Len(t) : \A j \in 1..Len(t) : t[i] = t[j] => i = j

BegunIn(t, W) == \A i \in 1..Len(t) : \A l \in Lines : t[i] = Half(l) => l \in W

Good(t, W) ==
    /\ t \in Seq(Tokens)
    /\ t # << >> => t[1] \in Halves
    /\ InOrder(t) /\ Once(t) /\ BegunIn(t, W)

LEMMA TokenKinds == ASSUME TokensDiffer, NEW a \in Tokens
    PROVE  /\ a \in Halves <=> a \notin LineEnds
           /\ a \in Halves => \E l \in Lines : a = Half(l)
           /\ a \in LineEnds => \E l \in Lines : a = End(l)
BY DEF Tokens, Halves, LineEnds, TokensDiffer

LEMMA TokensIn == \A l \in Lines : Half(l) \in Halves /\ Half(l) \in Tokens /\ End(l) \in LineEnds /\ End(l) \in Tokens
BY DEF Tokens, Halves, LineEnds

\* What may come next, comes.
LEMMA GoodGrows ==
    ASSUME TokensDiffer, NEW W, NEW p, Good(p, W), NEW a \in Tokens,
           \A i \in 1..Len(p) : p[i] # a,
           a \in Halves => Ended(p),
           \A l \in Lines : a = End(l) => Len(p) > 0 /\ p[Len(p)] = Half(l),
           \A l \in Lines : a = Half(l) => l \in W
    PROVE  /\ Good(Append(p, a), W)
           /\ a \in LineEnds => Ended(Append(p, a))
<1> DEFINE x == Append(p, a)
<1>1. p \in Seq(Tokens) /\ Len(p) \in Nat
  BY DEF Good
<1>2. /\ x \in Seq(Tokens) /\ Len(x) = Len(p) + 1 /\ x[Len(p) + 1] = a
      /\ \A i \in 1..Len(p) : x[i] = p[i] /\ p[i] \in Tokens
  BY <1>1
<1> HIDE DEF x
<1>3. x # << >> => x[1] \in Halves
  <2>1. CASE Len(p) = 0
    <3>1. x[1] = a
      BY <1>2, <2>1
    <3>q. QED BY <3>1, <2>1, TokenKinds
  <2>2. CASE Len(p) # 0
    <3>1. x[1] = p[1] /\ p # << >>
      BY <1>1, <1>2, <2>2
    <3>q. QED BY <3>1 DEF Good
  <2>q. QED BY <2>1, <2>2
<1>4. InOrder(x)
  <2> SUFFICES ASSUME NEW i \in 2..Len(x)
               PROVE  /\ x[i] \in Halves => x[i - 1] \in LineEnds
                      /\ \A l \in Lines : x[i] = End(l) => x[i - 1] = Half(l)
    BY DEF InOrder
  <2>1. CASE i \in 2..Len(p)
    <3>1. x[i] = p[i] /\ x[i - 1] = p[i - 1]
      BY <1>1, <1>2, <2>1
    <3>q. QED BY <3>1, <2>1 DEF Good, InOrder
  <2>2. CASE i = Len(p) + 1
    <3>1. x[i] = a /\ x[i - 1] = p[Len(p)] /\ p # << >>
      BY <1>1, <1>2, <2>2
    <3>q. QED BY <3>1 DEF Ended
  <2>q. QED BY <1>1, <1>2, <2>1, <2>2
<1>5. Once(x)
  <2> SUFFICES ASSUME NEW i \in 1..Len(x), NEW j \in 1..Len(x), x[i] = x[j] PROVE i = j
    BY DEF Once
  <2>1. CASE i \in 1..Len(p) /\ j \in 1..Len(p)
    BY <1>2, <2>1 DEF Good, Once
  <2>2. CASE i = Len(p) + 1 \/ j = Len(p) + 1
    BY <1>1, <1>2, <2>2
  <2>q. QED BY <1>1, <1>2, <2>1, <2>2
<1>6. BegunIn(x, W)
  <2> SUFFICES ASSUME NEW i \in 1..Len(x), NEW l \in Lines, x[i] = Half(l) PROVE l \in W
    BY DEF BegunIn
  <2>1. CASE i \in 1..Len(p)
    BY <1>2, <2>1 DEF Good, BegunIn
  <2>2. CASE i = Len(p) + 1
    BY <1>2, <2>2
  <2>q. QED BY <1>1, <1>2, <2>1, <2>2
<1>7. Good(x, W)
  BY <1>2, <1>3, <1>4, <1>5, <1>6 DEF Good
<1>8. a \in LineEnds => Ended(x)
  BY <1>1, <1>2 DEF Ended
<1>q. QED BY <1>7, <1>8 DEF x

\* K takes whole lines of w, none of which p has, and p ends where the first begins.
Fits(p, w, K) ==
    /\ K \subseteq 1..Len(w)
    /\ \A n \in K : /\ w[n] \in Halves => n + 1 \in K
                    /\ n > 1 /\ w[n] \in LineEnds => n - 1 \in K
                    /\ \A i \in 1..Len(p) : p[i] # w[n]
    /\ ~Ended(p) => 1 \in K /\ w[1] \in LineEnds
    /\ 1 \in K => \A l \in Lines : w[1] = End(l) => Len(p) > 0 /\ p[Len(p)] = Half(l)

\* After the first n places, x is a good text that the next ones of K continue.
Continues(x, w, K, n, W) ==
    /\ Good(x, W)
    /\ \A j \in K : j > n => \A i \in 1..Len(x) : x[i] # w[j]
    /\ ~Ended(x) => n + 1 \in K /\ w[n + 1] \in LineEnds
    /\ n + 1 \in K => \A l \in Lines : w[n + 1] = End(l) => Len(x) > 0 /\ x[Len(x)] = Half(l)

LEMMA AppendsLast == ASSUME NEW S, NEW p \in Seq(S), NEW q \in Seq(S), NEW a \in S
    PROVE  p \o Append(q, a) = Append(p \o q, a)
<1>1. p \o Append(q, a) \in Seq(S) /\ Append(p \o q, a) \in Seq(S)
  OBVIOUS
<1>2. Len(p \o Append(q, a)) = Len(Append(p \o q, a))
  OBVIOUS
<1>3. \A i \in 1..Len(p \o Append(q, a)) : (p \o Append(q, a))[i] = Append(p \o q, a)[i]
  OBVIOUS
<1>q. QED BY <1>1, <1>2, <1>3, SeqEqual

LEMMA ContinuesOn ==
    ASSUME TokensDiffer, NEW W, NEW p, NEW w \in Seq(Tokens), NEW K, Fits(p, w, K),
           InOrder(w), Once(w), BegunIn(w, W),
           NEW n \in 0..(Len(w) - 1), NEW x, Continues(x, w, K, n, W)
    PROVE  Continues(IF n + 1 \in K THEN Append(x, w[n + 1]) ELSE x, w, K, n + 1, W)
<1>1. Len(w) \in Nat /\ n + 1 \in 1..Len(w) /\ w[n + 1] \in Tokens /\ K \subseteq 1..Len(w)
  BY DEF Fits
<1>2. n + 1 + 1 \in K => /\ n + 1 + 1 \in 2..Len(w) /\ n + 1 + 1 > 1 /\ (n + 1 + 1) - 1 = n + 1
  BY <1>1
<1>3. x \in Seq(Tokens) /\ Len(x) \in Nat
  BY DEF Continues, Good
<1>4. CASE n + 1 \in K
  <2> DEFINE a == w[n + 1]
  <2> DEFINE y == Append(x, a)
  <2>1. a \in Halves => Ended(x)
    BY <1>1, TokenKinds DEF Continues
  <2>2. Good(y, W) /\ (a \in LineEnds => Ended(y))
    <3>1. \A i \in 1..Len(x) : x[i] # a
      BY <1>4 DEF Continues
    <3>2. \A l \in Lines : a = End(l) => Len(x) > 0 /\ x[Len(x)] = Half(l)
      BY <1>4 DEF Continues
    <3>3. \A l \in Lines : a = Half(l) => l \in W
      BY <1>1 DEF BegunIn
    <3>4. Good(x, W)
      BY DEF Continues
    <3> HIDE DEF a
    <3>5. a \in Tokens
      BY <1>1 DEF a
    <3>q. QED BY <2>1, <3>1, <3>2, <3>3, <3>4, <3>5, GoodGrows
  <2>3. Len(y) = Len(x) + 1 /\ y[Len(y)] = a /\ \A i \in 1..Len(x) : y[i] = x[i]
    BY <1>1, <1>3
  <2>4. ASSUME NEW j \in K, j > n + 1, NEW i \in 1..Len(y) PROVE y[i] # w[j]
    <3>1. CASE i \in 1..Len(x)
      <4>1. j > n /\ y[i] = x[i]
        BY <2>3, <2>4, <3>1, <1>1
      <4>q. QED BY <4>1, <3>1 DEF Continues
    <3>2. CASE i = Len(x) + 1
      BY <1>1, <2>3, <2>4, <3>2 DEF Once
    <3>q. QED BY <1>3, <2>3, <3>1, <3>2
  <2>5. ~Ended(y) => n + 1 + 1 \in K /\ w[n + 1 + 1] \in LineEnds
    <3>1. SUFFICES ASSUME ~Ended(y) PROVE n + 1 + 1 \in K /\ w[n + 1 + 1] \in LineEnds
      OBVIOUS
    <3>2. a \in Halves
      BY <2>2, <3>1, <1>1, TokenKinds
    <3>3. n + 1 + 1 \in K
      BY <3>2, <1>4 DEF Fits
    <3>4. w[n + 1 + 1] \in Halves => w[n + 1] \in LineEnds
      BY <3>3, <1>2 DEF InOrder
    <3>5. w[n + 1 + 1] \in Tokens
      BY <3>3, <1>2
    <3>q. QED BY <3>2, <3>3, <3>4, <3>5, <1>1, TokenKinds
  <2>6. n + 1 + 1 \in K => \A l \in Lines : w[n + 1 + 1] = End(l) => Len(y) > 0 /\ y[Len(y)] = Half(l)
    <3> SUFFICES ASSUME n + 1 + 1 \in K, NEW l \in Lines, w[n + 1 + 1] = End(l) PROVE Len(y) > 0 /\ y[Len(y)] = Half(l)
      OBVIOUS
    <3>1. w[n + 1] = Half(l)
      BY <1>2 DEF InOrder
    <3>q. QED BY <3>1, <2>3, <1>3
  <2>q. QED
    <3> HIDE DEF y, a
    <3>1. Continues(y, w, K, n + 1, W)
      BY <2>2, <2>4, <2>5, <2>6 DEF Continues
    <3>q. QED BY <3>1, <1>4 DEF y, a
<1>5. CASE n + 1 \notin K
  <2>1. Ended(x) /\ Good(x, W) /\ \A j \in K : j > n + 1 => \A i \in 1..Len(x) : x[i] # w[j]
    BY <1>1, <1>5 DEF Continues
  <2>2. ASSUME n + 1 + 1 \in K, NEW l \in Lines, w[n + 1 + 1] = End(l) PROVE FALSE
    <3>1. w[n + 1 + 1] \in LineEnds
      BY <2>2, TokensIn
    <3>2. (n + 1 + 1) - 1 \in K
      BY <3>1, <2>2, <1>2 DEF Fits
    <3>q. QED BY <3>2, <1>2, <1>5, <2>2
  <2>q. QED BY <1>5, <2>1, <2>2 DEF Continues
<1>q. QED BY <1>4, <1>5

\* A good text with the lines of K after it is good, and ends with a newline.
LEMMA GoodPicks ==
    ASSUME TokensDiffer, NEW W, NEW p, Good(p, W), NEW w \in Seq(Tokens), NEW K, Fits(p, w, K),
           InOrder(w), Once(w), BegunIn(w, W)
    PROVE  Picked(w, K) \in Seq(Tokens) /\ Good(p \o Picked(w, K), W) /\ Ended(p \o Picked(w, K))
<1> DEFINE g == Picks(w, K)
<1> DEFINE Sound(n) == g[n] \in Seq(Tokens) /\ Continues(p \o g[n], w, K, n, W)
<1> DEFINE F == {n \in 0..Len(w) : ~Sound(n)}
<1>1. Len(w) \in Nat /\ p \in Seq(Tokens)
  BY DEF Good
<1>2. /\ g[0] = << >>
      /\ \A i \in 1..Len(w) : g[i] = IF i \in K THEN Append(g[i - 1], w[i]) ELSE g[i - 1]
  BY <1>1, PicksAre
<1> HIDE DEF g
<1>3. Sound(0)
  <2>1. g[0] \in Seq(Tokens) /\ p \o g[0] = p
    BY <1>1, <1>2
  <2>2. Continues(p, w, K, 0, W)
    <3>1. \A j \in K : \A i \in 1..Len(p) : p[i] # w[j]
      BY DEF Fits
    <3>2. ~Ended(p) => 0 + 1 \in K /\ w[0 + 1] \in LineEnds
      BY DEF Fits
    <3>3. 0 + 1 \in K => \A l \in Lines : w[0 + 1] = End(l) => Len(p) > 0 /\ p[Len(p)] = Half(l)
      BY DEF Fits
    <3>q. QED BY <3>1, <3>2, <3>3 DEF Continues
  <2>q. QED BY <2>1, <2>2
<1>4. ASSUME NEW n \in 0..(Len(w) - 1), Sound(n) PROVE Sound(n + 1)
  <2>1. n + 1 \in 1..Len(w) /\ (n + 1) - 1 = n /\ w[n + 1] \in Tokens
    BY <1>1
  <2>2. g[n + 1] = IF n + 1 \in K THEN Append(g[n], w[n + 1]) ELSE g[n]
    BY <1>2, <2>1
  <2>3. g[n + 1] \in Seq(Tokens)
    BY <1>4, <2>1, <2>2
  <2>4. p \o g[n + 1] = IF n + 1 \in K THEN Append(p \o g[n], w[n + 1]) ELSE p \o g[n]
    <3>1. p \o Append(g[n], w[n + 1]) = Append(p \o g[n], w[n + 1])
      BY <1>1, <1>4, <2>1, AppendsLast
    <3>q. QED BY <3>1, <2>2
  <2> DEFINE x == p \o g[n]
  <2>5. Continues(x, w, K, n, W)
    BY <1>4
  <2> HIDE DEF x
  <2>6. Continues(IF n + 1 \in K THEN Append(x, w[n + 1]) ELSE x, w, K, n + 1, W)
    BY <2>5, ContinuesOn
  <2>q. QED BY <2>3, <2>4, <2>6 DEF x
<1> HIDE DEF Sound
<1>5. F = {}
  <2> SUFFICES ASSUME F # {} PROVE FALSE
    OBVIOUS
  <2>1. F \in SUBSET Nat
    OBVIOUS
  <2>2. PICK n \in F : \A i \in F : n <= i
    <3> HIDE DEF F
    <3>q. QED BY <2>1, LeastNumber
  <2>3. n # 0
    BY <1>3, <2>2
  <2>4. n - 1 \in 0..(Len(w) - 1) /\ (n - 1) + 1 = n
    BY <1>1, <2>2, <2>3
  <2>5. Sound(n - 1)
    BY <1>1, <2>2, <2>4
  <2>q. QED BY <1>4, <2>2, <2>4, <2>5
<1>6. Sound(Len(w))
  BY <1>1, <1>5
<1>7. Len(w) + 1 \notin K
  BY <1>1 DEF Fits
<1>q. QED BY <1>6, <1>7 DEF Sound, g, Picked, Continues

-----------------------------------------------------------------------------
(* What a merge appends.                                                   *)

\* The places of the incoming records that are not there.
Lacking(have, incoming) == UNION {s[1]..s[2] : s \in Absent(have, incoming)}

\* v has the record that stands in w from b to e.
Holds(v, w, b, e) ==
    \E c \in 1..Len(v) : \E d \in 1..Len(v) : IsRecord(v, c, d) /\ SubSeq(v, c, d) = SubSeq(w, b, e)

LEMMA RecordHeld ==
    ASSUME NEW v, NEW w, NEW b, NEW e, NEW c \in 1..Len(v), NEW d \in 1..Len(v),
           IsRecord(v, c, d), SubSeq(v, c, d) = SubSeq(w, b, e)
    PROVE  Holds(v, w, b, e)
BY DEF Holds

LEMMA LackingIs ==
    ASSUME NEW v \in Seq(Tokens), NEW w \in Seq(Tokens)
    PROVE  /\ \A n \in Lacking(v, w) : \E b \in 1..Len(w) : \E e \in 1..Len(w) : IsRecord(w, b, e) /\ n \in b..e /\ ~Holds(v, w, b, e)
           /\ \A b \in 1..Len(w) : \A e \in 1..Len(w) : \A n \in b..e :
                 IsRecord(w, b, e) /\ ~Holds(v, w, b, e) => n \in Lacking(v, w)
<1>1. DOMAIN v = 1..Len(v) /\ DOMAIN w = 1..Len(w)
  OBVIOUS
<1>2. ASSUME NEW b \in 1..Len(w), NEW e \in 1..Len(w), IsRecord(w, b, e)
      PROVE  <<b, e>> \in Absent(v, w) <=> ~Holds(v, w, b, e)
  <2>1. <<b, e>> \in Spans(w) /\ Records(w)[<<b, e>>] = SubSeq(w, b, e)
    BY <1>1, <1>2 DEF Spans, Records
  <2>2. Holds(v, w, b, e) => SubSeq(w, b, e) \in Range(Records(v))
    <3> SUFFICES ASSUME NEW c \in 1..Len(v), NEW d \in 1..Len(v), IsRecord(v, c, d), SubSeq(v, c, d) = SubSeq(w, b, e)
                 PROVE  SubSeq(w, b, e) \in Range(Records(v))
      BY DEF Holds
    <3>1. <<c, d>> \in Spans(v) /\ Records(v)[<<c, d>>] = SubSeq(v, c, d)
      BY <1>1 DEF Spans, Records
    <3>2. DOMAIN Records(v) = Spans(v)
      BY DEF Records
    <3>q. QED BY <3>1, <3>2 DEF Range
  <2>3. SubSeq(w, b, e) \in Range(Records(v)) => Holds(v, w, b, e)
    <3> SUFFICES ASSUME SubSeq(w, b, e) \in Range(Records(v)) PROVE Holds(v, w, b, e)
      OBVIOUS
    <3>1. PICK s \in Spans(v) : Records(v)[s] = SubSeq(w, b, e)
      BY DEF Range, Records
    <3>2. s[1] \in 1..Len(v) /\ s[2] \in 1..Len(v) /\ IsRecord(v, s[1], s[2])
      BY <1>1 DEF Spans
    <3>3. Records(v)[s] = SubSeq(v, s[1], s[2])
      BY DEF Records
    <3>q. QED BY <3>1, <3>2, <3>3 DEF Holds
  <2>q. QED BY <2>1, <2>2, <2>3 DEF Absent
<1>3. ASSUME NEW n \in Lacking(v, w)
      PROVE  \E b \in 1..Len(w) : \E e \in 1..Len(w) : IsRecord(w, b, e) /\ n \in b..e /\ ~Holds(v, w, b, e)
  <2>1. PICK s \in Absent(v, w) : n \in s[1]..s[2]
    BY DEF Lacking
  <2>2. s = <<s[1], s[2]>> /\ s[1] \in 1..Len(w) /\ s[2] \in 1..Len(w) /\ IsRecord(w, s[1], s[2])
    BY <1>1 DEF Absent, Spans
  <2>3. ~Holds(v, w, s[1], s[2])
    BY <1>2, <2>2
  <2>q. QED BY <2>1, <2>2, <2>3
<1>4. ASSUME NEW b \in 1..Len(w), NEW e \in 1..Len(w), NEW n \in b..e, IsRecord(w, b, e), ~Holds(v, w, b, e)
      PROVE  n \in Lacking(v, w)
  <2>1. <<b, e>> \in Absent(v, w)
    BY <1>2, <1>4
  <2>q. QED BY <2>1 DEF Lacking
<1>q. QED BY <1>3, <1>4

\* w is what t has after m.
IsTail(w, t, m) ==
    /\ w \in Seq(Tokens) /\ Len(w) = Len(t) - m /\ InOrder(w)
    /\ \A i \in 1..Len(w) : w[i] = t[m + i] /\ w[i] \in Tokens

SameUpTo(p, t, m) == \A i \in 1..m : p[i] = t[i]

\* A tail of a good text.
LEMMA GoodTail ==
    ASSUME NEW W, NEW t, Good(t, W), NEW m \in 0..Len(t)
    PROVE  LET w == SubSeq(t, m + 1, Len(t)) IN
           IsTail(w, t, m) /\ Once(w) /\ BegunIn(w, W)
<1> DEFINE w == SubSeq(t, m + 1, Len(t))
<1>1. t \in Seq(Tokens) /\ Len(t) \in Nat
  BY DEF Good
<1>2. /\ w \in Seq(Tokens) /\ Len(w) = Len(t) - m
      /\ \A i \in 1..Len(w) : w[i] = t[m + i] /\ w[i] \in Tokens /\ m + i \in 1..Len(t)
  BY <1>1
<1> HIDE DEF w
<1>3. InOrder(w)
  <2> SUFFICES ASSUME NEW i \in 2..Len(w)
               PROVE  /\ w[i] \in Halves => w[i - 1] \in LineEnds
                      /\ \A l \in Lines : w[i] = End(l) => w[i - 1] = Half(l)
    BY DEF InOrder
  <2>1. m + i \in 2..Len(t) /\ i - 1 \in 1..Len(w) /\ m + (i - 1) = (m + i) - 1
    BY <1>1, <1>2
  <2>2. w[i] = t[m + i] /\ w[i - 1] = t[(m + i) - 1]
    BY <1>2, <2>1
  <2>q. QED BY <2>1, <2>2 DEF Good, InOrder
<1>4. Once(w)
  <2> SUFFICES ASSUME NEW i \in 1..Len(w), NEW j \in 1..Len(w), w[i] = w[j] PROVE i = j
    BY DEF Once
  <2>1. t[m + i] = t[m + j] /\ m + i \in 1..Len(t) /\ m + j \in 1..Len(t)
    BY <1>2
  <2>2. m + i = m + j
    BY <2>1 DEF Good, Once
  <2>q. QED BY <2>2
<1>5. BegunIn(w, W)
  BY <1>2 DEF Good, BegunIn
<1>6. IsTail(w, t, m)
  BY <1>2, <1>3 DEF IsTail
<1>q. QED BY <1>4, <1>5, <1>6 DEF w

\* A record of a tail is a line, or the second half of one.
LEMMA RecordsAreLines ==
    ASSUME TokensDiffer, NEW w \in Seq(Tokens), InOrder(w),
           NEW b \in 1..Len(w), NEW e \in 1..Len(w), IsRecord(w, b, e)
    PROVE  \E l \in Lines : w[e] = End(l) /\ ((b = e /\ b = 1) \/ (e = b + 1 /\ w[b] = Half(l)))
<1>1. PICK l \in Lines : w[e] = End(l)
  BY TokenKinds DEF IsRecord
<1>2. CASE e = 1
  <2>1. b = 1
    BY <1>2 DEF IsRecord
  <2>q. QED BY <1>1, <1>2, <2>1
<1>3. CASE e # 1
  <2>1. w[e - 1] = Half(l) /\ w[e - 1] \in Tokens /\ e - 1 \in 1..Len(w)
    BY <1>1, <1>3 DEF InOrder
  <2>2. w[e - 1] \in Halves /\ w[e - 1] \notin LineEnds
    BY <2>1, TokensIn, TokenKinds
  <2>3. b # e
    BY <2>2, <1>3 DEF IsRecord
  <2>4. b <= e - 1
    BY <2>3 DEF IsRecord
  <2>5. CASE b < e - 1
    <3>1. e - 1 \in 2..Len(w) /\ (e - 1) - 1 \in b..(e - 1)
      BY <2>5
    <3>2. w[(e - 1) - 1] \in LineEnds
      BY <3>1, <2>2 DEF InOrder
    <3>q. QED BY <3>1, <3>2 DEF IsRecord
  <2>6. CASE b = e - 1
    BY <1>1, <2>1, <2>6
  <2>q. QED BY <2>4, <2>5, <2>6
<1>q. QED BY <1>2, <1>3

\* A text that has a line's first half, and is ended, has the line.
LEMMA LineIsHeld ==
    ASSUME TokensDiffer, NEW v \in Seq(Tokens), InOrder(v), Ended(v), NEW w \in Seq(Tokens),
           NEW l \in Lines, NEW j \in 1..Len(v), v[j] = Half(l),
           NEW b \in 1..Len(w), b + 1 \in 1..Len(w), w[b] = Half(l), w[b + 1] = End(l)
    PROVE  Holds(v, w, b, b + 1)
<1>1. Half(l) \in Halves /\ Half(l) \notin LineEnds
  BY TokensIn, TokenKinds
<1>2. j + 1 \in 2..Len(v) /\ (j + 1) - 1 = j /\ v[j + 1] \in Tokens
  <2>1. v # << >> /\ v[Len(v)] \in LineEnds
    BY DEF Ended
  <2>2. j # Len(v)
    BY <2>1, <1>1
  <2>q. QED BY <2>2
<1>3. v[j + 1] \in LineEnds
  BY <1>1, <1>2, TokenKinds DEF InOrder
<1>4. PICK k \in Lines : v[j + 1] = End(k)
  BY <1>2, <1>3, TokenKinds
<1>5. v[j] = Half(k)
  BY <1>2, <1>4 DEF InOrder
<1>6. k = l
  BY <1>5 DEF TokensDiffer
<1>7. j = 1 \/ v[j - 1] \in LineEnds
  BY <1>1 DEF InOrder
<1>8. IsRecord(v, j, j + 1)
  <2>1. \A i \in j..((j + 1) - 1) : v[i] \notin LineEnds
    BY <1>1
  <2>q. QED BY <2>1, <1>3, <1>7 DEF IsRecord
<1>9. SubSeq(v, j, j + 1) = SubSeq(w, b, b + 1)
  <2> DEFINE x == SubSeq(v, j, j + 1)  y == SubSeq(w, b, b + 1)
  <2>1. /\ x \in Seq(Tokens) /\ Len(x) = 2 /\ x[1] = v[j] /\ x[2] = v[j + 1]
        /\ y \in Seq(Tokens) /\ Len(y) = 2 /\ y[1] = w[b] /\ y[2] = w[b + 1]
    BY <1>2
  <2>2. \A i \in 1..Len(x) : x[i] = y[i]
    BY <2>1, <1>4, <1>6
  <2> HIDE DEF x, y
  <2>q. QED
    <3>1. x = y
      BY <2>1, <2>2, SeqEqual
    <3>q. QED BY <3>1 DEF x, y
<1>10. j + 1 \in 1..Len(v)
  BY <1>2
<1>q. QED BY <1>8, <1>9, <1>10, RecordHeld

LEMMA FirstIsRecord == ASSUME NEW w, w[1] \in LineEnds PROVE IsRecord(w, 1, 1)
BY DEF IsRecord

\* So does one that begins with the second half.
LEMMA EndIsHeld ==
    ASSUME NEW v \in Seq(Tokens), NEW w \in Seq(Tokens), NEW l \in Lines,
           Len(v) > 0, v[1] = End(l), Len(w) > 0, w[1] = End(l)
    PROVE  Holds(v, w, 1, 1)
<1>1. IsRecord(v, 1, 1)
  BY TokensIn DEF IsRecord
<1>2. SubSeq(v, 1, 1) = SubSeq(w, 1, 1)
  <2> DEFINE x == SubSeq(v, 1, 1)  y == SubSeq(w, 1, 1)
  <2>1. /\ x \in Seq(Tokens) /\ Len(x) = 1 /\ x[1] = v[1]
        /\ y \in Seq(Tokens) /\ Len(y) = 1 /\ y[1] = w[1]
    OBVIOUS
  <2> HIDE DEF x, y
  <2>2. x = y
    BY <2>1, SeqEqual
  <2>q. QED BY <2>2 DEF x, y
<1>3. 1 \in 1..Len(v)
  OBVIOUS
<1>q. QED BY <1>1, <1>2, <1>3, RecordHeld

\* p and t are alike up to m; what t has after it and p has not continues p.
LEMMA MissingFits ==
    ASSUME TokensDiffer, NEW W, NEW p, Good(p, W), NEW t, Good(t, W), NEW m \in 0..Len(t), m <= Len(p),
           SameUpTo(p, t, m),
           NEW v, IsTail(v, p, m), Ended(v),
           NEW w, IsTail(w, t, m), m = 0 \/ Spans(w) # {}
    PROVE  Fits(p, w, Lacking(v, w))
<1> DEFINE K == Lacking(v, w)
<1>1. p \in Seq(Tokens) /\ Len(p) \in Nat /\ t \in Seq(Tokens) /\ Len(t) \in Nat /\ m \in 0..Len(p)
  BY DEF Good
<1>2. /\ w \in Seq(Tokens) /\ Len(w) = Len(t) - m /\ InOrder(w)
      /\ \A i \in 1..Len(w) : w[i] = t[m + i] /\ w[i] \in Tokens
  BY DEF IsTail
<1>3. /\ v \in Seq(Tokens) /\ Len(v) = Len(p) - m /\ InOrder(v)
      /\ \A i \in 1..Len(v) : v[i] = p[m + i]
  BY DEF IsTail
<1>4. /\ \A i \in 2..Len(p) : \A l \in Lines : p[i] = End(l) => p[i - 1] = Half(l)
      /\ \A i \in 2..Len(t) : \A l \in Lines : t[i] = End(l) => t[i - 1] = Half(l)
      /\ \A i \in 2..Len(p) : p[i] \in Halves => p[i - 1] \in LineEnds
      /\ \A i \in 2..Len(t) : t[i] \in Halves => t[i - 1] \in LineEnds
      /\ p # << >> => p[1] \in Halves
      /\ t # << >> => t[1] \in Halves
  BY DEF Good, InOrder
<1>5. Once(p) /\ Once(t)
  BY DEF Good
<1>6. \A l \in Lines : Half(l) \in Halves /\ End(l) \in LineEnds /\ Half(l) \notin LineEnds /\ End(l) \notin Halves
  BY TokensIn, TokenKinds
<1>7. ASSUME NEW n \in K
      PROVE  \E b \in 1..Len(w) : \E e \in 1..Len(w) : IsRecord(w, b, e) /\ n \in b..e /\ ~Holds(v, w, b, e) /\ b..e \subseteq K
  <2>1. PICK b \in 1..Len(w), e \in 1..Len(w) : IsRecord(w, b, e) /\ n \in b..e /\ ~Holds(v, w, b, e)
    BY <1>2, <1>3, <1>7, LackingIs
  <2>2. \A i \in b..e : i \in K
    BY <1>2, <1>3, <2>1, LackingIs
  <2>q. QED BY <2>1, <2>2
<1> HIDE DEF K
<1>8. K \subseteq 1..Len(w)
  BY <1>2, <1>7
<1>9. ASSUME NEW n \in K, w[n] \in Halves PROVE n + 1 \in K
  <2>1. PICK b \in 1..Len(w), e \in 1..Len(w) : IsRecord(w, b, e) /\ n \in b..e /\ b..e \subseteq K
    BY <1>7
  <2>2. w[e] \notin Halves
    BY <1>2, <2>1, TokenKinds DEF IsRecord
  <2>3. n + 1 \in b..e
    BY <1>9, <2>1, <2>2
  <2>q. QED BY <2>1, <2>3
<1>10. ASSUME NEW n \in K, n > 1, w[n] \in LineEnds PROVE n - 1 \in K
  <2>1. PICK b \in 1..Len(w), e \in 1..Len(w) : IsRecord(w, b, e) /\ n \in b..e /\ b..e \subseteq K
    BY <1>7
  <2>2. PICK l \in Lines : w[e] = End(l) /\ ((b = e /\ b = 1) \/ (e = b + 1 /\ w[b] = Half(l)))
    BY <1>2, <2>1, RecordsAreLines
  <2>3. e = b + 1 /\ n = e
    BY <1>6, <1>10, <2>1, <2>2
  <2>q. QED BY <2>1, <2>3
<1>11. ASSUME NEW n \in K, NEW i \in 1..Len(p), p[i] = w[n] PROVE FALSE
  <2>1. PICK b \in 1..Len(w), e \in 1..Len(w) : IsRecord(w, b, e) /\ n \in b..e /\ ~Holds(v, w, b, e)
    BY <1>7
  <2>2. PICK l \in Lines : w[e] = End(l) /\ ((b = e /\ b = 1) \/ (e = b + 1 /\ w[b] = Half(l)))
    BY <1>2, <2>1, RecordsAreLines
  <2>3. n \in 1..Len(w) /\ w[n] = t[m + n] /\ m + n \in 1..Len(t)
    <3>1. n \in 1..Len(w)
      BY <1>8
    <3>2. m + n \in 1..Len(t)
      BY <1>1, <1>2, <3>1
    <3>q. QED BY <1>2, <3>1, <3>2
  <2>4. i > m
    <3> SUFFICES ASSUME i \in 1..m PROVE FALSE
      BY <1>1
    <3>1. t[i] = t[m + n] /\ i \in 1..Len(t)
      BY <1>11, <2>3, <1>1 DEF SameUpTo
    <3>2. i = m + n
      BY <3>1, <2>3, <1>5 DEF Once
    <3>q. QED BY <3>2, <2>3, <1>1
  <2>5. i - m \in 1..Len(v) /\ v[i - m] = p[i]
    <3>1. i - m \in 1..Len(v) /\ m + (i - m) = i
      BY <1>1, <1>3, <2>4
    <3>q. QED BY <1>3, <3>1
  <2>6. CASE b = e /\ b = 1
    <3>1. n = 1 /\ w[1] = End(l) /\ t[m + 1] = End(l) /\ p[i] = End(l)
      BY <1>11, <2>1, <2>2, <2>3, <2>6
    <3>2. i # 1 /\ m # 0
      BY <1>1, <1>4, <1>6, <3>1, <2>3
    <3>3. i \in 2..Len(p) /\ m + 1 \in 2..Len(t) /\ (m + 1) - 1 = m /\ m \in 1..Len(p)
      BY <1>1, <2>3, <3>1, <3>2
    <3>4. p[i - 1] = Half(l) /\ t[m] = Half(l)
      BY <1>4, <3>1, <3>3
    <3>5. p[m] = Half(l)
      BY <3>3, <3>4 DEF SameUpTo
    <3>6. i - 1 = m
      BY <1>1, <1>5, <3>3, <3>4, <3>5 DEF Once
    <3>7. v[1] = End(l) /\ Len(v) > 0
      <4>1. i - m = 1
        BY <3>6, <3>3, <1>1
      <4>q. QED BY <2>5, <3>1, <4>1, <1>3
    <3>8. Len(w) > 0
      BY <1>2, <2>3, <3>1
    <3>9. Holds(v, w, 1, 1)
      BY <1>2, <1>3, <3>1, <3>7, <3>8, EndIsHeld
    <3>q. QED BY <3>9, <2>1, <2>6
  <2>7. CASE e = b + 1 /\ w[b] = Half(l)
    <3>1. ASSUME NEW j \in 1..Len(v), v[j] = Half(l) PROVE FALSE
      <4>1. Holds(v, w, b, b + 1)
        BY <1>2, <1>3, <2>2, <2>7, <3>1, LineIsHeld
      <4>q. QED BY <4>1, <2>1, <2>7
    <3>2. CASE n = b
      BY <1>11, <2>5, <2>7, <3>1, <3>2
    <3>3. CASE n = e
      <4>1. p[i] = End(l)
        BY <1>11, <2>2, <3>3
      <4>2. i # 1
        BY <1>1, <1>4, <1>6, <4>1
      <4>3. i \in 2..Len(p) /\ i - 1 \in 1..Len(p)
        BY <1>1, <4>2
      <4>4. p[i - 1] = Half(l)
        BY <1>4, <4>1, <4>3
      <4>5. i - 1 # m
        <5> SUFFICES ASSUME i - 1 = m PROVE FALSE
          OBVIOUS
        <5>1. t[m] = Half(l) /\ m \in 1..Len(t)
          BY <4>3, <4>4, <1>1 DEF SameUpTo
        <5>2. t[m + b] = Half(l) /\ m + b \in 1..Len(t)
          BY <1>2, <2>7, <1>1
        <5>3. m = m + b
          BY <5>1, <5>2, <1>5 DEF Once
        <5>q. QED BY <5>3
      <4>6. (i - 1) - m \in 1..Len(v) /\ m + ((i - 1) - m) = i - 1
        BY <1>1, <1>3, <2>4, <4>5
      <4>7. v[(i - 1) - m] = Half(l)
        BY <1>3, <4>4, <4>6
      <4>q. QED BY <3>1, <4>6, <4>7
    <3>q. QED BY <2>1, <2>7, <3>2, <3>3
  <2>q. QED BY <2>2, <2>6, <2>7
<1>12. ASSUME ~Ended(p) PROVE 1 \in K /\ w[1] \in LineEnds
  <2>1. p # << >> /\ p[Len(p)] \notin LineEnds /\ Len(p) > 0
    BY <1>1, <1>12 DEF Ended
  <2>2. Len(v) = 0
    <3> SUFFICES ASSUME Len(v) > 0 PROVE FALSE
      BY <1>3
    <3>1. Len(v) \in 1..Len(v) /\ m + Len(v) = Len(p)
      BY <1>1, <1>3
    <3>2. v[Len(v)] = p[m + Len(v)]
      BY <1>3, <3>1
    <3>3. v # << >>
      <4>1. Len(<< >>) = 0 /\ 1..0 = {}
        OBVIOUS
      <4>q. QED BY ONLY <3>1, <4>1
    <3>q. QED BY <3>1, <3>2, <3>3, <2>1 DEF Ended
  <2>3. Len(p) = m /\ m > 0
    BY <1>1, <1>3, <2>1, <2>2
  <2>4. PICK s \in Spans(w) : TRUE
    BY <2>3
  <2>5. Len(w) > 0
    BY <1>2, <2>4 DEF Spans
  <2>6. t[m] = p[m] /\ m + 1 \in 2..Len(t) /\ (m + 1) - 1 = m /\ w[1] = t[m + 1] /\ w[1] \in Tokens
    BY <1>1, <1>2, <2>3, <2>5 DEF SameUpTo
  <2>7. w[1] \in LineEnds
    BY <1>4, <2>1, <2>3, <2>6, TokenKinds
  <2>8. IsRecord(w, 1, 1)
    BY <2>7, FirstIsRecord
  <2>9. ~Holds(v, w, 1, 1)
    BY <2>2 DEF Holds
  <2>10. 1 \in 1..Len(w) /\ 1 \in 1..1
    BY <1>2, <2>5
  <2>11. 1 \in K
    BY <1>2, <1>3, <2>8, <2>9, <2>10, LackingIs DEF K
  <2>q. QED BY <2>7, <2>11
<1>13. ASSUME 1 \in K, NEW l \in Lines, w[1] = End(l) PROVE Len(p) > 0 /\ p[Len(p)] = Half(l)
  <2>1. PICK b \in 1..Len(w), e \in 1..Len(w) : IsRecord(w, b, e) /\ 1 \in b..e /\ ~Holds(v, w, b, e)
    BY <1>7, <1>13
  <2>2. PICK k \in Lines : w[e] = End(k) /\ ((b = e /\ b = 1) \/ (e = b + 1 /\ w[b] = Half(k)))
    BY <1>2, <2>1, RecordsAreLines
  <2>3. b = 1
    BY <2>1
  <2>4. e = 1
    BY <1>6, <1>13, <2>2, <2>3
  <2>5. Len(w) > 0 /\ t[m + 1] = End(l)
    BY <1>2, <1>13, <2>3
  <2>6. m # 0
    BY <1>1, <1>2, <1>4, <1>6, <2>5
  <2>7. m \in 1..m /\ m + 1 \in 2..Len(t) /\ (m + 1) - 1 = m
    <3>1. Len(t) >= m + 1
      BY <1>1, <1>2, <2>5
    <3>2. m >= 1
      BY <1>1, <2>6
    <3>q. QED BY <1>1, <3>1, <3>2
  <2>8. p[m] = Half(l)
    <3>1. t[m] = Half(l)
      BY <1>4, <2>5, <2>7
    <3>q. QED BY <3>1, <2>7 DEF SameUpTo
  <2>9. Len(p) = m
    <3> SUFFICES ASSUME Len(p) > m PROVE FALSE
      BY <1>1
    <3>1. m + 1 \in 2..Len(p) /\ p[m + 1] \in Tokens /\ Len(v) > 0 /\ v[1] = p[m + 1]
      BY <1>1, <1>3, <2>6
    <3>2. p[m + 1] \in LineEnds
      <4>1. p[m] \notin LineEnds
        BY <1>6, <2>8
      <4>2. p[m + 1] \notin Halves
        BY <1>4, <2>7, <3>1, <4>1
      <4>q. QED BY <3>1, <4>2, TokenKinds
    <3>3. PICK k2 \in Lines : p[m + 1] = End(k2)
      BY <3>1, <3>2, TokenKinds
    <3>4. p[m] = Half(k2)
      BY <1>4, <2>7, <3>1, <3>3
    <3>5. v[1] = End(l)
      BY <2>8, <3>1, <3>3, <3>4 DEF TokensDiffer
    <3>6. Holds(v, w, 1, 1)
      BY <1>2, <1>3, <1>13, <2>5, <3>1, <3>5, EndIsHeld
    <3>q. QED BY <3>6, <2>1, <2>3, <2>4
  <2>q. QED BY <1>1, <2>6, <2>8, <2>9
<1>14. Fits(p, w, K)
  BY <1>8, <1>9, <1>10, <1>11, <1>12, <1>13 DEF Fits
<1>q. QED BY <1>14 DEF K

LEMMA MergeIsGood ==
    ASSUME TokensDiffer, NEW W, NEW p, Good(p, W), NEW t, Good(t, W), NEW m \in 0..Len(t), m <= Len(p),
           SameUpTo(p, t, m),
           Ended(SubSeq(p, m + 1, Len(p))),
           m = 0 \/ Spans(SubSeq(t, m + 1, Len(t))) # {}
    PROVE  LET adds == Missing(SubSeq(p, m + 1, Len(p)), SubSeq(t, m + 1, Len(t))) IN
           adds \in Seq(Tokens) /\ Good(p \o adds, W) /\ Ended(p \o adds)
<1> DEFINE v == SubSeq(p, m + 1, Len(p))  w == SubSeq(t, m + 1, Len(t))
<1>1. w \in Seq(Tokens) /\ InOrder(w) /\ Once(w) /\ BegunIn(w, W)
  BY GoodTail DEF IsTail
<1>2. Fits(p, w, Lacking(v, w))
  <2>1. IsTail(w, t, m)
    BY GoodTail
  <2>2. m \in 0..Len(p)
    BY DEF Good
  <2>3. IsTail(v, p, m)
    BY <2>2, GoodTail
  <2> HIDE DEF v, w
  <2>4. Ended(v) /\ (m = 0 \/ Spans(w) # {})
    BY DEF v, w
  <2>q. QED BY <1>1, <2>1, <2>3, <2>4, MissingFits
<1> HIDE DEF w, v
<1>3. LET a == Picked(w, Lacking(v, w)) IN a \in Seq(Tokens) /\ Good(p \o a, W) /\ Ended(p \o a)
  BY <1>1, <1>2, GoodPicks
<1>4. Missing(v, w) = Picked(w, Lacking(v, w))
  BY DEF Missing, Lacking
<1>q. QED BY <1>3, <1>4 DEF v, w

-----------------------------------------------------------------------------
(* The inductive invariant.                                                *)

HistoryType ==
    /\ DOMAIN copy = Hosts /\ \A h \in Hosts : "text" \in DOMAIN copy[h]
    /\ writer \in [Hosts -> [open : BOOLEAN, in : SUBSET Lines]]
    /\ DOMAIN sync = Hosts

CopiesAreGood == \A h \in Hosts : Good(copy[h].text, written)

\* The line a tool is in is the last one; between lines its file is ended.
ToolsAreLast ==
    \A h \in Hosts :
        /\ \A l \in writer[h].in : writer[h].open /\ Len(copy[h].text) > 0 /\ copy[h].text[Len(copy[h].text)] = Half(l)
        /\ writer[h].open /\ writer[h].in = {} => Ended(copy[h].text)

\* What a run has read is good, and so is what it is about to write.
RunIsGood(s, W) ==
    /\ "at" \in DOMAIN s
    /\ s.at = "plan" => "seen" \in DOMAIN s /\ s.seen.size \in Nat
    /\ s.at \in {"lock", "merge", "append", "align"} =>
           {"text", "offset"} \subseteq DOMAIN s /\ Good(s.text, W) /\ s.offset \in 0..Len(s.text)
    /\ s.at = "append" => {"before", "adds"} \subseteq DOMAIN s /\ s.adds \in Seq(Tokens) /\ Good(s.before.text \o s.adds, W)

RunsAreGood == \A h \in Hosts : RunIsGood(sync[h], written)

HistoryInv == HistoryType /\ CopiesAreGood /\ ToolsAreLast /\ RunsAreGood

LEMMA GoodStays == ASSUME NEW W, NEW V, W \subseteq V, NEW t, Good(t, W) PROVE Good(t, V)
BY DEF Good, BegunIn

LEMMA RunStays == ASSUME NEW W, NEW V, W \subseteq V, NEW s, RunIsGood(s, W) PROVE RunIsGood(s, V)
BY GoodStays DEF RunIsGood

LEMMA PeerIsHost == ASSUME NEW h \in Hosts PROVE Peer(h) \in Hosts /\ Peer(h) # h
<1>1. \E o \in Hosts : o # h
  <2> SUFFICES ASSUME \A o \in Hosts : o = h PROVE FALSE
    OBVIOUS
  <2>1. Hosts = {h}
    OBVIOUS
  <2>2. Cardinality({h}) = 1
    BY FS_Singleton
  <2>q. QED BY <2>1, <2>2, HistoryAssumption
<1>q. QED BY <1>1 DEF Peer

LEMMA EndsAreHosts == ASSUME NEW h \in Hosts PROVE Sender(h) \in Hosts /\ Receiver(h) \in Hosts
BY PeerIsHost DEF Sender, Receiver

\* What is left of a run by a step that only loses its quiet.
LEMMA QuietIsLost == ASSUME NEW W, NEW s, RunIsGood(s, W) PROVE RunIsGood([s EXCEPT !.quiet = FALSE], W)
<1> DEFINE e == [s EXCEPT !.quiet = FALSE]
<1>1. DOMAIN e = DOMAIN s
  OBVIOUS
<1>2. \A f \in DOMAIN s : f # "quiet" => e[f] = s[f]
  OBVIOUS
<1> HIDE DEF e
<1>3. "at" \in DOMAIN e /\ e.at = s.at
  BY <1>1, <1>2 DEF RunIsGood
<1>4. "seen" \in DOMAIN s => e.seen = s.seen
  BY <1>2
<1>5. "text" \in DOMAIN s => e.text = s.text
  BY <1>2
<1>6. "offset" \in DOMAIN s => e.offset = s.offset
  BY <1>2
<1>7. "before" \in DOMAIN s => e.before = s.before
  BY <1>2
<1>8. "adds" \in DOMAIN s => e.adds = s.adds
  BY <1>2
<1>9. e.at = "plan" => "seen" \in DOMAIN e /\ e.seen.size \in Nat
  BY <1>1, <1>3, <1>4 DEF RunIsGood
<1>10. e.at \in {"lock", "merge", "append", "align"} =>
         {"text", "offset"} \subseteq DOMAIN e /\ Good(e.text, W) /\ e.offset \in 0..Len(e.text)
  BY <1>1, <1>3, <1>5, <1>6 DEF RunIsGood
<1>11. e.at = "append" => {"before", "adds"} \subseteq DOMAIN e /\ e.adds \in Seq(Tokens) /\ Good(e.before.text \o e.adds, W)
  BY <1>1, <1>3, <1>7, <1>8 DEF RunIsGood
<1>q. QED BY <1>3, <1>9, <1>10, <1>11 DEF RunIsGood, e

LEMMA DisturbedRuns == ASSUME HistoryInv, Disturbs, written \subseteq written' PROVE DOMAIN sync' = Hosts /\ RunsAreGood'
<1>1. DOMAIN sync' = Hosts
  BY DEF Disturbs
<1>2. ASSUME NEW h \in Hosts PROVE RunIsGood(sync'[h], written')
  <2>1. sync'[h] = IF sync[h].at = "idle" THEN sync[h] ELSE [sync[h] EXCEPT !.quiet = FALSE]
    BY DEF Disturbs
  <2>2. RunIsGood(sync[h], written)
    BY DEF HistoryInv, RunsAreGood
  <2>3. RunIsGood([sync[h] EXCEPT !.quiet = FALSE], written)
    BY <2>2, QuietIsLost
  <2>4. RunIsGood(sync'[h], written)
    BY <2>1, <2>2, <2>3
  <2>q. QED BY <2>4, RunStays
<1>q. QED BY <1>1, <1>2 DEF RunsAreGood

LEMMA AddsExtends == ASSUME HistoryType, NEW h \in Hosts, NEW x, Adds(h, x)
    PROVE  /\ DOMAIN copy' = Hosts /\ \A k \in Hosts : "text" \in DOMAIN copy'[k]
           /\ copy'[h].text = copy[h].text \o x
           /\ \A k \in Hosts : k # h => copy'[k] = copy[k]
BY DEF HistoryType, Adds

\* One run goes on, and no text changes.
RunStep(h, e) ==
    /\ sync' = [sync EXCEPT ![h] = e] /\ RunIsGood(e, written)
    /\ DOMAIN copy' = Hosts /\ \A k \in Hosts : "text" \in DOMAIN copy'[k] /\ copy'[k].text = copy[k].text
    /\ UNCHANGED <<writer, written>>

LEMMA RunStepKeeps == ASSUME HistoryInv, NEW h \in Hosts, NEW e, RunStep(h, e) PROVE HistoryInv'
<1>1. HistoryType'
  BY DEF HistoryInv, HistoryType, RunStep
<1>2. CopiesAreGood'
  BY DEF HistoryInv, CopiesAreGood, RunStep
<1>3. ToolsAreLast'
  <2> SUFFICES ASSUME NEW k \in Hosts
               PROVE /\ \A l \in writer'[k].in : writer'[k].open /\ Len(copy'[k].text) > 0 /\ copy'[k].text[Len(copy'[k].text)] = Half(l)
                     /\ writer'[k].open /\ writer'[k].in = {} => Ended(copy'[k].text)
    BY DEF ToolsAreLast
  <2>1. writer' = writer /\ copy'[k].text = copy[k].text
    BY DEF RunStep
  <2>q. QED BY <2>1 DEF HistoryInv, ToolsAreLast
<1>4. RunsAreGood'
  <2> SUFFICES ASSUME NEW k \in Hosts PROVE RunIsGood(sync'[k], written')
    BY DEF RunsAreGood
  <2>1. sync'[k] = (IF k = h THEN e ELSE sync[k]) /\ written' = written
    BY DEF HistoryInv, HistoryType, RunStep
  <2>q. QED BY <2>1 DEF HistoryInv, RunsAreGood, RunStep
<1>q. QED BY <1>1, <1>2, <1>3, <1>4 DEF HistoryInv

\* After a tool's step the file it wrote is as good as it was.
LEMMA ToolStepKeeps ==
    ASSUME HistoryInv, Disturbs, written \subseteq written', NEW h \in Hosts, NEW x,
           NEW u \in [open : BOOLEAN, in : SUBSET Lines],
           writer' = [writer EXCEPT ![h] = u],
           DOMAIN copy' = Hosts, \A k \in Hosts : "text" \in DOMAIN copy'[k],
           copy'[h].text = x, Good(x, written'),
           \A k \in Hosts : k # h => copy'[k] = copy[k],
           \A l \in u.in : u.open /\ Len(x) > 0 /\ x[Len(x)] = Half(l),
           u.open /\ u.in = {} => Ended(x)
    PROVE  HistoryInv'
<1>1. DOMAIN sync' = Hosts /\ RunsAreGood'
  BY DisturbedRuns
<1>2. writer' \in [Hosts -> [open : BOOLEAN, in : SUBSET Lines]] /\ \A k \in Hosts : writer'[k] = IF k = h THEN u ELSE writer[k]
  BY DEF HistoryInv, HistoryType
<1>3. HistoryType'
  BY <1>1, <1>2 DEF HistoryType
<1>4. CopiesAreGood'
  <2> SUFFICES ASSUME NEW k \in Hosts PROVE Good(copy'[k].text, written')
    BY DEF CopiesAreGood
  <2>1. CASE k = h
    BY <2>1
  <2>2. CASE k # h
    <3>1. Good(copy[k].text, written)
      BY DEF HistoryInv, CopiesAreGood
    <3>q. QED BY <3>1, <2>2, GoodStays
  <2>q. QED BY <2>1, <2>2
<1>5. ToolsAreLast'
  <2> SUFFICES ASSUME NEW k \in Hosts
               PROVE /\ \A l \in writer'[k].in : writer'[k].open /\ Len(copy'[k].text) > 0 /\ copy'[k].text[Len(copy'[k].text)] = Half(l)
                     /\ writer'[k].open /\ writer'[k].in = {} => Ended(copy'[k].text)
    BY DEF ToolsAreLast
  <2>1. CASE k = h
    BY <2>1, <1>2
  <2>2. CASE k # h
    BY <2>2, <1>2 DEF HistoryInv, ToolsAreLast
  <2>q. QED BY <2>1, <2>2
<1>q. QED BY <1>1, <1>3, <1>4, <1>5 DEF HistoryInv

LEMMA OpensStep == ASSUME HistoryInv, NEW h \in Hosts, Opens(h) PROVE HistoryInv'
<1>1. /\ HistoryType /\ Good(copy[h].text, written) /\ writer[h] \in [open : BOOLEAN, in : SUBSET Lines]
      /\ ~writer[h].open /\ Ended(copy[h].text) /\ Disturbs /\ written' = written
  BY DEF HistoryInv, HistoryType, CopiesAreGood, Opens
<1>2. writer[h].in = {}
  BY <1>1 DEF HistoryInv, ToolsAreLast
<1> DEFINE u == [writer[h] EXCEPT !.open = TRUE]
<1>3. writer' = [writer EXCEPT ![h] = u]
  BY DEF Opens
<1>4. u \in [open : BOOLEAN, in : SUBSET Lines] /\ u.open /\ u.in = {}
  BY <1>1, <1>2
<1>5. /\ DOMAIN copy' = Hosts /\ \A k \in Hosts : "text" \in DOMAIN copy'[k]
      /\ copy'[h].text = copy[h].text /\ \A k \in Hosts : k # h => copy'[k] = copy[k]
  <2>1. CASE copy[h].there
    <3>1. copy' = copy
      BY <2>1 DEF Opens
    <3>q. QED BY <3>1, <1>1 DEF HistoryType
  <2>2. CASE ~copy[h].there
    <3>1. Adds(h, << >>)
      BY <2>2 DEF Opens
    <3>2. copy[h].text \o << >> = copy[h].text
      BY <1>1 DEF Good
    <3>q. QED BY <1>1, <3>1, <3>2, AddsExtends
  <2>q. QED BY <2>1, <2>2
<1> HIDE DEF u
<1>q. QED BY <1>1, <1>3, <1>4, <1>5, ToolStepKeeps

LEMMA AppendOne == ASSUME NEW S, NEW p \in Seq(S), NEW a \in S PROVE p \o <<a>> = Append(p, a)
<1>1. p \o <<a>> \in Seq(S) /\ Append(p, a) \in Seq(S) /\ Len(p \o <<a>>) = Len(Append(p, a))
  OBVIOUS
<1>2. \A i \in 1..Len(p \o <<a>>) : (p \o <<a>>)[i] = Append(p, a)[i]
  OBVIOUS
<1>q. QED BY <1>1, <1>2, SeqEqual

LEMMA BeginsLineStep == ASSUME TokensDiffer, HistoryInv, NEW h \in Hosts, NEW l \in Lines, BeginsLine(h, l) PROVE HistoryInv'
<1> DEFINE p == copy[h].text  x == Append(p, Half(l))
<1>1. /\ HistoryType /\ Good(p, written) /\ writer[h] \in [open : BOOLEAN, in : SUBSET Lines]
      /\ writer[h].open /\ writer[h].in = {} /\ l \notin written /\ Disturbs /\ written' = written \cup {l}
      /\ Adds(h, <<Half(l)>>)
  BY DEF HistoryInv, HistoryType, CopiesAreGood, BeginsLine
<1>2. Ended(p)
  BY <1>1 DEF HistoryInv, ToolsAreLast
<1> DEFINE u == [writer[h] EXCEPT !.in = {l}]
<1>3. writer' = [writer EXCEPT ![h] = u]
  BY DEF BeginsLine
<1>4. u \in [open : BOOLEAN, in : SUBSET Lines] /\ u.open /\ u.in = {l}
  BY <1>1
<1>5. Half(l) \in Tokens /\ p \in Seq(Tokens)
  BY <1>1, TokensIn DEF Good
<1>6. /\ DOMAIN copy' = Hosts /\ \A k \in Hosts : "text" \in DOMAIN copy'[k]
      /\ copy'[h].text = x /\ \A k \in Hosts : k # h => copy'[k] = copy[k]
  <2>1. p \o <<Half(l)>> = x
    BY <1>5, AppendOne
  <2>q. QED BY <1>1, <2>1, AddsExtends
<1>7. Good(x, written')
  <2>1. Good(p, written')
    BY <1>1, GoodStays
  <2>2. \A i \in 1..Len(p) : p[i] # Half(l)
    BY <1>1 DEF Good, BegunIn
  <2>3. \A m \in Lines : Half(l) # End(m)
    BY DEF TokensDiffer
  <2>4. \A m \in Lines : Half(l) = Half(m) => m \in written'
    BY <1>1 DEF TokensDiffer
  <2> DEFINE a == Half(l)
  <2> HIDE DEF p, a
  <2>5. Good(Append(p, a), written')
    BY <1>2, <1>5, <2>1, <2>2, <2>3, <2>4, GoodGrows DEF a
  <2>q. QED BY <2>5 DEF p, a
<1>8. Len(x) > 0 /\ x[Len(x)] = Half(l)
  BY <1>5
<1> HIDE DEF u, x
<1>9. /\ \A m \in u.in : u.open /\ Len(x) > 0 /\ x[Len(x)] = Half(m)
      /\ u.open /\ u.in = {} => Ended(x)
  BY <1>4, <1>8
<1>q. QED BY <1>1, <1>3, <1>4, <1>6, <1>7, <1>9, ToolStepKeeps

LEMMA EndsLineStep == ASSUME TokensDiffer, HistoryInv, NEW h \in Hosts, EndsLine(h) PROVE HistoryInv'
<1>1. PICK l \in writer[h].in : Adds(h, <<End(l)>>)
  BY DEF EndsLine
<1> DEFINE p == copy[h].text  x == Append(p, End(l))
<1>2. /\ HistoryType /\ Good(p, written) /\ writer[h] \in [open : BOOLEAN, in : SUBSET Lines]
      /\ Disturbs /\ written' = written
  BY DEF HistoryInv, HistoryType, CopiesAreGood, EndsLine
<1>3. l \in Lines /\ writer[h].open /\ Len(p) > 0 /\ p[Len(p)] = Half(l)
  BY <1>2 DEF HistoryInv, ToolsAreLast
<1> DEFINE u == [writer[h] EXCEPT !.in = {}]
<1>4. writer' = [writer EXCEPT ![h] = u]
  BY DEF EndsLine
<1>5. u \in [open : BOOLEAN, in : SUBSET Lines] /\ u.open /\ u.in = {}
  BY <1>2, <1>3
<1>6. End(l) \in Tokens /\ End(l) \in LineEnds /\ End(l) \notin Halves /\ p \in Seq(Tokens)
  BY <1>2, <1>3, TokensIn, TokenKinds DEF Good
<1>7. /\ DOMAIN copy' = Hosts /\ \A k \in Hosts : "text" \in DOMAIN copy'[k]
      /\ copy'[h].text = x /\ \A k \in Hosts : k # h => copy'[k] = copy[k]
  <2>1. p \o <<End(l)>> = x
    BY <1>6, AppendOne
  <2>q. QED BY <1>1, <1>2, <2>1, AddsExtends
<1>8. Good(x, written') /\ Ended(x)
  <2>1. ASSUME NEW i \in 1..Len(p), p[i] = End(l) PROVE FALSE
    <3>1. Len(p) \in Nat
      BY <1>6
    <3>2. i # 1
      BY <1>2, <1>3, <1>6, <2>1 DEF Good
    <3>3. i \in 2..Len(p) /\ i - 1 \in 1..Len(p)
      BY <3>1, <3>2
    <3>4. p[i - 1] = Half(l)
      BY <1>2, <1>3, <2>1, <3>3 DEF Good, InOrder
    <3>5. i - 1 = Len(p)
      BY <1>2, <1>3, <3>1, <3>3, <3>4 DEF Good, Once
    <3>q. QED BY <3>1, <3>5
  <2>2. \A m \in Lines : End(l) = End(m) => m = l
    BY <1>3 DEF TokensDiffer
  <2>3. \A m \in Lines : End(l) # Half(m)
    BY <1>3 DEF TokensDiffer
  <2> DEFINE a == End(l)
  <2> HIDE DEF p, a
  <2>4. /\ \A m \in Lines : a = End(m) => Len(p) > 0 /\ p[Len(p)] = Half(m)
        /\ \A m \in Lines : a = Half(m) => m \in written
        /\ \A i \in 1..Len(p) : p[i] # a
        /\ a \in Tokens /\ a \in LineEnds /\ a \notin Halves
    BY <1>3, <1>6, <2>1, <2>2, <2>3 DEF a
  <2>5. Good(Append(p, a), written) /\ Ended(Append(p, a))
    BY <1>2, <2>4, GoodGrows
  <2>q. QED BY <1>2, <2>5 DEF p, a
<1> HIDE DEF u, x
<1>q. QED BY <1>2, <1>4, <1>5, <1>7, <1>8, ToolStepKeeps

LEMMA ClosesStep == ASSUME HistoryInv, NEW h \in Hosts, Closes(h) PROVE HistoryInv'
<1>1. /\ HistoryType /\ Good(copy[h].text, written) /\ Disturbs /\ written' = written /\ copy' = copy
  BY DEF HistoryInv, CopiesAreGood, Closes
<1> DEFINE u == [open |-> FALSE, in |-> {}]
<1>2. writer' = [writer EXCEPT ![h] = u] /\ u \in [open : BOOLEAN, in : SUBSET Lines] /\ ~u.open /\ u.in = {}
  BY DEF Closes
<1>3. DOMAIN copy' = Hosts /\ \A k \in Hosts : "text" \in DOMAIN copy'[k]
  BY <1>1 DEF HistoryType
<1> HIDE DEF u
<1>q. QED BY <1>1, <1>2, <1>3, ToolStepKeeps

LEMMA TextsStand == ASSUME HistoryInv, copy' = copy
    PROVE  DOMAIN copy' = Hosts /\ \A k \in Hosts : "text" \in DOMAIN copy'[k] /\ copy'[k].text = copy[k].text
BY DEF HistoryInv, HistoryType

\* A run that has nothing in hand goes on.
LEMMA GoesStep ==
    ASSUME HistoryInv, NEW h \in Hosts, NEW at, at \notin {"plan", "append"},
           at \in {"lock", "merge", "align"} => sync[h].at \in {"lock", "merge", "append", "align"},
           Goes(h, at), UNCHANGED <<copy, writer, written>>
    PROVE  HistoryInv'
<1> DEFINE s == sync[h]
<1> DEFINE e == [s EXCEPT !.at = at]
<1>1. RunIsGood(s, written)
  BY DEF HistoryInv, RunsAreGood
<1>2. sync' = [sync EXCEPT ![h] = e]
  BY DEF Goes
<1> HIDE DEF s
<1>3. RunIsGood(e, written)
  <2>1. DOMAIN e = DOMAIN s /\ e.at = at
    BY <1>1 DEF RunIsGood
  <2>2. \A f \in DOMAIN s : f # "at" => e[f] = s[f]
    OBVIOUS
  <2> HIDE DEF e
  <2>3. "text" \in DOMAIN s => e.text = s.text
    BY <2>2
  <2>4. "offset" \in DOMAIN s => e.offset = s.offset
    BY <2>2
  <2>5. at \in {"lock", "merge", "align"} =>
          {"text", "offset"} \subseteq DOMAIN e /\ Good(e.text, written) /\ e.offset \in 0..Len(e.text)
    BY <1>1, <2>1, <2>3, <2>4 DEF RunIsGood, s
  <2>6. "at" \in DOMAIN e
    BY <1>1, <2>1 DEF RunIsGood
  <2>q. QED BY <2>1, <2>5, <2>6 DEF RunIsGood
<1> HIDE DEF e
<1>4. RunStep(h, e)
  BY <1>2, <1>3, TextsStand DEF RunStep
<1>q. QED BY <1>4, RunStepKeeps

LEMMA OverStep ==
    ASSUME HistoryInv, NEW h \in Hosts, NEW good, Over(h, good),
           DOMAIN copy' = Hosts, \A k \in Hosts : "text" \in DOMAIN copy'[k] /\ copy'[k].text = copy[k].text,
           UNCHANGED <<writer, written>>
    PROVE  HistoryInv'
<1> DEFINE e == [at |-> IF sync[h].pull THEN "manifest" ELSE "done", pull |-> FALSE, quiet |-> sync[h].quiet /\ good]
<1>1. sync' = [sync EXCEPT ![h] = e]
  BY DEF Over
<1>2. RunIsGood(e, written)
  <2>1. "at" \in DOMAIN e /\ e.at \in {"manifest", "done"}
    OBVIOUS
  <2> HIDE DEF e
  <2>q. QED BY <2>1 DEF RunIsGood
<1> HIDE DEF e
<1>3. RunStep(h, e)
  BY <1>1, <1>2 DEF RunStep
<1>q. QED BY <1>3, RunStepKeeps

LEMMA DeferredStep == ASSUME HistoryInv, NEW h \in Hosts, Deferred(h), UNCHANGED <<copy, writer, written>> PROVE HistoryInv'
<1>1. CASE Goes(h, "bulk")
  BY <1>1, GoesStep
<1>2. CASE Over(h, TRUE)
  BY <1>2, OverStep, TextsStand
<1>q. QED BY <1>1, <1>2 DEF Deferred

LEMMA RunStartsStep == ASSUME HistoryInv, NEW h \in Hosts, RunStarts(h) PROVE HistoryInv'
<1> DEFINE e == [at |-> "manifest", pull |-> TRUE, quiet |-> \A k \in Hosts : ~writer[k].open /\ Ended(copy[k].text)]
<1>1. sync' = [sync EXCEPT ![h] = e] /\ UNCHANGED <<copy, writer, written>>
  BY DEF RunStarts
<1>2. RunIsGood(e, written)
  <2>1. "at" \in DOMAIN e /\ e.at = "manifest"
    OBVIOUS
  <2> HIDE DEF e
  <2>q. QED BY <2>1 DEF RunIsGood
<1> HIDE DEF e
<1>3. RunStep(h, e)
  BY <1>1, <1>2, TextsStand DEF RunStep
<1>q. QED BY <1>3, RunStepKeeps

LEMMA RunEndsStep == ASSUME HistoryInv, NEW h \in Hosts, RunEnds(h) PROVE HistoryInv'
<1> DEFINE e == [at |-> "idle"]
<1>1. sync' = [sync EXCEPT ![h] = e] /\ UNCHANGED <<copy, writer, written>>
  BY DEF RunEnds
<1>2. RunIsGood(e, written)
  <2>1. "at" \in DOMAIN e /\ e.at = "idle"
    OBVIOUS
  <2> HIDE DEF e
  <2>q. QED BY <2>1 DEF RunIsGood
<1> HIDE DEF e
<1>3. RunStep(h, e)
  BY <1>1, <1>2, TextsStand DEF RunStep
<1>q. QED BY <1>3, RunStepKeeps

LEMMA ManifestStep == ASSUME HistoryInv, NEW h \in Hosts, Manifest(h) PROVE HistoryInv'
<1>1. UNCHANGED <<copy, writer, written>>
  BY DEF Manifest
<1>2. CASE Goes(h, "bulk")
  BY <1>1, <1>2, GoesStep
<1>3. CASE large /\ copy[Receiver(h)].there
  <2> DEFINE c == copy[Receiver(h)]
  <2> DEFINE f == [at |-> "plan", seen |-> Info(c)]
  <2> DEFINE e == With(sync[h], f)
  <2>1. sync' = [sync EXCEPT ![h] = e]
    BY <1>3 DEF Manifest
  <2>2. Info(c).size \in Nat
    BY EndsAreHosts DEF HistoryInv, CopiesAreGood, Good, Info
  <2>3. "at" \in DOMAIN e /\ "seen" \in DOMAIN e /\ e.at = "plan" /\ e.seen = Info(c)
    BY DEF With
  <2> HIDE DEF e
  <2>4. RunIsGood(e, written)
    BY <2>2, <2>3 DEF RunIsGood
  <2>5. RunStep(h, e)
    BY <1>1, <2>1, <2>4, TextsStand DEF RunStep
  <2>q. QED BY <2>5, RunStepKeeps
<1>q. QED BY <1>2, <1>3 DEF Manifest

\* The run has the sender's text in hand.
LEMMA TakesStep ==
    ASSUME HistoryInv, NEW h \in Hosts, NEW tail, NEW mtime, NEW k \in Hosts, NEW offset \in 0..Len(copy[k].text),
           sync' = [sync EXCEPT ![h] = With(@, [at |-> "lock", tail |-> tail, mtime |-> mtime, text |-> copy[k].text, offset |-> offset])],
           UNCHANGED <<copy, writer, written>>
    PROVE  HistoryInv'
<1> DEFINE f == [at |-> "lock", tail |-> tail, mtime |-> mtime, text |-> copy[k].text, offset |-> offset]
<1> DEFINE e == With(sync[h], f)
<1>1. sync' = [sync EXCEPT ![h] = e]
  OBVIOUS
<1>2. {"at", "text", "offset"} \subseteq DOMAIN e /\ e.at = "lock" /\ e.text = copy[k].text /\ e.offset = offset
  BY DEF With
<1> HIDE DEF e
<1>3. Good(e.text, written)
  BY <1>2 DEF HistoryInv, CopiesAreGood
<1>4. RunIsGood(e, written)
  BY <1>2, <1>3 DEF RunIsGood
<1>5. RunStep(h, e)
  BY <1>1, <1>4, TextsStand DEF RunStep
<1>q. QED BY <1>5, RunStepKeeps

LEMMA PlanStep == ASSUME HistoryInv, NEW h \in Hosts, Plan(h) PROVE HistoryInv'
<1> DEFINE k == Sender(h)
<1> DEFINE c == copy[k]
<1> DEFINE seen == sync[h].seen
<1> DEFINE offset == IF Len(c.text) < seen.size THEN Len(c.text) ELSE seen.size
<1>1. UNCHANGED <<copy, writer, written>> /\ k \in Hosts /\ sync[h].at = "plan"
  BY EndsAreHosts DEF Plan
<1>2. offset \in 0..Len(c.text)
  <2>1. seen.size \in Nat
    BY <1>1 DEF HistoryInv, RunsAreGood, RunIsGood
  <2>2. Len(c.text) \in Nat
    BY <1>1 DEF HistoryInv, CopiesAreGood, Good
  <2>q. QED BY <2>1, <2>2
<1>3. \/ Goes(h, "bulk") \/ Over(h, TRUE)
      \/ sync' = [sync EXCEPT ![h] = With(@, [at |-> "lock", tail |-> TRUE, mtime |-> c.mtime, text |-> c.text, offset |-> offset])]
  BY DEF Plan
<1> HIDE DEF offset, k
<1>4. CASE Goes(h, "bulk")
  BY <1>1, <1>4, GoesStep
<1>5. CASE Over(h, TRUE)
  BY <1>1, <1>5, OverStep, TextsStand
<1>6. CASE sync' = [sync EXCEPT ![h] = With(@, [at |-> "lock", tail |-> TRUE, mtime |-> c.mtime, text |-> c.text, offset |-> offset])]
  BY <1>1, <1>2, <1>6, TakesStep
<1>q. QED BY <1>3, <1>4, <1>5, <1>6

LEMMA BulkStep == ASSUME HistoryInv, NEW h \in Hosts, Bulk(h) PROVE HistoryInv'
<1> DEFINE k == Sender(h)
<1> DEFINE c == copy[k]
<1>1. UNCHANGED <<copy, writer, written>> /\ k \in Hosts
  BY EndsAreHosts DEF Bulk
<1>2. 0 \in 0..Len(c.text)
  BY <1>1 DEF HistoryInv, CopiesAreGood, Good
<1>3. \/ Over(h, TRUE)
      \/ sync' = [sync EXCEPT ![h] = With(@, [at |-> "lock", tail |-> FALSE, mtime |-> c.mtime, text |-> c.text, offset |-> 0])]
  BY DEF Bulk
<1> HIDE DEF k
<1>4. CASE Over(h, TRUE)
  BY <1>1, <1>4, OverStep, TextsStand
<1>5. CASE sync' = [sync EXCEPT ![h] = With(@, [at |-> "lock", tail |-> FALSE, mtime |-> c.mtime, text |-> c.text, offset |-> 0])]
  BY <1>1, <1>2, <1>5, TakesStep
<1>q. QED BY <1>3, <1>4, <1>5

LEMMA FailsStep == ASSUME HistoryInv, NEW h \in Hosts, Fails(h) PROVE HistoryInv'
BY OverStep, TextsStand DEF Fails

LEMMA LocksStep == ASSUME HistoryInv, NEW h \in Hosts, Locks(h) PROVE HistoryInv'
<1>1. sync[h].at = "lock" /\ Goes(h, "merge") /\ UNCHANGED <<copy, writer, written>>
  BY DEF Locks
<1>q. QED BY <1>1, GoesStep

LEMMA WillAppendStep ==
    ASSUME HistoryInv, NEW h \in Hosts, NEW adds \in Seq(Tokens), WillAppend(h, adds),
           sync[h].at = "merge", Good(copy[Receiver(h)].text \o adds, written), UNCHANGED <<copy, writer, written>>
    PROVE  HistoryInv'
<1> DEFINE s == sync[h]
<1> DEFINE f == [at |-> "append", before |-> copy[Receiver(h)], adds |-> adds]
<1> DEFINE e == With(s, f)
<1>1. sync' = [sync EXCEPT ![h] = e]
  BY DEF WillAppend
<1>2. {"text", "offset"} \subseteq DOMAIN s /\ Good(s.text, written) /\ s.offset \in 0..Len(s.text)
  BY DEF HistoryInv, RunsAreGood, RunIsGood
<1> HIDE DEF s
<1>3. {"at", "before", "adds"} \subseteq DOMAIN e /\ e.at = "append" /\ e.before = copy[Receiver(h)] /\ e.adds = adds
  BY DEF With
<1>4. {"text", "offset"} \subseteq DOMAIN e /\ e.text = s.text /\ e.offset = s.offset
  BY <1>2 DEF With
<1> HIDE DEF e
<1>5. RunIsGood(e, written)
  BY <1>2, <1>3, <1>4 DEF RunIsGood
<1>6. RunStep(h, e)
  BY <1>1, <1>5, TextsStand DEF RunStep
<1>q. QED BY <1>6, RunStepKeeps

LEMMA MergeTailStep == ASSUME TokensDiffer, HistoryInv, NEW h \in Hosts, MergeTail(h) PROVE HistoryInv'
<1> DEFINE r == Receiver(h)
<1> DEFINE p == copy[r].text
<1> DEFINE t == sync[h].text
<1> DEFINE m == sync[h].offset
<1> DEFINE extra == SubSeq(p, m + 1, Len(p))
<1> DEFINE news == Missing(extra, Rest(h))
<1>1. UNCHANGED <<copy, writer, written>> /\ sync[h].at = "merge" /\ r \in Hosts
  BY EndsAreHosts DEF MergeTail
<1>2. Good(p, written) /\ Good(t, written) /\ m \in 0..Len(t)
  BY <1>1 DEF HistoryInv, CopiesAreGood, RunsAreGood, RunIsGood
<1>3. \/ Deferred(h) \/ Over(h, TRUE) \/ Goes(h, "align")
      \/ /\ ~(Len(p) < m) /\ SubSeq(p, 1, m) = SubSeq(t, 1, m)
         /\ Spans(Rest(h)) # {} /\ Ended(extra) /\ WillAppend(h, news)
  BY DEF MergeTail
<1>4. CASE Deferred(h)
  BY <1>1, <1>4, DeferredStep
<1>5. CASE Over(h, TRUE)
  BY <1>1, <1>5, OverStep, TextsStand
<1>6. CASE Goes(h, "align")
  BY <1>1, <1>6, GoesStep
<1>7. CASE /\ ~(Len(p) < m) /\ SubSeq(p, 1, m) = SubSeq(t, 1, m)
           /\ Spans(Rest(h)) # {} /\ Ended(extra) /\ WillAppend(h, news)
  <2>1. Rest(h) = SubSeq(t, m + 1, Len(t))
    BY DEF Rest
  <2> HIDE DEF p, t, m
  <2>2. p \in Seq(Tokens) /\ t \in Seq(Tokens) /\ Len(p) \in Nat /\ Len(t) \in Nat /\ m <= Len(p)
    BY <1>2, <1>7 DEF Good
  <2>3. \A i \in 1..m : p[i] = t[i]
    <3> SUFFICES ASSUME NEW i \in 1..m PROVE p[i] = t[i]
      OBVIOUS
    <3>1. SubSeq(p, 1, m)[i] = p[i] /\ SubSeq(t, 1, m)[i] = t[i]
      BY <1>2, <2>2
    <3>q. QED BY <3>1, <1>7
  <2>4. news \in Seq(Tokens) /\ Good(p \o news, written)
    BY <1>2, <1>7, <2>1, <2>2, <2>3, MergeIsGood DEF SameUpTo
  <2> HIDE DEF news
  <2>q. QED BY <1>1, <1>7, <2>4, WillAppendStep DEF p
<1>q. QED BY <1>3, <1>4, <1>5, <1>6, <1>7

LEMMA MergeWholeStep == ASSUME TokensDiffer, HistoryInv, NEW h \in Hosts, MergeWhole(h) PROVE HistoryInv'
<1> DEFINE r == Receiver(h)
<1> DEFINE p == copy[r].text
<1> DEFINE t == sync[h].text
<1> DEFINE news == Missing(p, t)
<1>1. UNCHANGED <<writer, written>> /\ sync[h].at = "merge" /\ r \in Hosts
  BY EndsAreHosts DEF MergeWhole
<1>2. Good(p, written) /\ Good(t, written)
  BY <1>1 DEF HistoryInv, CopiesAreGood, RunsAreGood, RunIsGood
<1>3. \/ /\ copy' = [copy EXCEPT ![r].mtime = IF @ < sync[h].mtime THEN sync[h].mtime ELSE @]
         /\ Over(h, TRUE)
      \/ copy' = copy /\ (Deferred(h) \/ Goes(h, "align") \/ (Ended(p) /\ WillAppend(h, news)))
  BY DEF MergeWhole
<1>4. CASE copy' = [copy EXCEPT ![r].mtime = IF @ < sync[h].mtime THEN sync[h].mtime ELSE @] /\ Over(h, TRUE)
  <2>1. DOMAIN copy' = Hosts /\ \A k \in Hosts : "text" \in DOMAIN copy'[k] /\ copy'[k].text = copy[k].text
    BY <1>1, <1>4 DEF HistoryInv, HistoryType
  <2>q. QED BY <1>1, <1>4, <2>1, OverStep
<1>5. CASE copy' = copy /\ Deferred(h)
  BY <1>1, <1>5, DeferredStep
<1>6. CASE copy' = copy /\ Goes(h, "align")
  BY <1>1, <1>6, GoesStep
<1>7. CASE copy' = copy /\ Ended(p) /\ WillAppend(h, news)
  <2> HIDE DEF p, t
  <2>1. p \in Seq(Tokens) /\ t \in Seq(Tokens) /\ Len(p) \in Nat /\ Len(t) \in Nat
    BY <1>2 DEF Good
  <2>2. SubSeq(p, 0 + 1, Len(p)) = p /\ SubSeq(t, 0 + 1, Len(t)) = t
    BY <2>1
  <2>3. 0 \in 0..Len(t) /\ 0 <= Len(p) /\ \A i \in 1..0 : p[i] = t[i]
    BY <2>1
  <2>4. news \in Seq(Tokens) /\ Good(p \o news, written)
    BY <1>2, <1>7, <2>2, <2>3, MergeIsGood DEF SameUpTo
  <2> HIDE DEF news
  <2>q. QED BY <1>1, <1>7, <2>4, WillAppendStep DEF p
<1>q. QED BY <1>3, <1>4, <1>5, <1>6, <1>7

LEMMA AppendsToStep == ASSUME HistoryInv, NEW h \in Hosts, AppendsTo(h) PROVE HistoryInv'
<1> DEFINE r == Receiver(h)
<1> DEFINE adds == sync[h].adds
<1>1. UNCHANGED <<writer, written>> /\ sync[h].at = "append" /\ r \in Hosts
  BY EndsAreHosts DEF AppendsTo
<1>2. \/ copy' = copy /\ (Deferred(h) \/ Over(h, TRUE))
      \/ /\ ~writer[r].open /\ copy[r] = sync[h].before
         /\ Adds(r, adds) /\ Goes(h, "align")
  BY DEF AppendsTo
<1>3. CASE copy' = copy /\ Deferred(h)
  BY <1>1, <1>3, DeferredStep
<1>4. CASE copy' = copy /\ Over(h, TRUE)
  BY <1>1, <1>4, OverStep, TextsStand
<1>5. CASE ~writer[r].open /\ copy[r] = sync[h].before /\ Adds(r, adds) /\ Goes(h, "align")
  <2>1. Good(copy[r].text \o adds, written)
    BY <1>1, <1>5 DEF HistoryInv, RunsAreGood, RunIsGood
  <2>2. /\ DOMAIN copy' = Hosts /\ \A k \in Hosts : "text" \in DOMAIN copy'[k]
        /\ copy'[r].text = copy[r].text \o adds
        /\ \A k \in Hosts : k # r => copy'[k] = copy[k]
    BY <1>1, <1>5, AddsExtends DEF HistoryInv
  <2>3. CopiesAreGood'
    <3> SUFFICES ASSUME NEW k \in Hosts PROVE Good(copy'[k].text, written')
      BY DEF CopiesAreGood
    <3>1. CASE k = r
      BY <1>1, <2>1, <2>2, <3>1
    <3>2. CASE k # r
      BY <1>1, <2>2, <3>2 DEF HistoryInv, CopiesAreGood
    <3>q. QED BY <3>1, <3>2
  <2>4. ToolsAreLast'
    <3> SUFFICES ASSUME NEW k \in Hosts
                 PROVE /\ \A l \in writer'[k].in : writer'[k].open /\ Len(copy'[k].text) > 0 /\ copy'[k].text[Len(copy'[k].text)] = Half(l)
                       /\ writer'[k].open /\ writer'[k].in = {} => Ended(copy'[k].text)
      BY DEF ToolsAreLast
    <3>1. CASE k = r
      BY <1>1, <1>5, <3>1 DEF HistoryInv, ToolsAreLast
    <3>2. CASE k # r
      BY <1>1, <2>2, <3>2 DEF HistoryInv, ToolsAreLast
    <3>q. QED BY <3>1, <3>2
  <2> DEFINE s == sync[h]
  <2> DEFINE e == [s EXCEPT !.at = "align"]
  <2>5. sync' = [sync EXCEPT ![h] = e] /\ RunIsGood(s, written) /\ s.at = "append"
    BY <1>1, <1>5 DEF HistoryInv, RunsAreGood, Goes
  <2> HIDE DEF s
  <2>6. RunIsGood(e, written)
    <3>1. DOMAIN e = DOMAIN s /\ e.at = "align" /\ {"at", "text", "offset"} \subseteq DOMAIN s
      BY <2>5 DEF RunIsGood
    <3>2. e.text = s.text /\ e.offset = s.offset
      BY <3>1
    <3> HIDE DEF e
    <3>q. QED BY <2>5, <3>1, <3>2 DEF RunIsGood
  <2> HIDE DEF e
  <2>7. RunsAreGood'
    <3> SUFFICES ASSUME NEW k \in Hosts PROVE RunIsGood(sync'[k], written')
      BY DEF RunsAreGood
    <3>1. sync'[k] = (IF k = h THEN e ELSE sync[k]) /\ written' = written
      BY <1>1, <2>5 DEF HistoryInv, HistoryType
    <3>q. QED BY <2>6, <3>1 DEF HistoryInv, RunsAreGood
  <2>8. HistoryType'
    BY <1>1, <2>2, <2>5 DEF HistoryInv, HistoryType
  <2>q. QED BY <2>3, <2>4, <2>7, <2>8 DEF HistoryInv
<1>q. QED BY <1>2, <1>3, <1>4, <1>5

LEMMA AlignStep == ASSUME HistoryInv, NEW h \in Hosts, Align(h) PROVE HistoryInv'
<1> DEFINE r == Receiver(h)
<1>1. UNCHANGED <<writer, written>> /\ r \in Hosts /\ Over(h, TRUE)
  BY EndsAreHosts DEF Align
<1>2. copy' = copy \/ copy' = [copy EXCEPT ![r].mtime = sync[h].mtime]
  BY DEF Align
<1>3. DOMAIN copy' = Hosts /\ \A k \in Hosts : "text" \in DOMAIN copy'[k] /\ copy'[k].text = copy[k].text
  BY <1>1, <1>2 DEF HistoryInv, HistoryType
<1>q. QED BY <1>1, <1>3, OverStep

LEMMA HistoryStarts == HistoryInit => HistoryInv
<1> SUFFICES ASSUME HistoryInit PROVE HistoryInv
  OBVIOUS
<1>1. /\ DOMAIN copy = Hosts /\ \A h \in Hosts : "text" \in DOMAIN copy[h] /\ copy[h].text = << >>
      /\ writer = [h \in Hosts |-> [open |-> FALSE, in |-> {}]]
      /\ sync = [h \in Hosts |-> [at |-> "idle"]]
  BY DEF HistoryInit
<1>2. HistoryType
  BY <1>1 DEF HistoryType
<1>3. Good(<< >>, written)
  BY DEF Good, InOrder, Once, BegunIn
<1>4. CopiesAreGood
  BY <1>1, <1>3 DEF CopiesAreGood
<1>5. ToolsAreLast
  BY <1>1 DEF ToolsAreLast
<1>6. RunsAreGood
  BY <1>1 DEF RunsAreGood, RunIsGood
<1>q. QED BY <1>2, <1>4, <1>5, <1>6 DEF HistoryInv

LEMMA HistoryStep == ASSUME TokensDiffer, HistoryInv, [HistoryNext]_historyVars PROVE HistoryInv'
<1>1. CASE UNCHANGED historyVars
  BY <1>1 DEF historyVars, HistoryInv, HistoryType, CopiesAreGood, ToolsAreLast, RunsAreGood
<1>2. CASE HistoryNext
  <2>1. PICK h \in Hosts :
          \/ Opens(h) \/ EndsLine(h) \/ Closes(h) \/ \E l \in Lines : BeginsLine(h, l)
          \/ RunStarts(h) \/ RunEnds(h) \/ Manifest(h) \/ Plan(h) \/ Bulk(h) \/ Fails(h)
          \/ Locks(h) \/ MergeTail(h) \/ MergeWhole(h) \/ AppendsTo(h) \/ Align(h)
    BY <1>2 DEF HistoryNext
  <2>2. (Opens(h) \/ EndsLine(h) \/ Closes(h) \/ \E l \in Lines : BeginsLine(h, l)) => HistoryInv'
    BY OpensStep, EndsLineStep, ClosesStep, BeginsLineStep
  <2>3. (RunStarts(h) \/ RunEnds(h) \/ Manifest(h) \/ Plan(h) \/ Bulk(h) \/ Fails(h)) => HistoryInv'
    BY RunStartsStep, RunEndsStep, ManifestStep, PlanStep, BulkStep, FailsStep
  <2>4. (Locks(h) \/ MergeTail(h) \/ MergeWhole(h) \/ AppendsTo(h) \/ Align(h)) => HistoryInv'
    BY LocksStep, MergeTailStep, MergeWholeStep, AppendsToStep, AlignStep
  <2>q. QED BY <2>1, <2>2, <2>3, <2>4
<1>q. QED BY <1>1, <1>2

LEMMA HistoryHolds == SharedStarts = FALSE => (HistorySpec => []HistoryInv)
<1> SUFFICES ASSUME SharedStarts = FALSE PROVE HistorySpec => []HistoryInv
  OBVIOUS
<1>1. TokensDiffer
  BY TokensDo
<1>2. HistoryInv /\ [HistoryNext]_historyVars => HistoryInv'
  BY <1>1, HistoryStep
<1>q. QED BY <1>2, HistoryStarts, PTL DEF HistorySpec

\* In a good text first and second halves take turns.
LEMMA GoodIsWhole ==
    ASSUME TokensDiffer, NEW W, NEW t, Good(t, W)
    PROVE  \A i \in DOMAIN t : IF i % 2 = 1 THEN t[i] \in Halves
                               ELSE \E l \in Lines : t[i] = End(l) /\ t[i - 1] = Half(l)
<1>1. t \in Seq(Tokens) /\ Len(t) \in Nat /\ DOMAIN t = 1..Len(t) /\ \A i \in 1..Len(t) : t[i] \in Tokens
  BY DEF Good
<1>2. \A i \in 2..Len(t) : (t[i] \in Halves => t[i - 1] \in LineEnds) /\ (t[i] \in LineEnds => t[i - 1] \in Halves)
  <2> SUFFICES ASSUME NEW i \in 2..Len(t) PROVE (t[i] \in Halves => t[i - 1] \in LineEnds) /\ (t[i] \in LineEnds => t[i - 1] \in Halves)
    OBVIOUS
  <2>1. t[i] \in LineEnds => \E l \in Lines : t[i] = End(l)
    BY DEF LineEnds
  <2>2. \A l \in Lines : t[i] = End(l) => t[i - 1] \in Halves
    BY TokensIn DEF Good, InOrder
  <2>q. QED BY <2>1, <2>2 DEF Good, InOrder
<1> DEFINE F == {i \in 1..Len(t) : ~((i % 2 = 1) <=> t[i] \in Halves)}
<1>3. F = {}
  <2> SUFFICES ASSUME F # {} PROVE FALSE
    OBVIOUS
  <2>1. F \in SUBSET Nat
    BY <1>1
  <2>2. PICK n \in F : \A i \in F : n <= i
    <3> HIDE DEF F
    <3>q. QED BY <2>1, LeastNumber
  <2>3. n # 1
    <3>1. 1 % 2 = 1
      OBVIOUS
    <3>2. n = 1 => t # << >>
      BY <1>1, <2>2
    <3>q. QED BY <2>2, <3>1, <3>2 DEF Good
  <2>4. n \in 2..Len(t) /\ n - 1 \in 1..Len(t) /\ n - 1 \notin F
    BY <1>1, <2>2, <2>3
  <2>5. ((n - 1) % 2 = 1) <=> t[n - 1] \in Halves
    BY <2>4
  <2>6. (n % 2 = 1) <=> ~((n - 1) % 2 = 1)
    BY <2>4
  <2>7. t[n] \in Halves <=> ~(t[n - 1] \in Halves)
    BY <1>1, <1>2, <2>4, TokenKinds
  <2>q. QED BY <2>2, <2>5, <2>6, <2>7
<1>4. ASSUME NEW i \in 1..Len(t), ~(i % 2 = 1) PROVE \E l \in Lines : t[i] = End(l) /\ t[i - 1] = Half(l)
  <2>1. t[i] \notin Halves
    BY <1>3, <1>4
  <2>2. PICK l \in Lines : t[i] = End(l)
    BY <1>1, <2>1, TokenKinds
  <2>3. i # 1
    <3>1. 1 % 2 = 1
      OBVIOUS
    <3>q. QED BY <1>4, <3>1
  <2>4. i \in 2..Len(t)
    BY <1>1, <2>3
  <2>q. QED BY <2>2, <2>4 DEF Good, InOrder
<1>q. QED BY <1>1, <1>3, <1>4

\* A record of a good text stands there once.
LEMMA GoodHasOnce ==
    ASSUME NEW W, NEW t, Good(t, W)
    PROVE  IsInjective(Records(t))
<1>1. t \in Seq(Tokens) /\ Len(t) \in Nat /\ DOMAIN t = 1..Len(t)
  BY DEF Good
<1>2. DOMAIN Records(t) = Spans(t)
  BY DEF Records
<1>3. ASSUME NEW r \in Spans(t), NEW s \in Spans(t), Records(t)[r] = Records(t)[s] PROVE r = s
  <2> DEFINE b == r[1]  e == r[2]  c == s[1]  d == s[2]
  <2>1. /\ r = <<b, e>> /\ s = <<c, d>>
        /\ b \in 1..Len(t) /\ e \in 1..Len(t) /\ c \in 1..Len(t) /\ d \in 1..Len(t)
        /\ b <= e /\ c <= d
    BY <1>1 DEF Spans, IsRecord
  <2>2. SubSeq(t, b, e) = SubSeq(t, c, d)
    BY <1>3 DEF Records
  <2> HIDE DEF b, e, c, d
  <2>3. /\ Len(SubSeq(t, b, e)) = e - b + 1 /\ SubSeq(t, b, e)[e - b + 1] = t[e]
        /\ Len(SubSeq(t, c, d)) = d - c + 1 /\ SubSeq(t, c, d)[d - c + 1] = t[d]
    BY <1>1, <2>1
  <2>4. e - b = d - c /\ t[e] = t[d]
    BY <2>1, <2>2, <2>3
  <2>5. e = d
    BY <2>1, <2>4 DEF Good, Once
  <2>6. b = c
    BY <2>1, <2>4, <2>5
  <2>q. QED BY <2>1, <2>5, <2>6
<1>q. QED BY <1>2, <1>3 DEF IsInjective

\* A history is made of whole lines on either host: whatever the runs leave out,
\* defer, fail at or append, and whatever the tools do between a run's look and
\* its append (appendJsonlRecords and the tail merge of tail-sync.ts).  The
\* assumption is that no two lines begin with the same bytes: where they may, the
\* run history_fragment shows a torn one.
THEOREM LinesAreWhole == SharedStarts = FALSE => (HistorySpec => []WholeLines)
<1> SUFFICES ASSUME SharedStarts = FALSE PROVE HistorySpec => []WholeLines
  OBVIOUS
<1>1. TokensDiffer
  BY TokensDo
<1>2. HistoryInv => WholeLines
  BY <1>1, GoodIsWhole DEF HistoryInv, CopiesAreGood, WholeLines, Halves
<1>q. QED BY <1>2, HistoryHolds, PTL

\* No line stands twice in a copy: a run appends what the copy has not, and what
\* it appended it takes back only as what is there (mergeJsonlLineSetsOnto of
\* dedupe.ts), whoever else ran meanwhile.
THEOREM LinesStandOnce == SharedStarts = FALSE => (HistorySpec => []NothingTwice)
<1>1. HistoryInv => NothingTwice
  BY GoodHasOnce DEF HistoryInv, CopiesAreGood, NothingTwice
<1>q. QED BY <1>1, HistoryHolds, PTL

-----------------------------------------------------------------------------
(* The lines a text has.                                                   *)

Has(t) == {l \in Lines : \E i \in 1..Len(t) : t[i] = End(l)}

LEMMA HasBoth == ASSUME NEW p \in Seq(Tokens), NEW q \in Seq(Tokens) PROVE Has(p \o q) = Has(p) \cup Has(q)
<1> DEFINE x == p \o q
<1>1. /\ Len(p) \in Nat /\ Len(q) \in Nat /\ Len(x) = Len(p) + Len(q)
      /\ \A i \in 1..Len(p) : x[i] = p[i]
      /\ \A i \in 1..Len(q) : x[Len(p) + i] = q[i]
  OBVIOUS
<1> HIDE DEF x
<1>2. ASSUME NEW l \in Has(p) PROVE l \in Has(x)
  BY <1>1, <1>2 DEF Has
<1>3. ASSUME NEW l \in Has(q) PROVE l \in Has(x)
  <2>1. PICK i \in 1..Len(q) : q[i] = End(l)
    BY <1>3 DEF Has
  <2>2. Len(p) + i \in 1..Len(x) /\ x[Len(p) + i] = End(l)
    BY <1>1, <2>1
  <2>q. QED BY <1>3, <2>2 DEF Has
<1>4. ASSUME NEW l \in Has(x), l \notin Has(p) PROVE l \in Has(q)
  <2>1. PICK i \in 1..Len(x) : x[i] = End(l)
    BY <1>4 DEF Has
  <2>2. i \notin 1..Len(p)
    BY <1>1, <1>4, <2>1 DEF Has
  <2>3. i - Len(p) \in 1..Len(q) /\ Len(p) + (i - Len(p)) = i
    BY <1>1, <2>2
  <2>4. q[i - Len(p)] = End(l)
    BY <1>1, <2>1, <2>3
  <2>q. QED BY <1>4, <2>3, <2>4 DEF Has
<1>q. QED BY <1>2, <1>3, <1>4 DEF x

\* a stands in x; it stands in w at a place of K.
StandsIn(a, x) == \E i \in 1..Len(x) : x[i] = a

StandsAt(a, w, K) == \E j \in K : w[j] = a

\* What is picked is what stands at the places of K.
LEMMA PickedAre ==
    ASSUME NEW S, NEW w \in Seq(S), NEW K, K \subseteq 1..Len(w)
    PROVE  /\ Picked(w, K) \in Seq(S)
           /\ \A a : StandsIn(a, Picked(w, K)) <=> StandsAt(a, w, K)
<1> DEFINE g == Picks(w, K)
<1> DEFINE Sound(n) == /\ g[n] \in Seq(S)
                       /\ \A a : (\E i \in 1..Len(g[n]) : g[n][i] = a) <=> (\E j \in K : j <= n /\ w[j] = a)
<1> DEFINE F == {n \in 0..Len(w) : ~Sound(n)}
<1>1. Len(w) \in Nat
  OBVIOUS
<1>2. /\ g[0] = << >>
      /\ \A i \in 1..Len(w) : g[i] = IF i \in K THEN Append(g[i - 1], w[i]) ELSE g[i - 1]
  BY <1>1, PicksAre
<1> HIDE DEF g
<1>3. Sound(0)
  <2>1. g[0] \in Seq(S) /\ 1..Len(g[0]) = {}
    BY <1>2
  <2>2. \A j \in K : ~(j <= 0)
    OBVIOUS
  <2>q. QED BY <2>1, <2>2
<1>4. ASSUME NEW n \in 0..(Len(w) - 1), Sound(n) PROVE Sound(n + 1)
  <2>1. n + 1 \in 1..Len(w) /\ (n + 1) - 1 = n /\ w[n + 1] \in S
    BY <1>1
  <2>2. g[n + 1] = IF n + 1 \in K THEN Append(g[n], w[n + 1]) ELSE g[n]
    BY <1>2, <2>1
  <2>3. \A j \in K : j <= n + 1 <=> j <= n \/ j = n + 1
    BY <2>1
  <2>4. CASE n + 1 \notin K
    <3>1. g[n + 1] = g[n] /\ \A j \in K : j <= n + 1 <=> j <= n
      BY <2>2, <2>3, <2>4
    <3>q. QED BY <1>4, <3>1
  <2>5. CASE n + 1 \in K
    <3> DEFINE x == g[n]  y == g[n + 1]
    <3>1. /\ y \in Seq(S) /\ Len(x) \in Nat /\ Len(y) = Len(x) + 1 /\ y[Len(x) + 1] = w[n + 1]
          /\ \A i \in 1..Len(x) : y[i] = x[i]
      BY <1>4, <2>1, <2>2, <2>5
    <3>2. \A a : (\E i \in 1..Len(x) : x[i] = a) <=> (\E j \in K : j <= n /\ w[j] = a)
      BY <1>4
    <3> HIDE DEF x, y
    <3>3. ASSUME NEW a PROVE (\E i \in 1..Len(y) : y[i] = a) <=> (\E j \in K : j <= n + 1 /\ w[j] = a)
      <4>1. ASSUME NEW i \in 1..Len(y), y[i] = a PROVE \E j \in K : j <= n + 1 /\ w[j] = a
        <5>1. CASE i \in 1..Len(x)
          <6>1. \E k \in 1..Len(x) : x[k] = a
            BY <3>1, <4>1, <5>1
          <6>2. \E j \in K : j <= n /\ w[j] = a
            BY <3>2, <6>1
          <6>q. QED BY <6>2, <2>3
        <5>2. CASE i = Len(x) + 1
          BY <3>1, <4>1, <5>2, <2>3, <2>5
        <5>q. QED BY <3>1, <5>1, <5>2
      <4>2. ASSUME NEW j \in K, j <= n + 1, w[j] = a PROVE \E i \in 1..Len(y) : y[i] = a
        <5>1. CASE j <= n
          <6>1. PICK i \in 1..Len(x) : x[i] = a
            BY <3>2, <4>2, <5>1
          <6>2. i \in 1..Len(y) /\ y[i] = a
            BY <3>1, <6>1
          <6>q. QED BY <6>2
        <5>2. CASE j = n + 1
          <6>1. Len(x) + 1 \in 1..Len(y) /\ y[Len(x) + 1] = a
            BY <3>1, <4>2, <5>2
          <6>q. QED BY <6>1
        <5>q. QED BY <4>2, <5>1, <5>2, <2>3
      <4>q. QED BY <4>1, <4>2
    <3>q. QED BY <3>1, <3>3 DEF y
  <2>q. QED BY <2>4, <2>5
<1> HIDE DEF Sound
<1>5. F = {}
  <2> SUFFICES ASSUME F # {} PROVE FALSE
    OBVIOUS
  <2>1. F \in SUBSET Nat
    OBVIOUS
  <2>2. PICK n \in F : \A i \in F : n <= i
    <3> HIDE DEF F
    <3>q. QED BY <2>1, LeastNumber
  <2>3. n # 0
    BY <1>3, <2>2
  <2>4. n - 1 \in 0..(Len(w) - 1) /\ (n - 1) + 1 = n
    BY <1>1, <2>2, <2>3
  <2>5. Sound(n - 1)
    BY <1>1, <2>2, <2>4
  <2>q. QED BY <1>4, <2>2, <2>4, <2>5
<1>6. Sound(Len(w))
  BY <1>1, <1>5
<1>7. \A j \in K : j <= Len(w)
  BY <1>1
<1>8. Picked(w, K) = g[Len(w)]
  BY DEF Picked, g
<1>9. \A a : StandsIn(a, g[Len(w)]) <=> StandsAt(a, w, K)
  BY <1>6, <1>7 DEF Sound, StandsIn, StandsAt
<1>q. QED BY <1>6, <1>8, <1>9 DEF Sound

\* Without a record there is no line.
LEMMA NoRecordNoLine == ASSUME NEW w \in Seq(Tokens), Spans(w) = {} PROVE Has(w) = {}
<1> SUFFICES ASSUME NEW l \in Has(w) PROVE FALSE
  OBVIOUS
<1> DEFINE F == {i \in 1..Len(w) : w[i] \in LineEnds}
<1>1. F \in SUBSET Nat /\ F # {} /\ DOMAIN w = 1..Len(w)
  BY TokensIn DEF Has
<1>2. PICK e \in F : \A i \in F : e <= i
  <2> HIDE DEF F
  <2>q. QED BY <1>1, LeastNumber
<1>3. e \in 1..Len(w) /\ 1 \in 1..Len(w) /\ w[e] \in LineEnds
  BY <1>2
<1>4. \A i \in 1..(e - 1) : w[i] \notin LineEnds
  <2> SUFFICES ASSUME NEW i \in 1..(e - 1), w[i] \in LineEnds PROVE FALSE
    OBVIOUS
  <2>1. i \in F /\ ~(e <= i)
    BY <1>3
  <2>q. QED BY <1>2, <2>1
<1>5. IsRecord(w, 1, e)
  BY <1>3, <1>4 DEF IsRecord
<1>6. <<1, e>> \in Spans(w)
  BY <1>1, <1>3, <1>5 DEF Spans
<1>q. QED BY <1>6

\* A merge brings a copy what it has not, and nothing else.
LEMMA MergeHasBoth ==
    ASSUME TokensDiffer, NEW W, NEW p, Good(p, W), NEW t, Good(t, W), NEW m \in 0..Len(t), m <= Len(p),
           SameUpTo(p, t, m),
           Ended(SubSeq(p, m + 1, Len(p))),
           m = 0 \/ Spans(SubSeq(t, m + 1, Len(t))) # {}
    PROVE  Has(p \o Missing(SubSeq(p, m + 1, Len(p)), SubSeq(t, m + 1, Len(t)))) = Has(p) \cup Has(t)
<1> DEFINE v == SubSeq(p, m + 1, Len(p))  w == SubSeq(t, m + 1, Len(t))
<1> DEFINE K == Lacking(v, w)  adds == Picked(w, K)
<1>1. /\ p \in Seq(Tokens) /\ Len(p) \in Nat /\ t \in Seq(Tokens) /\ Len(t) \in Nat /\ m \in 0..Len(p)
      /\ t # << >> => t[1] \in Halves
  BY DEF Good
<1>2. /\ w \in Seq(Tokens) /\ Len(w) = Len(t) - m /\ InOrder(w)
      /\ \A i \in 1..Len(w) : w[i] = t[m + i] /\ w[i] \in Tokens
  BY GoodTail DEF IsTail
<1>3. /\ v \in Seq(Tokens) /\ Len(v) = Len(p) - m
      /\ \A i \in 1..Len(v) : v[i] = p[m + i]
  BY <1>1, GoodTail DEF IsTail
<1>4. Fits(p, w, K)
  <2>1. IsTail(v, p, m) /\ IsTail(w, t, m)
    BY <1>1, GoodTail
  <2> HIDE DEF v, w
  <2>2. Ended(v) /\ (m = 0 \/ Spans(w) # {})
    BY DEF v, w
  <2>q. QED BY <2>1, <2>2, MissingFits
<1>5. Missing(v, w) = adds
  BY DEF Missing, Lacking
<1>6. /\ \A n \in K : \E b \in 1..Len(w) : \E e \in 1..Len(w) : IsRecord(w, b, e) /\ n \in b..e /\ ~Holds(v, w, b, e)
      /\ \A b \in 1..Len(w) : \A e \in 1..Len(w) : \A n \in b..e : IsRecord(w, b, e) /\ ~Holds(v, w, b, e) => n \in K
  BY <1>2, <1>3, LackingIs
<1> HIDE DEF v, w, K
<1>7. K \subseteq 1..Len(w)
  BY <1>4 DEF Fits
<1>8. /\ adds \in Seq(Tokens)
      /\ \A a : StandsIn(a, adds) <=> StandsAt(a, w, K)
  BY <1>2, <1>7, PickedAre
<1> HIDE DEF adds
<1>9. Has(adds) \subseteq Has(t)
  <2> SUFFICES ASSUME NEW l \in Has(adds) PROVE l \in Has(t)
    OBVIOUS
  <2>1. l \in Lines /\ \E i \in 1..Len(adds) : adds[i] = End(l)
    BY DEF Has
  <2>2. PICK j \in K : w[j] = End(l)
    BY <1>8, <2>1 DEF StandsIn, StandsAt
  <2>3. m + j \in 1..Len(t) /\ t[m + j] = End(l)
    BY <1>1, <1>2, <1>7, <2>2
  <2>q. QED BY <2>1, <2>3 DEF Has
<1>10. ASSUME NEW l \in Has(t), l \notin Has(p) PROVE l \in Has(adds)
  <2>1. PICK i \in 1..Len(t) : t[i] = End(l)
    BY <1>10 DEF Has
  <2>2. l \in Lines
    BY <1>10 DEF Has
  <2>3. i > m
    <3> SUFFICES ASSUME i \in 1..m PROVE FALSE
      BY <1>1
    <3>1. i \in 1..Len(p) /\ p[i] = End(l)
      BY <1>1, <2>1 DEF SameUpTo
    <3>q. QED BY <1>10, <2>2, <3>1 DEF Has
  <2> DEFINE e == i - m
  <2>4. e \in 1..Len(w) /\ m + e = i
    BY <1>1, <1>2, <2>3
  <2> HIDE DEF e
  <2>5. w[e] = End(l) /\ w[e] \in LineEnds
    BY <1>2, <2>1, <2>2, <2>4, TokensIn
  <2>6. \E b \in 1..e : IsRecord(w, b, e)
    <3>1. CASE e = 1
      BY <2>5, <3>1, FirstIsRecord
    <3>2. CASE e # 1
      <4>1. e \in 2..Len(w) /\ e - 1 \in 1..e
        BY <1>1, <1>2, <2>4, <3>2
      <4>2. w[e - 1] = Half(l)
        BY <2>2, <2>5, <4>1, <1>2 DEF InOrder
      <4>3. w[e - 1] \in Halves /\ w[e - 1] \notin LineEnds
        BY <2>2, <4>2, TokensIn, TokenKinds
      <4>4. e - 1 = 1 \/ w[(e - 1) - 1] \in LineEnds
        <5> SUFFICES ASSUME e - 1 # 1 PROVE w[(e - 1) - 1] \in LineEnds
          OBVIOUS
        <5>1. e - 1 \in 2..Len(w)
          BY <4>1, <1>1, <1>2
        <5>q. QED BY <5>1, <4>3, <1>2 DEF InOrder
      <4>5. \A n \in (e - 1)..(e - 1) : w[n] \notin LineEnds
        BY <4>1, <4>3
      <4>6. IsRecord(w, e - 1, e)
        BY <2>5, <4>1, <4>4, <4>5 DEF IsRecord
      <4>q. QED BY <4>1, <4>6
    <3>q. QED BY <3>1, <3>2, <2>4
  <2>7. PICK b \in 1..e : IsRecord(w, b, e)
    BY <2>6
  <2>8. b \in 1..Len(w) /\ e \in b..e
    BY <1>1, <1>2, <2>4
  <2>9. ~Holds(v, w, b, e)
    <3> SUFFICES ASSUME Holds(v, w, b, e) PROVE FALSE
      OBVIOUS
    <3>1. PICK c \in 1..Len(v), d \in 1..Len(v) : IsRecord(v, c, d) /\ SubSeq(v, c, d) = SubSeq(w, b, e)
      BY DEF Holds
    <3>2. c <= d /\ b <= e
      BY <3>1, <2>7 DEF IsRecord
    <3>3. /\ Len(SubSeq(v, c, d)) = d - c + 1 /\ SubSeq(v, c, d)[d - c + 1] = v[d]
          /\ Len(SubSeq(w, b, e)) = e - b + 1 /\ SubSeq(w, b, e)[e - b + 1] = w[e]
      BY <1>2, <1>3, <2>4, <2>8, <3>2
    <3>4. v[d] = w[e]
      BY <3>1, <3>3
    <3>5. m + d \in 1..Len(p) /\ p[m + d] = End(l)
      BY <1>1, <1>3, <2>5, <3>4
    <3>q. QED BY <1>10, <2>2, <3>5 DEF Has
  <2>10. e \in K
    BY <1>6, <2>4, <2>7, <2>8, <2>9
  <2>11. \E k \in 1..Len(adds) : adds[k] = End(l)
    BY <1>8, <2>5, <2>10 DEF StandsIn, StandsAt
  <2>q. QED BY <2>2, <2>11 DEF Has
<1>11. Has(p \o adds) = Has(p) \cup Has(adds)
  BY <1>1, <1>8, HasBoth
<1>12. Has(p \o adds) = Has(p) \cup Has(t)
  BY <1>9, <1>10, <1>11
<1>q. QED BY <1>5, <1>12 DEF v, w

\* The records of a good text are its lines.
LEMMA RecordsOfGood ==
    ASSUME TokensDiffer, NEW W, NEW t, Good(t, W)
    PROVE  Range(Records(t)) = {<<Half(l), End(l)>> : l \in Has(t)}
<1>1. /\ t \in Seq(Tokens) /\ Len(t) \in Nat /\ DOMAIN t = 1..Len(t) /\ InOrder(t)
      /\ t # << >> => t[1] \in Halves
  BY DEF Good
<1>2. ASSUME NEW b \in 1..Len(t), b + 1 \in 1..Len(t), NEW l \in Lines, t[b] = Half(l), t[b + 1] = End(l)
      PROVE  SubSeq(t, b, b + 1) = <<Half(l), End(l)>>
  <2> DEFINE x == SubSeq(t, b, b + 1)  y == <<Half(l), End(l)>>
  <2>1. x \in Seq(Tokens) /\ Len(x) = 2 /\ x[1] = t[b] /\ x[2] = t[b + 1]
    BY <1>1, <1>2
  <2>2. y \in Seq(Tokens) /\ Len(y) = 2 /\ y[1] = Half(l) /\ y[2] = End(l)
    BY TokensIn
  <2> HIDE DEF x, y
  <2>3. x = y
    BY <1>2, <2>1, <2>2, SeqEqual
  <2>q. QED BY <2>3 DEF x, y
<1>3. ASSUME NEW r \in Range(Records(t)) PROVE \E l \in Has(t) : r = <<Half(l), End(l)>>
  <2>1. PICK s \in Spans(t) : r = Records(t)[s]
    BY <1>3 DEF Range, Records
  <2> DEFINE b == s[1]  e == s[2]
  <2>2. b \in 1..Len(t) /\ e \in 1..Len(t) /\ IsRecord(t, b, e) /\ r = SubSeq(t, b, e)
    BY <1>1, <2>1 DEF Spans, Records
  <2> HIDE DEF b, e
  <2>3. PICK l \in Lines : t[e] = End(l) /\ ((b = e /\ b = 1) \/ (e = b + 1 /\ t[b] = Half(l)))
    BY <1>1, <2>2, RecordsAreLines
  <2>4. ~(b = e /\ b = 1)
    <3> SUFFICES ASSUME b = e, b = 1 PROVE FALSE
      OBVIOUS
    <3>1. t[1] = End(l) /\ t # << >>
      BY <1>1, <2>2, <2>3
    <3>q. QED BY <1>1, <3>1, TokensIn, TokenKinds
  <2>5. r = <<Half(l), End(l)>>
    BY <1>2, <2>2, <2>3, <2>4
  <2>6. l \in Has(t)
    BY <2>2, <2>3 DEF Has
  <2>q. QED BY <2>5, <2>6
<1>4. ASSUME NEW l \in Has(t) PROVE <<Half(l), End(l)>> \in Range(Records(t))
  <2>1. PICK i \in 1..Len(t) : t[i] = End(l)
    BY <1>4 DEF Has
  <2>2. l \in Lines /\ t[i] \in LineEnds
    BY <1>4, <2>1, TokensIn DEF Has
  <2>3. i # 1
    BY <1>1, <2>1, <2>2, TokensIn, TokenKinds
  <2>4. i \in 2..Len(t) /\ i - 1 \in 1..Len(t) /\ (i - 1) + 1 = i
    BY <1>1, <2>3
  <2>5. t[i - 1] = Half(l)
    BY <1>1, <2>1, <2>2, <2>4 DEF InOrder
  <2>6. t[i - 1] \in Halves /\ t[i - 1] \notin LineEnds
    BY <2>2, <2>5, TokensIn, TokenKinds
  <2>7. i - 1 = 1 \/ t[(i - 1) - 1] \in LineEnds
    <3> SUFFICES ASSUME i - 1 # 1 PROVE t[(i - 1) - 1] \in LineEnds
      OBVIOUS
    <3>1. i - 1 \in 2..Len(t)
      BY <1>1, <2>4
    <3>q. QED BY <3>1, <2>6, <1>1 DEF InOrder
  <2>8. \A n \in (i - 1)..(i - 1) : t[n] \notin LineEnds
    BY <2>4, <2>6
  <2>9. IsRecord(t, i - 1, i)
    BY <2>2, <2>4, <2>7, <2>8 DEF IsRecord
  <2>10. <<i - 1, i>> \in Spans(t) /\ Records(t)[<<i - 1, i>>] = SubSeq(t, i - 1, i)
    BY <1>1, <2>4, <2>9 DEF Spans, Records
  <2>11. SubSeq(t, i - 1, i) = <<Half(l), End(l)>>
    BY <1>2, <2>1, <2>2, <2>4, <2>5
  <2>12. DOMAIN Records(t) = Spans(t)
    BY DEF Records
  <2>q. QED BY <2>10, <2>11, <2>12 DEF Range
<1>q. QED BY <1>3, <1>4

\* Of texts of one length, one that has all the other's lines has no more.
LEMMA SameLengthSameLines ==
    ASSUME TokensDiffer, NEW W, NEW t, Good(t, W), NEW u, Good(u, W), Len(t) = Len(u), Has(t) \subseteq Has(u)
    PROVE  Has(t) = Has(u)
<1> DEFINE E == {i \in 1..Len(t) : ~(i % 2 = 1)}
<1>1. Len(t) \in Nat /\ DOMAIN t = 1..Len(t) /\ DOMAIN u = 1..Len(t)
  BY DEF Good
<1>2. \A i \in 1..Len(t) : /\ \A l \in Lines : t[i] = End(l) => i \in E
                           /\ \A l \in Lines : u[i] = End(l) => i \in E
                           /\ i \in E => \E l \in Lines : t[i] = End(l)
  <2> SUFFICES ASSUME NEW i \in 1..Len(t)
               PROVE  /\ \A l \in Lines : t[i] = End(l) => i \in E
                      /\ \A l \in Lines : u[i] = End(l) => i \in E
                      /\ i \in E => \E l \in Lines : t[i] = End(l)
    OBVIOUS
  <2>1. /\ IF i % 2 = 1 THEN t[i] \in Halves ELSE \E l \in Lines : t[i] = End(l)
        /\ IF i % 2 = 1 THEN u[i] \in Halves ELSE \E l \in Lines : u[i] = End(l)
    BY <1>1, GoodIsWhole
  <2>2. \A l \in Lines : End(l) \notin Halves
    BY TokensIn, TokenKinds
  <2>q. QED BY <2>1, <2>2
<1>3. IsFiniteSet(E)
  <2>1. IsFiniteSet(1..Len(t))
    BY <1>1, FS_Interval
  <2>q. QED BY <2>1, FS_Subset
<1>4. \A i \in E : \E j \in E : u[j] = t[i]
  <2> SUFFICES ASSUME NEW i \in E PROVE \E j \in E : u[j] = t[i]
    OBVIOUS
  <2>1. PICK l \in Lines : t[i] = End(l)
    BY <1>2
  <2>2. l \in Has(u)
    BY <2>1 DEF Has
  <2>3. PICK j \in 1..Len(u) : u[j] = End(l)
    BY <2>2 DEF Has
  <2>q. QED BY <1>2, <2>1, <2>3
<1>5. E \subseteq 1..Len(t)
  OBVIOUS
<1> HIDE DEF E
<1> DEFINE f == [i \in E |-> CHOOSE j \in E : u[j] = t[i]]
<1>6. f \in [E -> E] /\ \A i \in E : u[f[i]] = t[i]
  BY <1>4
<1>7. f \in Injection(E, E)
  <2>1. ASSUME NEW i \in E, NEW j \in E, f[i] = f[j] PROVE i = j
    <3>1. t[i] = t[j]
      BY <1>6, <2>1
    <3>q. QED BY <1>5, <3>1 DEF Good, Once
  <2> HIDE DEF f
  <2>2. DOMAIN f = E
    BY <1>6
  <2>q. QED BY <1>6, <2>1, <2>2 DEF Injection, IsInjective
<1> HIDE DEF f
<1>8. f \in Surjection(E, E)
  BY <1>3, <1>7, FS_Injection
<1>9. ASSUME NEW l \in Has(u) PROVE l \in Has(t)
  <2>1. PICK j \in 1..Len(t) : u[j] = End(l)
    BY <1>9 DEF Has
  <2>2. j \in E /\ l \in Lines
    BY <1>2, <1>9, <2>1 DEF Has
  <2>3. PICK i \in E : f[i] = j
    BY <1>8, <2>2 DEF Surjection
  <2>4. t[i] = End(l)
    BY <1>6, <2>1, <2>3
  <2>q. QED BY <1>5, <2>2, <2>4 DEF Has
<1>q. QED BY <1>9

-----------------------------------------------------------------------------
(* What a run that nothing disturbs knows.                                 *)

Of(h) == Has(copy[h].text)

Holding == {"lock", "merge", "append", "align"}

Locked == {"merge", "append", "align"}

From(s, h) == IF s.pull THEN Peer(h) ELSE h
To(s, h) == IF s.pull THEN h ELSE Peer(h)

\* An mtime stands for a size and the lines of a text of that size.
Key(m, t) == <<m, Len(t), Has(t)>>

Versions == {Key(copy[h].mtime, copy[h].text) : h \in Hosts}
       \cup {Key(sync[h].mtime, sync[h].text) : h \in {k \in Hosts : sync[k].at \in Holding}}

CopyType ==
    /\ copy \in [Hosts -> [there : BOOLEAN, text : Seq(Tokens), mtime : Nat]]
    /\ \A h \in Hosts : ~copy[h].there => copy[h].text = << >>

VersionsAgree ==
    /\ stamp \in Nat /\ \A v \in Versions : v[1] \in Nat /\ v[1] <= stamp
    /\ \A v \in Versions : \A w \in Versions : v[1] = w[1] /\ v[2] = w[2] => v[3] = w[3]

RunShape(s) ==
    /\ "at" \in DOMAIN s /\ s.at \in {"idle", "manifest", "plan", "bulk", "done"} \cup Holding
    /\ s.at # "idle" => {"pull", "quiet"} \subseteq DOMAIN s /\ s.pull \in BOOLEAN /\ s.quiet \in BOOLEAN
    /\ s.at = "plan" => "seen" \in DOMAIN s /\ s.seen.mtime \in Nat
    /\ s.at \in Holding => {"mtime", "text"} \subseteq DOMAIN s
    /\ s.at = "append" => /\ {"before", "adds"} \subseteq DOMAIN s
                          /\ Has(s.before.text \o s.adds) = Has(s.before.text) \cup Has(s.text)
                          /\ Ended(s.before.text \o s.adds)
    /\ s.at = "done" => ~s.pull

\* What the run has in hand the sender has; once it is merged, the receiver.
RunHas(s, h) ==
    /\ s.at \in Holding => Has(s.text) \subseteq Of(From(s, h))
    /\ s.at = "align" => Has(s.text) \subseteq Of(To(s, h))

RunLocks(s, h) == s.at \in Locked => merging[To(s, h)] = {h}

\* A version that would be taken for the one the receiver listed has no more.
RunSeen(s, h) ==
    s.at = "plan" => /\ s.seen.mtime <= stamp
                     /\ \A v \in Versions : v[1] = s.seen.mtime /\ v[2] = s.seen.size => v[3] \subseteq Of(To(s, h))

Still == \A k \in Hosts : ~writer[k].open /\ Ended(copy[k].text)

\* While it is quiet, only the runs move lines, from one host to the other.
RunQuiet(s, h) ==
    s.at # "idle" /\ s.quiet =>
        /\ Still
        /\ s.at \in Holding => Of(From(s, h)) \subseteq Has(s.text) \cup Of(To(s, h))
        /\ s.at = "append" => copy[To(s, h)] = s.before
        /\ ~s.pull => Of(Peer(h)) \subseteq Of(h)
        /\ s.at = "done" => Of(h) \subseteq Of(Peer(h))

SyncInv ==
    /\ CopyType /\ VersionsAgree /\ DOMAIN merging = Hosts
    /\ \A h \in Hosts : RunShape(sync[h]) /\ RunHas(sync[h], h) /\ RunLocks(sync[h], h) /\ RunSeen(sync[h], h) /\ RunQuiet(sync[h], h)

LEMMA TwoHosts == ASSUME NEW h \in Hosts PROVE /\ \A k \in Hosts : k = h \/ k = Peer(h)
                                              /\ Peer(Peer(h)) = h
<1>1. Peer(h) \in Hosts /\ Peer(h) # h /\ Peer(Peer(h)) \in Hosts /\ Peer(Peer(h)) # Peer(h)
  BY PeerIsHost
<1>2. IsFiniteSet(Hosts \ {h}) /\ Cardinality(Hosts \ {h}) = 1
  BY HistoryAssumption, FS_RemoveElement
<1>3. PICK x : Hosts \ {h} = {x}
  BY <1>2, FS_Singleton
<1>4. \A k \in Hosts : k = h \/ k = Peer(h)
  BY <1>1, <1>3
<1>q. QED BY <1>1, <1>4

LEMMA ToAndFrom == ASSUME NEW h \in Hosts, NEW s
    PROVE  /\ To(s, h) \in Hosts /\ From(s, h) \in Hosts
           /\ Peer(From(s, h)) = To(s, h) /\ Peer(To(s, h)) = From(s, h)
           /\ Receiver(h) = To(sync[h], h) /\ Sender(h) = From(sync[h], h)
BY PeerIsHost, TwoHosts DEF To, From, Receiver, Sender

LEMMA VersionsKept == ASSUME VersionsAgree, Versions' \subseteq Versions, stamp' = stamp PROVE VersionsAgree'
BY DEF VersionsAgree

LEMMA VersionsGrow ==
    ASSUME VersionsAgree, stamp' = stamp + 1, NEW n, NEW L, Versions' \subseteq Versions \cup {<<stamp + 1, n, L>>}
    PROVE  VersionsAgree'
<1>1. stamp \in Nat /\ \A v \in Versions : v[1] \in Nat /\ v[1] <= stamp
  BY DEF VersionsAgree
<1>2. \A v \in Versions' : v \in Versions \/ v = <<stamp + 1, n, L>>
  OBVIOUS
<1>3. stamp' \in Nat /\ \A v \in Versions' : v[1] \in Nat /\ v[1] <= stamp'
  BY <1>1, <1>2
<1>4. ASSUME NEW v \in Versions', NEW w \in Versions', v[1] = w[1], v[2] = w[2] PROVE v[3] = w[3]
  <2>1. CASE v \in Versions /\ w \in Versions
    BY <1>4, <2>1 DEF VersionsAgree
  <2>2. CASE v = <<stamp + 1, n, L>> /\ w = <<stamp + 1, n, L>>
    BY <2>2
  <2>3. CASE (v \in Versions /\ w = <<stamp + 1, n, L>>) \/ (w \in Versions /\ v = <<stamp + 1, n, L>>)
    BY <1>1, <1>4, <2>3
  <2>q. QED BY <1>2, <2>1, <2>2, <2>3
<1>q. QED BY <1>3, <1>4 DEF VersionsAgree

\* A step of h's run lets the tools alone, moves lines only from the other host,
\* and changes only the file that it has the lock of.
Beside(h) ==
    /\ writer' = writer
    /\ \A k \in Hosts : k # h => \A j \in Hosts : merging[j] = {k} => merging'[j] = {k}
    /\ \A j \in Hosts : Of(j) \subseteq Of(j)' /\ Of(j)' \subseteq Of(j) \cup Of(Peer(j))
    /\ \A j \in Hosts : Ended(copy[j].text) => Ended(copy'[j].text)
    /\ \A j \in Hosts : copy'[j] = copy[j] \/ merging[j] = {h}
    /\ stamp' >= stamp /\ stamp' \in Nat /\ \A v \in Versions' : v \in Versions \/ v[1] > stamp

\* What another run has stays right, whatever this one does.
LEMMA OtherRuns ==
    ASSUME NEW h \in Hosts, NEW k \in Hosts, k # h, NEW s, SyncInv, s = sync[k], Beside(h)
    PROVE  RunShape(s) /\ RunHas(s, k)' /\ RunLocks(s, k)' /\ RunSeen(s, k)' /\ RunQuiet(s, k)'
<1>0. /\ writer' = writer /\ \A j \in Hosts : merging[j] = {k} => merging'[j] = {k}
      /\ \A j \in Hosts : Of(j) \subseteq Of(j)' /\ Of(j)' \subseteq Of(j) \cup Of(Peer(j))
      /\ \A j \in Hosts : Ended(copy[j].text) => Ended(copy'[j].text)
      /\ \A j \in Hosts : copy'[j] = copy[j] \/ merging[j] = {h}
      /\ stamp' >= stamp /\ stamp' \in Nat /\ \A v \in Versions' : v \in Versions \/ v[1] > stamp
  BY DEF Beside
<1>1. RunShape(s) /\ RunHas(s, k) /\ RunLocks(s, k) /\ RunSeen(s, k) /\ RunQuiet(s, k) /\ stamp \in Nat
  BY DEF SyncInv, VersionsAgree
<1> DEFINE t == To(s, k)  f == From(s, k)
<1>2. t \in Hosts /\ f \in Hosts /\ Peer(f) = t /\ Peer(t) = f /\ Peer(k) \in Hosts /\ Peer(Peer(k)) = k
  BY ToAndFrom, PeerIsHost, TwoHosts
<1>3. To(s, k)' = t /\ From(s, k)' = f
  BY DEF To, From, Peer
<1> HIDE DEF t, f
<1>4. RunHas(s, k)'
  <2>1. s.at \in Holding => Has(s.text) \subseteq Of(f)
    BY <1>1 DEF RunHas, f
  <2>2. s.at = "align" => Has(s.text) \subseteq Of(t)
    BY <1>1 DEF RunHas, t
  <2>3. s.at \in Holding => Has(s.text) \subseteq Of(f)'
    BY <1>0, <1>2, <2>1
  <2>4. s.at = "align" => Has(s.text) \subseteq Of(t)'
    BY <1>0, <1>2, <2>2
  <2>q. QED BY <1>3, <2>3, <2>4 DEF RunHas
<1>5. RunLocks(s, k)'
  BY <1>0, <1>1, <1>2, <1>3 DEF RunLocks, t
<1>6. RunSeen(s, k)'
  <2> SUFFICES ASSUME s.at = "plan"
               PROVE  /\ s.seen.mtime <= stamp'
                      /\ \A v \in Versions' : v[1] = s.seen.mtime /\ v[2] = s.seen.size => v[3] \subseteq Of(t)'
    BY <1>3 DEF RunSeen
  <2>1. /\ s.seen.mtime \in Nat /\ s.seen.mtime <= stamp
        /\ \A v \in Versions : v[1] = s.seen.mtime /\ v[2] = s.seen.size => v[3] \subseteq Of(t)
    BY <1>1 DEF RunSeen, RunShape, t
  <2>2. s.seen.mtime <= stamp'
    BY <1>0, <1>1, <2>1
  <2>3. ASSUME NEW v \in Versions', v[1] = s.seen.mtime, v[2] = s.seen.size PROVE v[3] \subseteq Of(t)'
    <3>1. v \in Versions
      BY <1>0, <1>1, <2>1, <2>3
    <3>2. v[3] \subseteq Of(t)
      BY <2>1, <2>3, <3>1
    <3>q. QED BY <1>0, <1>2, <3>2
  <2>q. QED BY <2>2, <2>3
<1>7. RunQuiet(s, k)'
  <2> SUFFICES ASSUME s.at # "idle", s.quiet
               PROVE  /\ Still'
                      /\ s.at \in Holding => Of(f)' \subseteq Has(s.text) \cup Of(t)'
                      /\ s.at = "append" => copy'[t] = s.before
                      /\ ~s.pull => Of(Peer(k))' \subseteq Of(k)'
                      /\ s.at = "done" => Of(k)' \subseteq Of(Peer(k))'
    BY <1>3 DEF RunQuiet
  <2>1. /\ Still
        /\ s.at \in Holding => Of(f) \subseteq Has(s.text) \cup Of(t)
        /\ s.at = "append" => copy[t] = s.before
        /\ ~s.pull => Of(Peer(k)) \subseteq Of(k)
        /\ s.at = "done" => Of(k) \subseteq Of(Peer(k))
    BY <1>1 DEF RunQuiet, t, f
  <2>2. Still'
    BY <1>0, <2>1 DEF Still
  <2>3. s.at \in Holding => Of(f)' \subseteq Has(s.text) \cup Of(t)'
    <3>1. Of(f)' \subseteq Of(f) \cup Of(t) /\ Of(t) \subseteq Of(t)'
      BY <1>0, <1>2
    <3>q. QED BY <2>1, <3>1
  <2>4. s.at = "append" => copy'[t] = s.before
    <3> SUFFICES ASSUME s.at = "append" PROVE copy'[t] = s.before
      OBVIOUS
    <3>1. merging[t] = {k}
      BY <1>1 DEF RunLocks, Locked, t
    <3>2. copy'[t] = copy[t]
      BY <1>0, <1>2, <3>1
    <3>q. QED BY <2>1, <3>2
  <2>5. ~s.pull => Of(Peer(k))' \subseteq Of(k)'
    <3>1. Of(Peer(k))' \subseteq Of(Peer(k)) \cup Of(k) /\ Of(k) \subseteq Of(k)'
      BY <1>0, <1>2
    <3>q. QED BY <2>1, <3>1
  <2>6. s.at = "done" => Of(k)' \subseteq Of(Peer(k))'
    <3>1. Of(k)' \subseteq Of(Peer(k)) \cup Of(k) /\ Of(Peer(k)) \subseteq Of(Peer(k))'
      BY <1>0, <1>2
    <3>q. QED BY <2>1, <3>1
  <2>q. QED BY <2>2, <2>3, <2>4, <2>5, <2>6
<1>q. QED BY <1>1, <1>4, <1>5, <1>6, <1>7

\* A step of h's run that leaves it at e.
LEMMA RunMoves ==
    ASSUME SyncInv, DOMAIN sync = Hosts, NEW h \in Hosts, NEW e, sync' = [sync EXCEPT ![h] = e],
           Beside(h), CopyType', VersionsAgree', DOMAIN merging' = Hosts,
           RunShape(e), RunHas(e, h)', RunLocks(e, h)', RunSeen(e, h)', RunQuiet(e, h)'
    PROVE  SyncInv'
<1>1. ASSUME NEW k \in Hosts
      PROVE  (RunShape(sync[k]) /\ RunHas(sync[k], k) /\ RunLocks(sync[k], k) /\ RunSeen(sync[k], k) /\ RunQuiet(sync[k], k))'
  <2>1. CASE k = h
    <3>1. sync'[k] = e
      BY <2>1
    <3>q. QED BY <2>1, <3>1 DEF RunShape, RunHas, RunLocks, RunSeen, RunQuiet
  <2>2. CASE k # h
    <3>1. PICK s : s = sync[k]
      OBVIOUS
    <3>2. sync'[k] = s
      BY <2>2, <3>1
    <3>3. RunShape(s) /\ RunHas(s, k)' /\ RunLocks(s, k)' /\ RunSeen(s, k)' /\ RunQuiet(s, k)'
      BY <2>2, <3>1, OtherRuns
    <3>q. QED BY <3>2, <3>3 DEF RunShape, RunHas, RunLocks, RunSeen, RunQuiet
  <2>q. QED BY <2>1, <2>2
<1>q. QED BY <1>1 DEF SyncInv

\* The versions after a step of one run.
LEMMA VersionsOfStep ==
    ASSUME DOMAIN sync = Hosts, NEW h \in Hosts, NEW e, sync' = [sync EXCEPT ![h] = e],
           NEW V, Versions \subseteq V,
           \A j \in Hosts : Key(copy'[j].mtime, copy'[j].text) \in V,
           e.at \in Holding => Key(e.mtime, e.text) \in V
    PROVE  Versions' \subseteq V
<1> SUFFICES ASSUME NEW v \in Versions' PROVE v \in V
  OBVIOUS
<1>1. \/ \E j \in Hosts : v = Key(copy'[j].mtime, copy'[j].text)
      \/ \E j \in Hosts : sync'[j].at \in Holding /\ v = Key(sync'[j].mtime, sync'[j].text)
  BY DEF Versions, Key
<1>2. ASSUME NEW j \in Hosts, sync'[j].at \in Holding, v = Key(sync'[j].mtime, sync'[j].text) PROVE v \in V
  <2>1. CASE j = h
    BY <1>2, <2>1
  <2>2. CASE j # h
    <3>1. sync'[j] = sync[j]
      BY <2>2
    <3>q. QED BY <1>2, <3>1 DEF Versions
  <2>q. QED BY <2>1, <2>2
<1>q. QED BY <1>1, <1>2

\* The lines of the copies stand.
LEMMA LinesStay ==
    ASSUME SyncInv, DOMAIN sync = Hosts, NEW h \in Hosts, NEW e, sync' = [sync EXCEPT ![h] = e],
           UNCHANGED <<writer, stamp>>, CopyType',
           \A j \in Hosts : copy'[j].text = copy[j].text /\ (copy'[j] = copy[j] \/ merging[j] = {h}),
           Versions' \subseteq Versions,
           DOMAIN merging' = Hosts, \A k \in Hosts : k # h => \A j \in Hosts : merging[j] = {k} => merging'[j] = {k},
           RunShape(e), RunHas(e, h), RunLocks(e, h)', RunSeen(e, h), RunQuiet(e, h),
           e.at = "append" => copy' = copy
    PROVE  SyncInv'
<1>1. VersionsAgree' /\ stamp \in Nat
  BY VersionsKept DEF SyncInv, VersionsAgree
<1>2. \A j \in Hosts : Of(j)' = Of(j)
  BY DEF Of
<1>3. Beside(h)
  BY <1>1, <1>2 DEF Beside
<1>4. /\ To(e, h)' = To(e, h) /\ From(e, h)' = From(e, h) /\ Peer(h)' = Peer(h)
      /\ To(e, h) \in Hosts /\ From(e, h) \in Hosts /\ Peer(h) \in Hosts
  BY ToAndFrom, PeerIsHost DEF To, From, Peer
<1>5. RunHas(e, h)'
  BY <1>2, <1>4 DEF RunHas
<1>6. RunSeen(e, h)'
  BY <1>2, <1>4 DEF RunSeen
<1>7. RunQuiet(e, h)'
  <2>1. Still => Still'
    BY DEF Still
  <2>q. QED BY <1>2, <1>4, <2>1 DEF RunQuiet
<1>q. QED BY <1>1, <1>3, <1>5, <1>6, <1>7, RunMoves

\* What is true of a run before its step.
LEMMA RunNow == ASSUME SyncInv, NEW h \in Hosts
    PROVE  /\ RunShape(sync[h]) /\ RunHas(sync[h], h) /\ RunLocks(sync[h], h) /\ RunSeen(sync[h], h) /\ RunQuiet(sync[h], h)
           /\ CopyType /\ VersionsAgree /\ DOMAIN merging = Hosts
BY DEF SyncInv

\* A transfer is over: where nothing disturbed it, the receiver has what the
\* sender has.
LEMMA OverSync ==
    ASSUME SyncInv, DOMAIN sync = Hosts, NEW h \in Hosts, sync[h].at \notin {"idle", "done"},
           NEW good \in BOOLEAN, Over(h, good),
           UNCHANGED <<writer, stamp>>, CopyType',
           \A j \in Hosts : copy'[j].text = copy[j].text /\ (copy'[j] = copy[j] \/ merging[j] = {h}),
           \A j \in Hosts : Key(copy'[j].mtime, copy'[j].text) \in Versions,
           sync[h].quiet /\ good => Of(From(sync[h], h)) \subseteq Of(To(sync[h], h))
    PROVE  SyncInv'
<1>1. PICK s : s = sync[h]
  OBVIOUS
<1>2. PICK e : e = [at |-> IF s.pull THEN "manifest" ELSE "done", pull |-> FALSE, quiet |-> s.quiet /\ good]
  OBVIOUS
<1>3. sync' = [sync EXCEPT ![h] = e] /\ merging' = [k \in Hosts |-> merging[k] \ {h}]
  BY <1>1, <1>2 DEF Over, Frees
<1>4. RunShape(s) /\ RunQuiet(s, h) /\ s.at # "idle" /\ s.pull \in BOOLEAN /\ s.quiet \in BOOLEAN
  BY <1>1, RunNow DEF RunShape
<1>5. /\ {"at", "pull", "quiet"} \subseteq DOMAIN e /\ e.at = (IF s.pull THEN "manifest" ELSE "done")
      /\ e.pull = FALSE /\ e.quiet = (s.quiet /\ good)
  BY <1>2
<1>6. e.at \in {"manifest", "done"} /\ e.at \notin Holding /\ e.at \notin Locked /\ e.at \notin {"plan", "append", "align", "idle"}
  BY <1>5 DEF Holding, Locked
<1>7. RunShape(e)
  BY <1>4, <1>5, <1>6 DEF RunShape
<1>8. RunHas(e, h) /\ RunLocks(e, h)' /\ RunSeen(e, h)
  BY <1>6 DEF RunHas, RunLocks, RunSeen, Locked
<1>9. RunQuiet(e, h)
  <2> SUFFICES ASSUME s.quiet, good PROVE /\ Still /\ Of(Peer(h)) \subseteq Of(h)
                                          /\ e.at = "done" => Of(h) \subseteq Of(Peer(h))
    BY <1>4, <1>5, <1>6 DEF RunQuiet
  <2>1. Still /\ (~s.pull => Of(Peer(h)) \subseteq Of(h)) /\ Of(From(s, h)) \subseteq Of(To(s, h))
    BY <1>1, <1>4 DEF RunQuiet
  <2>2. CASE s.pull
    BY <1>5, <2>1, <2>2 DEF From, To
  <2>3. CASE ~s.pull
    BY <1>5, <2>1, <2>3 DEF From, To
  <2>q. QED BY <2>2, <2>3
<1>10. Versions' \subseteq Versions
  BY <1>3, <1>6, VersionsOfStep
<1>11. DOMAIN merging' = Hosts /\ \A k \in Hosts : k # h => \A j \in Hosts : merging[j] = {k} => merging'[j] = {k}
  BY <1>3
<1>q. QED BY <1>3, <1>6, <1>7, <1>8, <1>9, <1>10, <1>11, LinesStay

LEMMA OverHere ==
    ASSUME SyncInv, DOMAIN sync = Hosts, NEW h \in Hosts, sync[h].at \notin {"idle", "done"},
           NEW good \in BOOLEAN, Over(h, good), UNCHANGED <<copy, writer, stamp>>,
           sync[h].quiet /\ good => Of(From(sync[h], h)) \subseteq Of(To(sync[h], h))
    PROVE  SyncInv'
<1>1. CopyType'
  BY RunNow DEF CopyType
<1>2. \A j \in Hosts : Key(copy'[j].mtime, copy'[j].text) \in Versions
  BY DEF Versions
<1>q. QED BY <1>1, <1>2, OverSync

\* A run goes on with what it has.
LEMMA GoesSync ==
    ASSUME SyncInv, DOMAIN sync = Hosts, NEW h \in Hosts, sync[h].at \notin {"idle", "done"},
           NEW at \in {"bulk", "merge", "align"}, Goes(h, at), UNCHANGED <<copy, writer, stamp>>,
           at # "bulk" => sync[h].at \in Holding /\ merging'[To(sync[h], h)] = {h},
           at = "align" => Has(sync[h].text) \subseteq Of(To(sync[h], h)),
           DOMAIN merging' = Hosts, \A k \in Hosts : k # h => \A j \in Hosts : merging[j] = {k} => merging'[j] = {k}
    PROVE  SyncInv'
<1>1. PICK s : s = sync[h]
  OBVIOUS
<1>2. PICK e : e = [s EXCEPT !.at = at]
  OBVIOUS
<1>3. sync' = [sync EXCEPT ![h] = e]
  BY <1>1, <1>2 DEF Goes
<1>4. RunShape(s) /\ RunHas(s, h) /\ RunQuiet(s, h) /\ s.at \notin {"idle", "done"}
  BY <1>1, RunNow
<1>5. DOMAIN e = DOMAIN s /\ e.at = at /\ \A f \in DOMAIN s : f # "at" => e[f] = s[f]
  BY <1>2, <1>4 DEF RunShape
<1>6. e.pull = s.pull /\ e.quiet = s.quiet /\ {"pull", "quiet"} \subseteq DOMAIN s /\ s.pull \in BOOLEAN /\ s.quiet \in BOOLEAN
  BY <1>4, <1>5 DEF RunShape
<1>7. To(e, h) = To(s, h) /\ From(e, h) = From(s, h)
  BY <1>6 DEF To, From
<1>8. at # "bulk" => {"mtime", "text"} \subseteq DOMAIN s /\ e.mtime = s.mtime /\ e.text = s.text /\ s.at \in Holding
  BY <1>1, <1>4, <1>5 DEF RunShape
<1>9. /\ at \notin {"idle", "plan", "append", "done"}
      /\ at \in Holding <=> at # "bulk"
      /\ at \in Locked <=> at # "bulk"
  BY DEF Holding, Locked
<1>10. RunShape(e)
  BY <1>4, <1>5, <1>6, <1>8, <1>9 DEF RunShape
<1>11. RunHas(e, h)
  BY <1>1, <1>4, <1>5, <1>7, <1>8, <1>9 DEF RunHas
<1>12. RunLocks(e, h)'
  <2>1. To(e, h)' = To(s, h)
    BY <1>7 DEF To, Peer
  <2>q. QED BY <1>1, <1>5, <1>9, <2>1 DEF RunLocks
<1>13. RunSeen(e, h)
  BY <1>5, <1>9 DEF RunSeen
<1>14. RunQuiet(e, h)
  BY <1>4, <1>5, <1>6, <1>7, <1>8, <1>9 DEF RunQuiet
<1>15. Versions' \subseteq Versions
  <2>1. at # "bulk" => Key(s.mtime, s.text) \in Versions
    BY <1>1, <1>8 DEF Versions
  <2>2. \A j \in Hosts : Key(copy'[j].mtime, copy'[j].text) \in Versions
    BY DEF Versions
  <2>q. QED BY <1>3, <1>5, <1>8, <1>9, <2>1, <2>2, VersionsOfStep
<1>16. CopyType'
  BY RunNow DEF CopyType
<1>17. e.at # "append"
  BY <1>5, <1>9
<1>q. QED BY <1>3, <1>10, <1>11, <1>12, <1>13, <1>14, <1>15, <1>16, <1>17, LinesStay

\* A tail is asked for whole; a whole file is never in this case while it is quiet.
LEMMA DeferredSync ==
    ASSUME SyncInv, DOMAIN sync = Hosts, NEW h \in Hosts, sync[h].at \notin {"idle", "done"},
           Deferred(h), UNCHANGED <<copy, writer, stamp>>, sync[h].tail \/ ~sync[h].quiet
    PROVE  SyncInv'
<1>1. CASE sync[h].tail
  <2>1. Goes(h, "bulk") /\ merging' = [k \in Hosts |-> merging[k] \ {h}]
    BY <1>1 DEF Deferred, Frees
  <2>2. DOMAIN merging' = Hosts /\ \A k \in Hosts : k # h => \A j \in Hosts : merging[j] = {k} => merging'[j] = {k}
    BY <2>1
  <2>q. QED BY <2>1, <2>2, GoesSync
<1>2. CASE ~sync[h].tail
  BY <1>2, OverHere DEF Deferred
<1>q. QED BY <1>1, <1>2

LEMMA RunStartsSync == ASSUME SyncInv, DOMAIN sync = Hosts, NEW h \in Hosts, RunStarts(h) PROVE SyncInv'
<1>1. PICK e : e = [at |-> "manifest", pull |-> TRUE, quiet |-> \A k \in Hosts : ~writer[k].open /\ Ended(copy[k].text)]
  OBVIOUS
<1>2. sync' = [sync EXCEPT ![h] = e] /\ UNCHANGED <<copy, writer, merging, stamp>>
  BY <1>1 DEF RunStarts
<1>3. {"at", "pull", "quiet"} \subseteq DOMAIN e /\ e.at = "manifest" /\ e.pull = TRUE /\ e.quiet = Still
  BY <1>1 DEF Still
<1>4. e.quiet \in BOOLEAN
  BY <1>1
<1>5. RunShape(e) /\ RunHas(e, h) /\ RunLocks(e, h)' /\ RunSeen(e, h) /\ RunQuiet(e, h)
  BY <1>3, <1>4 DEF RunShape, RunHas, RunLocks, RunSeen, RunQuiet, Holding, Locked
<1>6. Versions' \subseteq Versions
  <2>1. \A j \in Hosts : Key(copy'[j].mtime, copy'[j].text) \in Versions
    BY <1>2 DEF Versions
  <2>q. QED BY <1>2, <1>3, <2>1, VersionsOfStep DEF Holding
<1>7. CopyType' /\ DOMAIN merging' = Hosts
  BY <1>2, RunNow DEF CopyType
<1>q. QED BY <1>2, <1>3, <1>5, <1>6, <1>7, LinesStay

LEMMA RunEndsSync == ASSUME SyncInv, DOMAIN sync = Hosts, NEW h \in Hosts, RunEnds(h) PROVE SyncInv'
<1>1. PICK e : e = [at |-> "idle"]
  OBVIOUS
<1>2. sync' = [sync EXCEPT ![h] = e] /\ UNCHANGED <<copy, writer, merging, stamp>>
  BY <1>1 DEF RunEnds
<1>3. "at" \in DOMAIN e /\ e.at = "idle"
  BY <1>1
<1>4. RunShape(e) /\ RunHas(e, h) /\ RunLocks(e, h)' /\ RunSeen(e, h) /\ RunQuiet(e, h)
  BY <1>3 DEF RunShape, RunHas, RunLocks, RunSeen, RunQuiet, Holding, Locked
<1>5. Versions' \subseteq Versions
  <2>1. \A j \in Hosts : Key(copy'[j].mtime, copy'[j].text) \in Versions
    BY <1>2 DEF Versions
  <2>q. QED BY <1>2, <1>3, <2>1, VersionsOfStep DEF Holding
<1>6. CopyType' /\ DOMAIN merging' = Hosts
  BY <1>2, RunNow DEF CopyType
<1>q. QED BY <1>2, <1>3, <1>4, <1>5, <1>6, LinesStay

\* The receiver lists its version; one of that mtime and size has the same lines.
LEMMA ManifestSync == ASSUME SyncInv, DOMAIN sync = Hosts, NEW h \in Hosts, Manifest(h) PROVE SyncInv'
<1>1. UNCHANGED <<copy, writer, merging, stamp>> /\ sync[h].at = "manifest"
  BY DEF Manifest
<1>2. CASE Goes(h, "bulk")
  BY <1>1, <1>2, RunNow, GoesSync
<1>3. CASE large /\ copy[Receiver(h)].there
  <2>1. PICK s : s = sync[h]
    OBVIOUS
  <2>2. PICK c : c = copy[To(s, h)]
    OBVIOUS
  <2>3. To(s, h) \in Hosts /\ Receiver(h) = To(s, h)
    BY <2>1, ToAndFrom
  <2>4. PICK e : e = With(s, [at |-> "plan", seen |-> Info(c)])
    OBVIOUS
  <2>5. sync' = [sync EXCEPT ![h] = e]
    BY <1>3, <2>1, <2>2, <2>3, <2>4 DEF Manifest
  <2>6. RunShape(s) /\ RunQuiet(s, h) /\ s.at = "manifest" /\ CopyType /\ VersionsAgree
    BY <1>1, <2>1, RunNow
  <2>7. {"at", "seen"} \subseteq DOMAIN e /\ e.at = "plan" /\ e.seen = Info(c)
    BY <2>4 DEF With
  <2>8. {"pull", "quiet"} \subseteq DOMAIN s /\ s.pull \in BOOLEAN /\ s.quiet \in BOOLEAN
    BY <2>6 DEF RunShape
  <2>9. {"pull", "quiet"} \subseteq DOMAIN e /\ e.pull = s.pull /\ e.quiet = s.quiet
    BY <2>4, <2>8 DEF With
  <2>10. e.seen.mtime = c.mtime /\ e.seen.size = Len(c.text) /\ c.mtime \in Nat
    BY <2>2, <2>3, <2>6, <2>7 DEF Info, CopyType
  <2>11. To(e, h) = To(s, h) /\ From(e, h) = From(s, h)
    BY <2>9 DEF To, From
  <2>12. e.at \notin {"idle", "append", "align", "done"} /\ e.at \notin Holding /\ e.at \notin Locked
    BY <2>7 DEF Holding, Locked
  <2>13. RunShape(e)
    BY <2>7, <2>8, <2>9, <2>10, <2>12 DEF RunShape
  <2>14. RunHas(e, h) /\ RunLocks(e, h)'
    BY <2>12 DEF RunHas, RunLocks
  <2>15. RunSeen(e, h)
    <3>1. PICK w : w = Key(c.mtime, c.text)
      OBVIOUS
    <3>2. w \in Versions /\ w[1] = e.seen.mtime /\ w[2] = e.seen.size /\ w[3] = Of(To(e, h))
      BY <3>1, <2>2, <2>3, <2>10, <2>11 DEF Versions, Key, Of
    <3>q. QED BY <3>2, <2>6 DEF RunSeen, VersionsAgree
  <2>16. RunQuiet(e, h)
    BY <2>6, <2>7, <2>9, <2>12 DEF RunQuiet
  <2>17. Versions' \subseteq Versions
    <3>1. \A j \in Hosts : Key(copy'[j].mtime, copy'[j].text) \in Versions
      BY <1>1 DEF Versions
    <3>q. QED BY <2>5, <2>12, <3>1, VersionsOfStep
  <2>18. CopyType' /\ DOMAIN merging' = Hosts
    BY <1>1, RunNow DEF CopyType
  <2>q. QED BY <1>1, <2>5, <2>12, <2>13, <2>14, <2>15, <2>16, <2>17, <2>18, LinesStay
<1>q. QED BY <1>2, <1>3 DEF Manifest

\* The run takes the sender's text.
LEMMA TakesSync ==
    ASSUME SyncInv, DOMAIN sync = Hosts, NEW h \in Hosts, sync[h].at \in {"plan", "bulk"}, NEW tail, NEW offset,
           sync' = [sync EXCEPT ![h] = With(@, [at |-> "lock", tail |-> tail, mtime |-> copy[Sender(h)].mtime,
                                                text |-> copy[Sender(h)].text, offset |-> offset])],
           UNCHANGED <<copy, writer, merging, stamp>>
    PROVE  SyncInv'
<1>1. PICK s : s = sync[h]
  OBVIOUS
<1>2. PICK c : c = copy[From(s, h)]
  OBVIOUS
<1>3. From(s, h) \in Hosts /\ Sender(h) = From(s, h)
  BY <1>1, ToAndFrom
<1>4. PICK e : e = With(s, [at |-> "lock", tail |-> tail, mtime |-> c.mtime, text |-> c.text, offset |-> offset])
  OBVIOUS
<1>5. sync' = [sync EXCEPT ![h] = e]
  BY <1>1, <1>2, <1>3, <1>4
<1>6. RunShape(s) /\ RunQuiet(s, h) /\ s.at \in {"plan", "bulk"} /\ CopyType /\ VersionsAgree
  BY <1>1, RunNow
<1>7. {"at", "mtime", "text"} \subseteq DOMAIN e /\ e.at = "lock" /\ e.mtime = c.mtime /\ e.text = c.text
  BY <1>4 DEF With
<1>8. {"pull", "quiet"} \subseteq DOMAIN s /\ s.pull \in BOOLEAN /\ s.quiet \in BOOLEAN
  BY <1>6 DEF RunShape
<1>9. {"pull", "quiet"} \subseteq DOMAIN e /\ e.pull = s.pull /\ e.quiet = s.quiet
  BY <1>4, <1>8 DEF With
<1>10. To(e, h) = To(s, h) /\ From(e, h) = From(s, h)
  BY <1>9 DEF To, From
<1>11. e.at \notin {"idle", "plan", "append", "align", "done"} /\ e.at \in Holding /\ e.at \notin Locked
  BY <1>7 DEF Holding, Locked
<1>12. RunShape(e)
  BY <1>7, <1>8, <1>9, <1>11 DEF RunShape
<1>13. Has(e.text) = Of(From(e, h))
  BY <1>2, <1>7, <1>10 DEF Of
<1>14. RunHas(e, h) /\ RunLocks(e, h)' /\ RunSeen(e, h)
  BY <1>11, <1>13 DEF RunHas, RunLocks, RunSeen
<1>15. RunQuiet(e, h)
  BY <1>6, <1>9, <1>11, <1>13 DEF RunQuiet
<1>16. Versions' \subseteq Versions
  <2>1. \A j \in Hosts : Key(copy'[j].mtime, copy'[j].text) \in Versions
    BY DEF Versions
  <2>2. Key(e.mtime, e.text) \in Versions
    BY <1>2, <1>3, <1>7 DEF Versions
  <2>q. QED BY <1>5, <2>1, <2>2, VersionsOfStep
<1>17. CopyType' /\ DOMAIN merging' = Hosts
  BY RunNow DEF CopyType
<1>q. QED BY <1>5, <1>11, <1>12, <1>14, <1>15, <1>16, <1>17, LinesStay

LEMMA PlanSync == ASSUME SyncInv, DOMAIN sync = Hosts, NEW h \in Hosts, Plan(h) PROVE SyncInv'
<1> DEFINE c == copy[Sender(h)]
<1> DEFINE seen == sync[h].seen
<1> DEFINE offset == IF Len(c.text) < seen.size THEN Len(c.text) ELSE seen.size
<1>1. UNCHANGED <<copy, writer, stamp>> /\ sync[h].at = "plan"
  BY DEF Plan
<1>2. \/ Goes(h, "bulk") /\ merging' = merging
      \/ Equal(c, seen) /\ Over(h, TRUE)
      \/ /\ sync' = [sync EXCEPT ![h] = With(@, [at |-> "lock", tail |-> TRUE, mtime |-> c.mtime, text |-> c.text, offset |-> offset])]
         /\ merging' = merging
  BY DEF Plan
<1> HIDE DEF offset
<1>3. CASE Goes(h, "bulk") /\ merging' = merging
  BY <1>1, <1>3, RunNow, GoesSync
<1>4. CASE Equal(c, seen) /\ Over(h, TRUE)
  <2>1. c.mtime = seen.mtime /\ Len(c.text) = seen.size
    BY <1>4 DEF Equal, Info
  <2>2. RunSeen(sync[h], h) /\ Sender(h) = From(sync[h], h) /\ From(sync[h], h) \in Hosts
    BY RunNow, ToAndFrom
  <2>3. PICK w : w = Key(c.mtime, c.text)
    OBVIOUS
  <2>4. w \in Versions /\ w[1] = seen.mtime /\ w[2] = seen.size /\ w[3] = Of(From(sync[h], h))
    BY <2>1, <2>2, <2>3 DEF Versions, Key, Of
  <2>5. Of(From(sync[h], h)) \subseteq Of(To(sync[h], h))
    BY <1>1, <2>2, <2>4 DEF RunSeen
  <2>q. QED BY <1>1, <1>4, <2>5, OverHere
<1>5. CASE /\ sync' = [sync EXCEPT ![h] = With(@, [at |-> "lock", tail |-> TRUE, mtime |-> c.mtime, text |-> c.text, offset |-> offset])]
           /\ merging' = merging
  BY <1>1, <1>5, TakesSync
<1>q. QED BY <1>2, <1>3, <1>4, <1>5

LEMMA BulkSync == ASSUME SyncInv, DOMAIN sync = Hosts, NEW h \in Hosts, Bulk(h) PROVE SyncInv'
<1> DEFINE c == copy[Sender(h)]  d == copy[Receiver(h)]
<1>1. UNCHANGED <<copy, writer, stamp>> /\ sync[h].at = "bulk"
  BY DEF Bulk
<1>2. \/ (~c.there \/ Equal(c, Info(d))) /\ Over(h, TRUE)
      \/ /\ sync' = [sync EXCEPT ![h] = With(@, [at |-> "lock", tail |-> FALSE, mtime |-> c.mtime, text |-> c.text, offset |-> 0])]
         /\ merging' = merging
  BY DEF Bulk
<1>3. CASE (~c.there \/ Equal(c, Info(d))) /\ Over(h, TRUE)
  <2>1. /\ Sender(h) = From(sync[h], h) /\ From(sync[h], h) \in Hosts
        /\ Receiver(h) = To(sync[h], h) /\ To(sync[h], h) \in Hosts
    BY ToAndFrom
  <2>2. CASE ~c.there
    <3>1. c.text = << >>
      BY <2>1, <2>2, RunNow DEF CopyType
    <3>2. Of(From(sync[h], h)) = {}
      BY <2>1, <3>1 DEF Of, Has
    <3>q. QED BY <1>1, <1>3, <3>2, OverHere
  <2>3. CASE Equal(c, Info(d))
    <3>1. c.mtime = d.mtime /\ Len(c.text) = Len(d.text)
      BY <2>3 DEF Equal, Info
    <3>2. PICK v, w : v = Key(c.mtime, c.text) /\ w = Key(d.mtime, d.text)
      OBVIOUS
    <3>3. v \in Versions /\ w \in Versions /\ v[1] = w[1] /\ v[2] = w[2] /\ v[3] = Has(c.text) /\ w[3] = Has(d.text)
      BY <2>1, <3>1, <3>2 DEF Versions, Key
    <3>4. Has(c.text) = Has(d.text)
      BY <3>3, RunNow DEF VersionsAgree
    <3>5. Of(From(sync[h], h)) \subseteq Of(To(sync[h], h))
      BY <2>1, <3>4 DEF Of
    <3>q. QED BY <1>1, <1>3, <3>5, OverHere
  <2>q. QED BY <1>3, <2>2, <2>3
<1>4. CASE /\ sync' = [sync EXCEPT ![h] = With(@, [at |-> "lock", tail |-> FALSE, mtime |-> c.mtime, text |-> c.text, offset |-> 0])]
           /\ merging' = merging
  BY <1>1, <1>4, TakesSync
<1>q. QED BY <1>2, <1>3, <1>4

LEMMA FailsSync == ASSUME SyncInv, DOMAIN sync = Hosts, NEW h \in Hosts, Fails(h) PROVE SyncInv'
BY OverHere DEF Fails

LEMMA LocksSync == ASSUME SyncInv, DOMAIN sync = Hosts, NEW h \in Hosts, Locks(h) PROVE SyncInv'
<1>1. /\ sync[h].at = "lock" /\ merging[Receiver(h)] = {} /\ merging' = [merging EXCEPT ![Receiver(h)] = {h}]
      /\ Goes(h, "merge") /\ UNCHANGED <<copy, writer, stamp>>
  BY DEF Locks
<1>2. Receiver(h) = To(sync[h], h) /\ To(sync[h], h) \in Hosts
  BY ToAndFrom
<1>3. DOMAIN merging' = Hosts /\ merging'[To(sync[h], h)] = {h} /\ DOMAIN merging = Hosts
  BY <1>1, <1>2, RunNow
<1>4. \A k \in Hosts : k # h => \A j \in Hosts : merging[j] = {k} => merging'[j] = {k}
  BY <1>1, <1>3
<1>q. QED BY <1>1, <1>3, <1>4, GoesSync DEF Holding

\* The run read the receiver's file and knows what it lacks.
LEMMA WillAppendSync ==
    ASSUME SyncInv, DOMAIN sync = Hosts, NEW h \in Hosts, sync[h].at = "merge", NEW adds, WillAppend(h, adds),
           UNCHANGED <<copy, writer, stamp>>,
           Has(copy[Receiver(h)].text \o adds) = Has(copy[Receiver(h)].text) \cup Has(sync[h].text),
           Ended(copy[Receiver(h)].text \o adds)
    PROVE  SyncInv'
<1>1. PICK s : s = sync[h]
  OBVIOUS
<1>2. PICK c : c = copy[To(s, h)]
  OBVIOUS
<1>3. To(s, h) \in Hosts /\ Receiver(h) = To(s, h)
  BY <1>1, ToAndFrom
<1>4. PICK e : e = With(s, [at |-> "append", before |-> c, adds |-> adds])
  OBVIOUS
<1>5. sync' = [sync EXCEPT ![h] = e] /\ merging' = merging
  BY <1>1, <1>2, <1>3, <1>4 DEF WillAppend
<1>6. RunShape(s) /\ RunQuiet(s, h) /\ RunHas(s, h) /\ RunLocks(s, h) /\ s.at = "merge" /\ s.at \in Holding /\ s.at \in Locked
  BY <1>1, RunNow DEF Holding, Locked
<1>7. {"at", "before", "adds"} \subseteq DOMAIN e /\ e.at = "append" /\ e.before = c /\ e.adds = adds
  BY <1>4 DEF With
<1>8. {"pull", "quiet", "mtime", "text"} \subseteq DOMAIN s /\ s.pull \in BOOLEAN /\ s.quiet \in BOOLEAN
  BY <1>6 DEF RunShape
<1>9. {"pull", "quiet", "mtime", "text"} \subseteq DOMAIN e /\ e.pull = s.pull /\ e.quiet = s.quiet /\ e.mtime = s.mtime /\ e.text = s.text
  BY <1>4, <1>8 DEF With
<1>10. To(e, h) = To(s, h) /\ From(e, h) = From(s, h)
  BY <1>9 DEF To, From
<1>11. e.at \notin {"idle", "plan", "align", "done"} /\ e.at \in Holding /\ e.at \in Locked
  BY <1>7 DEF Holding, Locked
<1>12. Has(e.before.text \o e.adds) = Has(e.before.text) \cup Has(e.text) /\ Ended(e.before.text \o e.adds)
  BY <1>1, <1>2, <1>3, <1>7, <1>9
<1>13. RunShape(e)
  BY <1>7, <1>8, <1>9, <1>11, <1>12 DEF RunShape
<1>14. RunHas(e, h) /\ RunSeen(e, h)
  BY <1>6, <1>9, <1>10, <1>11 DEF RunHas, RunSeen
<1>15. RunLocks(e, h)'
  <2>1. To(e, h)' = To(s, h)
    BY <1>10 DEF To, Peer
  <2>q. QED BY <1>5, <1>6, <2>1 DEF RunLocks
<1>16. RunQuiet(e, h)
  BY <1>2, <1>6, <1>7, <1>9, <1>10, <1>11 DEF RunQuiet
<1>17. Versions' \subseteq Versions
  <2>1. \A j \in Hosts : Key(copy'[j].mtime, copy'[j].text) \in Versions
    BY DEF Versions
  <2>2. Key(e.mtime, e.text) \in Versions
    BY <1>1, <1>6, <1>9 DEF Versions
  <2>q. QED BY <1>5, <2>1, <2>2, VersionsOfStep
<1>18. CopyType' /\ DOMAIN merging' = Hosts
  BY <1>5, RunNow DEF CopyType
<1>q. QED BY <1>5, <1>13, <1>14, <1>15, <1>16, <1>17, <1>18, LinesStay

LEMMA MergeTailSync == ASSUME TokensDiffer, HistoryInv, SyncInv, NEW h \in Hosts, MergeTail(h) PROVE SyncInv'
<1> DEFINE r == Receiver(h)
<1> DEFINE p == copy[r].text
<1> DEFINE t == sync[h].text
<1> DEFINE m == sync[h].offset
<1> DEFINE extra == SubSeq(p, m + 1, Len(p))
<1> DEFINE news == Missing(extra, Rest(h))
<1>1. /\ UNCHANGED <<copy, writer, stamp>> /\ sync[h].at = "merge" /\ sync[h].tail /\ r \in Hosts /\ DOMAIN sync = Hosts
      /\ r = To(sync[h], h)
  BY EndsAreHosts, ToAndFrom DEF MergeTail, HistoryInv, HistoryType
<1>2. Good(p, written) /\ Good(t, written) /\ m \in 0..Len(t)
  BY <1>1 DEF HistoryInv, CopiesAreGood, RunsAreGood, RunIsGood
<1>3. Rest(h) = SubSeq(t, m + 1, Len(t))
  BY DEF Rest
<1>4. \/ Deferred(h)
      \/ writer[r].open /\ Over(h, TRUE)
      \/ /\ ~(Len(p) < m) /\ SubSeq(p, 1, m) = SubSeq(t, 1, m)
         /\ Spans(Rest(h)) = {} \/ (Ended(extra) /\ news = << >>)
         /\ Goes(h, "align") /\ merging' = merging
      \/ /\ ~(Len(p) < m) /\ SubSeq(p, 1, m) = SubSeq(t, 1, m)
         /\ Spans(Rest(h)) # {} /\ Ended(extra) /\ WillAppend(h, news)
  BY DEF MergeTail
<1>5. CASE Deferred(h)
  BY <1>1, <1>5, DeferredSync
<1>6. CASE writer[r].open /\ Over(h, TRUE)
  <2>1. ~sync[h].quiet
    BY <1>1, <1>6, RunNow DEF RunQuiet, Still
  <2>q. QED BY <1>1, <1>6, <2>1, OverHere
<1>7. ASSUME ~(Len(p) < m), SubSeq(p, 1, m) = SubSeq(t, 1, m) PROVE SameUpTo(p, t, m) /\ m <= Len(p)
  <2> HIDE DEF p, t, m
  <2>1. p \in Seq(Tokens) /\ t \in Seq(Tokens) /\ Len(p) \in Nat /\ Len(t) \in Nat /\ m <= Len(p)
    BY <1>2, <1>7 DEF Good
  <2>2. ASSUME NEW i \in 1..m PROVE p[i] = t[i]
    <3>1. SubSeq(p, 1, m)[i] = p[i] /\ SubSeq(t, 1, m)[i] = t[i]
      BY <1>2, <2>1
    <3>q. QED BY <3>1, <1>7
  <2>q. QED BY <2>1, <2>2 DEF SameUpTo
<1>8. ASSUME ~(Len(p) < m), SubSeq(p, 1, m) = SubSeq(t, 1, m), Spans(Rest(h)) # {}, Ended(extra)
      PROVE  Has(p \o news) = Has(p) \cup Has(t) /\ Ended(p \o news)
  <2>1. SameUpTo(p, t, m) /\ m <= Len(p)
    BY <1>7, <1>8
  <2> HIDE DEF p, t, m
  <2>q. QED BY <1>2, <1>3, <1>8, <2>1, MergeHasBoth, MergeIsGood
<1>9. CASE /\ ~(Len(p) < m) /\ SubSeq(p, 1, m) = SubSeq(t, 1, m)
           /\ Spans(Rest(h)) = {} \/ (Ended(extra) /\ news = << >>)
           /\ Goes(h, "align") /\ merging' = merging
  <2>1. Has(t) \subseteq Has(p)
    <3>1. CASE Spans(Rest(h)) = {}
      <4>1. SameUpTo(p, t, m) /\ m <= Len(p)
        BY <1>7, <1>9
      <4> DEFINE w == SubSeq(t, m + 1, Len(t))
      <4> HIDE DEF p, t, m
      <4>2. /\ p \in Seq(Tokens) /\ t \in Seq(Tokens) /\ Len(p) \in Nat /\ Len(t) \in Nat
            /\ w \in Seq(Tokens) /\ Len(w) = Len(t) - m /\ \A i \in 1..Len(w) : w[i] = t[m + i]
        BY <1>2 DEF Good
      <4>3. Has(w) = {}
        BY <1>3, <3>1, <4>2, NoRecordNoLine
      <4> HIDE DEF w
      <4>4. ASSUME NEW l \in Has(t) PROVE l \in Has(p)
        <5>1. PICK i \in 1..Len(t) : t[i] = End(l)
          BY <4>4 DEF Has
        <5>2. l \in Lines
          BY <4>4 DEF Has
        <5>3. i <= m
          <6> SUFFICES ASSUME i > m PROVE FALSE
            BY <1>2, <4>2
          <6>1. i - m \in 1..Len(w) /\ m + (i - m) = i
            BY <1>2, <4>2
          <6>2. w[i - m] = End(l)
            BY <4>2, <5>1, <6>1
          <6>q. QED BY <4>3, <5>2, <6>1, <6>2 DEF Has
        <5>4. i \in 1..m /\ i \in 1..Len(p)
          BY <1>2, <4>1, <4>2, <5>3
        <5>5. p[i] = End(l)
          BY <4>1, <5>1, <5>4 DEF SameUpTo
        <5>q. QED BY <5>2, <5>4, <5>5 DEF Has
      <4>q. QED BY <4>4
    <3>2. CASE Spans(Rest(h)) # {} /\ Ended(extra) /\ news = << >>
      <4>1. Has(p \o news) = Has(p) \cup Has(t)
        BY <1>8, <1>9, <3>2
      <4>2. p \o << >> = p
        BY <1>2 DEF Good
      <4>q. QED BY <3>2, <4>1, <4>2
    <3>q. QED BY <1>9, <3>1, <3>2
  <2>2. Has(t) \subseteq Of(To(sync[h], h))
    BY <1>1, <2>1 DEF Of
  <2>3. sync[h].at \in Holding /\ merging[To(sync[h], h)] = {h} /\ DOMAIN merging = Hosts
    BY <1>1, RunNow DEF Holding, Locked, RunLocks
  <2>q. QED BY <1>1, <1>9, <2>2, <2>3, GoesSync
<1>10. CASE /\ ~(Len(p) < m) /\ SubSeq(p, 1, m) = SubSeq(t, 1, m)
            /\ Spans(Rest(h)) # {} /\ Ended(extra) /\ WillAppend(h, news)
  <2>1. Has(p \o news) = Has(p) \cup Has(t) /\ Ended(p \o news)
    BY <1>8, <1>10
  <2> HIDE DEF news
  <2>q. QED BY <1>1, <1>10, <2>1, WillAppendSync
<1>q. QED BY <1>4, <1>5, <1>6, <1>9, <1>10

LEMMA MtimeOnly ==
    ASSUME CopyType, NEW r \in Hosts, NEW t \in Nat, copy' = [copy EXCEPT ![r].mtime = t]
    PROVE  /\ CopyType'
           /\ \A j \in Hosts : copy'[j].text = copy[j].text /\ (j # r => copy'[j] = copy[j])
           /\ copy'[r].mtime = t
BY DEF CopyType

LEMMA MergeWholeSync == ASSUME TokensDiffer, HistoryInv, SyncInv, NEW h \in Hosts, MergeWhole(h) PROVE SyncInv'
<1> DEFINE r == Receiver(h)
<1> DEFINE d == copy[r]
<1> DEFINE p == d.text
<1> DEFINE t == sync[h].text
<1> DEFINE news == Missing(p, t)
<1>1. /\ UNCHANGED <<writer, stamp>> /\ sync[h].at = "merge" /\ ~sync[h].tail /\ r \in Hosts /\ DOMAIN sync = Hosts
      /\ r = To(sync[h], h) /\ sync[h].at \in Holding /\ sync[h].at \in Locked
  BY EndsAreHosts, ToAndFrom DEF MergeWhole, HistoryInv, HistoryType, Holding, Locked
<1>2. Good(p, written) /\ Good(t, written)
  BY <1>1 DEF HistoryInv, CopiesAreGood, RunsAreGood, RunIsGood
<1>3. merging[r] = {h} /\ DOMAIN merging = Hosts
  BY <1>1, RunNow DEF RunLocks
<1>4. \/ /\ p = t /\ copy' = [copy EXCEPT ![r].mtime = IF @ < sync[h].mtime THEN sync[h].mtime ELSE @]
         /\ Over(h, TRUE)
      \/ copy' = copy /\ ~Ended(p) /\ Deferred(h)
      \/ copy' = copy /\ Ended(p) /\ news = << >> /\ Goes(h, "align") /\ merging' = merging
      \/ copy' = copy /\ Ended(p) /\ WillAppend(h, news)
  BY DEF MergeWhole
<1>5. CASE /\ p = t /\ copy' = [copy EXCEPT ![r].mtime = IF @ < sync[h].mtime THEN sync[h].mtime ELSE @]
           /\ Over(h, TRUE)
  <2>1. Key(sync[h].mtime, p) \in Versions /\ \A j \in Hosts : Key(copy[j].mtime, copy[j].text) \in Versions
    BY <1>1, <1>5 DEF Versions
  <2>2. sync[h].mtime \in Nat
    BY <2>1, RunNow DEF VersionsAgree, Key
  <2> DEFINE T == IF d.mtime < sync[h].mtime THEN sync[h].mtime ELSE d.mtime
  <2>3. T \in Nat /\ Key(T, p) \in Versions
    BY <1>1, <2>1, <2>2, RunNow DEF CopyType
  <2>4. copy' = [copy EXCEPT ![r].mtime = T]
    BY <1>5
  <2> HIDE DEF T
  <2>5. /\ CopyType'
        /\ \A j \in Hosts : copy'[j].text = copy[j].text /\ (j # r => copy'[j] = copy[j])
        /\ copy'[r].mtime = T
    BY <1>1, <2>3, <2>4, RunNow, MtimeOnly
  <2>6. \A j \in Hosts : Key(copy'[j].mtime, copy'[j].text) \in Versions
    BY <1>1, <2>1, <2>3, <2>5
  <2>7. sync[h].quiet => Of(From(sync[h], h)) \subseteq Of(To(sync[h], h))
    BY <1>1, <1>5, RunNow DEF RunQuiet, Of
  <2>8. \A j \in Hosts : copy'[j].text = copy[j].text /\ (copy'[j] = copy[j] \/ merging[j] = {h})
    BY <1>3, <2>5
  <2>q. QED BY <1>1, <1>5, <2>5, <2>6, <2>7, <2>8, OverSync
<1>6. CASE copy' = copy /\ ~Ended(p) /\ Deferred(h)
  <2>1. ~sync[h].quiet
    BY <1>1, <1>6, RunNow DEF RunQuiet, Still
  <2>q. QED BY <1>1, <1>6, <2>1, DeferredSync
<1>7. ASSUME Ended(p) PROVE Has(p \o news) = Has(p) \cup Has(t) /\ Ended(p \o news)
  <2> HIDE DEF p, t
  <2>1. p \in Seq(Tokens) /\ t \in Seq(Tokens) /\ Len(p) \in Nat /\ Len(t) \in Nat
    BY <1>2 DEF Good
  <2>2. SubSeq(p, 0 + 1, Len(p)) = p /\ SubSeq(t, 0 + 1, Len(t)) = t
    BY <2>1
  <2>3. 0 \in 0..Len(t) /\ 0 <= Len(p) /\ SameUpTo(p, t, 0)
    BY <2>1 DEF SameUpTo
  <2> DEFINE v == SubSeq(p, 0 + 1, Len(p))  w == SubSeq(t, 0 + 1, Len(t))
  <2>4. Ended(v)
    BY <1>7, <2>2
  <2>5. /\ Has(p \o Missing(v, w)) = Has(p) \cup Has(t)
        /\ Ended(p \o Missing(v, w))
    BY <1>2, <2>3, <2>4, MergeHasBoth, MergeIsGood
  <2>q. QED BY <2>2, <2>5
<1>8. CASE copy' = copy /\ Ended(p) /\ news = << >> /\ Goes(h, "align") /\ merging' = merging
  <2>1. p \o << >> = p
    BY <1>2 DEF Good
  <2>2. Has(t) \subseteq Of(To(sync[h], h))
    BY <1>1, <1>7, <1>8, <2>1 DEF Of
  <2>q. QED BY <1>1, <1>3, <1>8, <2>2, GoesSync
<1>9. CASE copy' = copy /\ Ended(p) /\ WillAppend(h, news)
  <2>1. Has(p \o news) = Has(p) \cup Has(t) /\ Ended(p \o news)
    BY <1>7, <1>9
  <2> HIDE DEF news
  <2>q. QED BY <1>1, <1>9, <2>1, WillAppendSync
<1>q. QED BY <1>4, <1>5, <1>6, <1>8, <1>9

\* What an append does to the copies.
LEMMA AddsGrows ==
    ASSUME CopyType, stamp \in Nat, NEW r \in Hosts, NEW x \in Seq(Tokens), Adds(r, x)
    PROVE  /\ CopyType' /\ stamp' = stamp + 1
           /\ copy'[r].text = copy[r].text \o x /\ copy'[r].mtime = stamp + 1
           /\ \A j \in Hosts : j # r => copy'[j] = copy[j]
           /\ Of(r)' = Has(copy[r].text \o x) /\ \A j \in Hosts : Of(j) \subseteq Of(j)' /\ (j # r => Of(j)' = Of(j))
<1> DEFINE c == [there |-> TRUE, text |-> copy[r].text \o x, mtime |-> stamp + 1]
<1>1. stamp' = stamp + 1 /\ copy' = [copy EXCEPT ![r] = c]
  BY DEF Adds
<1>2. copy[r].text \in Seq(Tokens) /\ copy[r].text \o x \in Seq(Tokens)
  BY DEF CopyType
<1>3. c \in [there : BOOLEAN, text : Seq(Tokens), mtime : Nat] /\ c.there /\ c.text = copy[r].text \o x /\ c.mtime = stamp + 1
  BY <1>2
<1> HIDE DEF c
<1>4. copy'[r] = c /\ \A j \in Hosts : j # r => copy'[j] = copy[j]
  BY <1>1 DEF CopyType
<1>5. CopyType'
  BY <1>1, <1>3, <1>4 DEF CopyType
<1>6. Of(r)' = Has(copy[r].text \o x) /\ Of(r) \subseteq Of(r)'
  <2>1. Has(copy[r].text) \subseteq Has(copy[r].text \o x)
    BY <1>2, HasBoth
  <2>2. copy'[r].text = copy[r].text \o x
    BY <1>3, <1>4
  <2>3. Of(r)' = Has(copy'[r].text) /\ Of(r) = Has(copy[r].text)
    BY DEF Of
  <2>q. QED BY <2>1, <2>2, <2>3
<1>7. \A j \in Hosts : j # r => Of(j)' = Of(j)
  BY <1>4 DEF Of
<1>q. QED BY <1>1, <1>3, <1>4, <1>5, <1>6, <1>7

\* The file is as it was read: it gets what it lacked.
LEMMA AppendsToSync == ASSUME HistoryInv, SyncInv, NEW h \in Hosts, AppendsTo(h) PROVE SyncInv'
<1>1. PICK s : s = sync[h]
  OBVIOUS
<1>2. PICK r : r = To(s, h)
  OBVIOUS
<1>3. /\ r \in Hosts /\ Receiver(h) = r /\ From(s, h) \in Hosts /\ From(s, h) # r /\ Peer(r) = From(s, h)
      /\ DOMAIN sync = Hosts /\ Peer(h) \in Hosts
  BY <1>1, <1>2, ToAndFrom, PeerIsHost DEF HistoryInv, HistoryType
<1>4. s.at = "append" /\ s.at \in Holding /\ s.at \in Locked /\ writer' = writer
  BY <1>1 DEF AppendsTo, Holding, Locked
<1>5. RunShape(s) /\ RunHas(s, h) /\ RunLocks(s, h) /\ RunQuiet(s, h) /\ CopyType /\ VersionsAgree /\ DOMAIN merging = Hosts
  BY <1>1, RunNow
<1>6. \/ /\ writer[r].open \/ copy[r] # s.before
         /\ UNCHANGED <<copy, stamp>> /\ (Deferred(h) \/ Over(h, TRUE))
      \/ /\ copy[r] = s.before /\ Adds(r, s.adds) /\ Goes(h, "align") /\ merging' = merging
  BY <1>1, <1>3 DEF AppendsTo
<1>7. CASE /\ writer[r].open \/ copy[r] # s.before
           /\ UNCHANGED <<copy, stamp>> /\ (Deferred(h) \/ Over(h, TRUE))
  <2>1. ~s.quiet
    BY <1>2, <1>3, <1>4, <1>5, <1>7 DEF RunQuiet, Still
  <2>2. CASE Deferred(h)
    BY <1>1, <1>3, <1>4, <1>7, <2>1, <2>2, DeferredSync
  <2>3. CASE Over(h, TRUE)
    BY <1>1, <1>3, <1>4, <1>7, <2>1, <2>3, OverHere
  <2>q. QED BY <1>7, <2>2, <2>3
<1>8. CASE copy[r] = s.before /\ Adds(r, s.adds) /\ Goes(h, "align") /\ merging' = merging
  <2>1. s.adds \in Seq(Tokens) /\ stamp \in Nat
    BY <1>1, <1>4, <1>5 DEF HistoryInv, RunsAreGood, RunIsGood, VersionsAgree
  <2>2. /\ CopyType' /\ stamp' = stamp + 1
        /\ copy'[r].text = copy[r].text \o s.adds /\ copy'[r].mtime = stamp + 1
        /\ \A j \in Hosts : j # r => copy'[j] = copy[j]
        /\ Of(r)' = Has(copy[r].text \o s.adds) /\ \A j \in Hosts : Of(j) \subseteq Of(j)' /\ (j # r => Of(j)' = Of(j))
    BY <1>3, <1>5, <1>8, <2>1, AddsGrows
  <2>3. Of(r)' = Of(r) \cup Has(s.text) /\ Ended(copy'[r].text) /\ Has(s.text) \subseteq Of(From(s, h))
    BY <1>4, <1>5, <1>8, <2>2 DEF RunShape, RunHas, Of
  <2>4. PICK e : e = [s EXCEPT !.at = "align"]
    OBVIOUS
  <2>5. sync' = [sync EXCEPT ![h] = e]
    BY <1>1, <1>8, <2>4 DEF Goes
  <2>6. DOMAIN e = DOMAIN s /\ e.at = "align" /\ \A f \in DOMAIN s : f # "at" => e[f] = s[f]
    BY <1>5, <2>4 DEF RunShape
  <2>7. /\ {"pull", "quiet", "mtime", "text"} \subseteq DOMAIN s /\ s.pull \in BOOLEAN /\ s.quiet \in BOOLEAN
        /\ e.pull = s.pull /\ e.quiet = s.quiet /\ e.mtime = s.mtime /\ e.text = s.text
    BY <1>4, <1>5, <2>6 DEF RunShape
  <2>8. e.at \notin {"idle", "plan", "append", "done"} /\ e.at \in Holding /\ e.at \in Locked
    BY <2>6 DEF Holding, Locked
  <2>9. To(e, h)' = r /\ From(e, h)' = From(s, h) /\ Peer(h)' = Peer(h)
    BY <1>2, <2>7 DEF To, From, Peer
  <2>10. RunShape(e)
    BY <1>5, <2>6, <2>7, <2>8 DEF RunShape
  <2>11. RunHas(e, h)'
    <3>1. Has(e.text) \subseteq Of(From(s, h))' /\ Has(e.text) \subseteq Of(r)'
      BY <1>3, <2>2, <2>3, <2>7
    <3>q. QED BY <2>9, <3>1 DEF RunHas
  <2>12. RunLocks(e, h)'
    BY <1>2, <1>4, <1>5, <1>8, <2>9 DEF RunLocks
  <2>13. RunSeen(e, h)'
    BY <2>8 DEF RunSeen
  <2>14. RunQuiet(e, h)'
    <3> SUFFICES ASSUME s.quiet PROVE /\ Still'
                                      /\ Of(From(s, h))' \subseteq Has(s.text) \cup Of(r)'
                                      /\ ~s.pull => Of(Peer(h))' \subseteq Of(h)'
      BY <2>7, <2>8, <2>9 DEF RunQuiet
    <3>1. /\ Still /\ Of(From(s, h)) \subseteq Has(s.text) \cup Of(r)
          /\ ~s.pull => Of(Peer(h)) \subseteq Of(h)
      BY <1>2, <1>4, <1>5 DEF RunQuiet
    <3>2. Still'
      BY <1>4, <2>2, <2>3, <3>1 DEF Still
    <3>3. Of(From(s, h))' \subseteq Has(s.text) \cup Of(r)'
      BY <1>3, <2>2, <2>3, <3>1
    <3>4. ~s.pull => Of(Peer(h))' \subseteq Of(h)'
      <4>1. ~s.pull => r = Peer(h) /\ From(s, h) = h
        BY <1>2 DEF To, From
      <4>q. QED BY <1>3, <2>2, <2>3, <3>1, <4>1
    <3>q. QED BY <3>2, <3>3, <3>4
  <2>15. Versions' \subseteq Versions \cup {Key(stamp + 1, copy'[r].text)}
    <3> DEFINE V == Versions \cup {Key(stamp + 1, copy'[r].text)}
    <3>1. \A j \in Hosts : Key(copy'[j].mtime, copy'[j].text) \in V
      <4> SUFFICES ASSUME NEW j \in Hosts PROVE Key(copy'[j].mtime, copy'[j].text) \in V
        OBVIOUS
      <4>1. CASE j = r
        BY <2>2, <4>1
      <4>2. CASE j # r
        BY <2>2, <4>2 DEF Versions
      <4>q. QED BY <4>1, <4>2
    <3>2. Key(e.mtime, e.text) \in V
      BY <1>1, <1>4, <2>7 DEF Versions
    <3> HIDE DEF V
    <3>3. Versions \subseteq V
      BY DEF V
    <3>4. Versions' \subseteq V
      BY <1>3, <2>5, <3>1, <3>2, <3>3, VersionsOfStep
    <3>q. QED BY <3>4 DEF V
  <2>16. VersionsAgree' /\ \A v \in Versions' : v \in Versions \/ v[1] > stamp
    <3>1. Key(stamp + 1, copy'[r].text) = <<stamp + 1, Len(copy'[r].text), Has(copy'[r].text)>>
      BY DEF Key
    <3>2. VersionsAgree'
      BY <1>5, <2>2, <2>15, <3>1, VersionsGrow
    <3>3. \A v \in Versions' : v \in Versions \/ v = <<stamp + 1, Len(copy'[r].text), Has(copy'[r].text)>>
      BY <2>15, <3>1
    <3>q. QED BY <2>1, <3>2, <3>3
  <2>17. Beside(h)
    <3>1. \A j \in Hosts : Of(j) \subseteq Of(j)' /\ Of(j)' \subseteq Of(j) \cup Of(Peer(j))
      BY <1>3, <2>2, <2>3
    <3>2. \A j \in Hosts : Ended(copy[j].text) => Ended(copy'[j].text)
      BY <2>2, <2>3
    <3>3. \A j \in Hosts : copy'[j] = copy[j] \/ merging[j] = {h}
      BY <1>2, <1>4, <1>5, <2>2 DEF RunLocks
    <3>q. QED BY <1>4, <1>8, <2>1, <2>2, <2>16, <3>1, <3>2, <3>3 DEF Beside
  <2>q. QED BY <1>3, <1>5, <1>8, <2>2, <2>5, <2>10, <2>11, <2>12, <2>13, <2>14, <2>16, <2>17, RunMoves
<1>q. QED BY <1>6, <1>7, <1>8

\* The mtime is taken over only where it stands for the lines that are there.
LEMMA AlignSync == ASSUME TokensDiffer, HistoryInv, SyncInv, NEW h \in Hosts, Align(h) PROVE SyncInv'
<1> DEFINE r == Receiver(h)
<1> DEFINE t == sync[h].text
<1> DEFINE p == copy[r].text
<1>1. /\ UNCHANGED <<writer, stamp>> /\ sync[h].at = "align" /\ r \in Hosts /\ DOMAIN sync = Hosts
      /\ r = To(sync[h], h) /\ sync[h].at \in Holding /\ sync[h].at \in Locked /\ Over(h, TRUE)
  BY EndsAreHosts, ToAndFrom DEF Align, HistoryInv, HistoryType, Holding, Locked
<1>2. Good(p, written) /\ Good(t, written)
  BY <1>1 DEF HistoryInv, CopiesAreGood, RunsAreGood, RunIsGood
<1>3. /\ Has(t) \subseteq Of(To(sync[h], h)) /\ merging[r] = {h} /\ CopyType
      /\ sync[h].quiet => Of(From(sync[h], h)) \subseteq Has(t) \cup Of(To(sync[h], h))
  BY <1>1, RunNow DEF RunHas, RunLocks, RunQuiet
<1>4. sync[h].quiet => Of(From(sync[h], h)) \subseteq Of(To(sync[h], h))
  BY <1>3
<1>5. copy' = copy \/ (Len(p) = Len(t) /\ copy' = [copy EXCEPT ![r].mtime = sync[h].mtime])
  BY DEF Align
<1>6. CASE copy' = copy
  BY <1>1, <1>4, <1>6, OverHere
<1>7. CASE Len(p) = Len(t) /\ copy' = [copy EXCEPT ![r].mtime = sync[h].mtime]
  <2>1. Has(t) = Has(p)
    <3>1. Has(t) \subseteq Has(p)
      BY <1>1, <1>3 DEF Of
    <3>2. Len(t) = Len(p)
      BY <1>7
    <3> HIDE DEF t, p
    <3>q. QED BY <1>2, <3>1, <3>2, SameLengthSameLines
  <2>2. Key(sync[h].mtime, t) \in Versions /\ \A j \in Hosts : Key(copy[j].mtime, copy[j].text) \in Versions
    BY <1>1 DEF Versions
  <2>3. Key(sync[h].mtime, p) \in Versions
    BY <1>7, <2>1, <2>2 DEF Key
  <2>4. sync[h].mtime \in Nat
    BY <2>2, RunNow DEF VersionsAgree, Key
  <2>5. /\ CopyType'
        /\ \A j \in Hosts : copy'[j].text = copy[j].text /\ (j # r => copy'[j] = copy[j])
        /\ copy'[r].mtime = sync[h].mtime
    BY <1>1, <1>3, <1>7, <2>4, MtimeOnly
  <2>6. \A j \in Hosts : Key(copy'[j].mtime, copy'[j].text) \in Versions
    BY <1>1, <2>2, <2>3, <2>5
  <2>7. \A j \in Hosts : copy'[j].text = copy[j].text /\ (copy'[j] = copy[j] \/ merging[j] = {h})
    BY <1>3, <2>5
  <2>q. QED BY <1>1, <1>4, <2>5, <2>6, <2>7, OverSync
<1>q. QED BY <1>5, <1>6, <1>7

-----------------------------------------------------------------------------
(* The tools' steps.                                                       *)

\* A run that a tool disturbed.
Disturbed(s) == IF s.at = "idle" THEN s ELSE [s EXCEPT !.quiet = FALSE]

LEMMA DisturbedKeeps == ASSUME NEW s, RunShape(s), NEW e, e = Disturbed(s)
    PROVE  /\ RunShape(e) /\ e.at = s.at /\ (s.at # "idle" => ~e.quiet /\ e.pull = s.pull)
           /\ s.at \in Holding => e.mtime = s.mtime /\ e.text = s.text
           /\ s.at = "plan" => e.seen = s.seen
<1>1. CASE s.at = "idle"
  BY <1>1 DEF Disturbed, Holding
<1>2. CASE s.at # "idle"
  <2>1. e = [s EXCEPT !.quiet = FALSE]
    BY <1>2 DEF Disturbed
  <2>2. /\ "at" \in DOMAIN s /\ {"pull", "quiet"} \subseteq DOMAIN s
        /\ DOMAIN e = DOMAIN s /\ e.quiet = FALSE /\ \A f \in DOMAIN s : f # "quiet" => e[f] = s[f]
    BY <1>2, <2>1 DEF RunShape
  <2>3. e.at = s.at /\ e.pull = s.pull
    BY <2>2
  <2>4. s.at \in Holding => {"mtime", "text"} \subseteq DOMAIN s /\ e.mtime = s.mtime /\ e.text = s.text
    BY <2>2 DEF RunShape
  <2>5. s.at = "plan" => "seen" \in DOMAIN s /\ e.seen = s.seen
    BY <2>2 DEF RunShape
  <2>6. s.at = "append" => {"before", "adds"} \subseteq DOMAIN s /\ e.before = s.before /\ e.adds = s.adds
    BY <2>2 DEF RunShape
  <2>7. s.at = "append" => s.at \in Holding
    BY DEF Holding
  <2>8. RunShape(e)
    BY <2>2, <2>3, <2>4, <2>5, <2>6, <2>7 DEF RunShape
  <2>q. QED BY <2>2, <2>3, <2>4, <2>5, <2>8
<1>q. QED BY <1>1, <1>2

\* No run is quiet any more; what it has it still has.
LEMMA ToolSync ==
    ASSUME HistoryInv, SyncInv, Disturbs, merging' = merging, NEW h \in Hosts, NEW x \in Seq(Tokens),
           UNCHANGED <<copy, stamp>> \/ Adds(h, x)
    PROVE  SyncInv'
<1>1. CopyType /\ VersionsAgree /\ DOMAIN merging = Hosts /\ stamp \in Nat /\ DOMAIN sync = Hosts
  BY DEF SyncInv, VersionsAgree, HistoryInv, HistoryType
<1>2. \A k \in Hosts : sync'[k] = Disturbed(sync[k])
  BY DEF Disturbs, Disturbed
<1>3. \A k \in Hosts : sync'[k].at \in Holding => sync[k].at \in Holding /\ Key(sync'[k].mtime, sync'[k].text) \in Versions
  <2> SUFFICES ASSUME NEW k \in Hosts, sync'[k].at \in Holding
               PROVE  sync[k].at \in Holding /\ Key(sync'[k].mtime, sync'[k].text) \in Versions
    OBVIOUS
  <2>1. sync'[k].at = sync[k].at /\ (sync[k].at \in Holding => sync'[k].mtime = sync[k].mtime /\ sync'[k].text = sync[k].text)
    BY <1>2, RunNow, DisturbedKeeps
  <2>q. QED BY <2>1 DEF Versions
<1>4. /\ CopyType' /\ VersionsAgree' /\ stamp' >= stamp /\ stamp' \in Nat
      /\ \A j \in Hosts : Of(j) \subseteq Of(j)'
      /\ \A v \in Versions' : v \in Versions \/ v[1] > stamp
  <2>1. CASE UNCHANGED <<copy, stamp>>
    <3>1. Versions' \subseteq Versions
      <4> SUFFICES ASSUME NEW v \in Versions' PROVE v \in Versions
        OBVIOUS
      <4>1. \/ \E j \in Hosts : v = Key(copy'[j].mtime, copy'[j].text)
            \/ \E j \in Hosts : sync'[j].at \in Holding /\ v = Key(sync'[j].mtime, sync'[j].text)
        BY DEF Versions, Key
      <4>2. \A j \in Hosts : Key(copy'[j].mtime, copy'[j].text) \in Versions
        BY <2>1 DEF Versions
      <4>q. QED BY <1>3, <4>1, <4>2
    <3>2. VersionsAgree'
      BY <1>1, <2>1, <3>1, VersionsKept
    <3>q. QED BY <1>1, <2>1, <3>1, <3>2 DEF CopyType, Of
  <2>2. CASE Adds(h, x)
    <3>1. /\ CopyType' /\ stamp' = stamp + 1 /\ copy'[h].mtime = stamp + 1
          /\ \A j \in Hosts : j # h => copy'[j] = copy[j]
          /\ \A j \in Hosts : Of(j) \subseteq Of(j)'
      BY <1>1, <2>2, AddsGrows
    <3> DEFINE n == Len(copy'[h].text)  L == Has(copy'[h].text)
    <3>2. ASSUME NEW v \in Versions' PROVE v \in Versions \/ v = <<stamp + 1, n, L>>
      <4>1. \/ \E j \in Hosts : v = Key(copy'[j].mtime, copy'[j].text)
            \/ \E j \in Hosts : sync'[j].at \in Holding /\ v = Key(sync'[j].mtime, sync'[j].text)
        BY DEF Versions, Key
      <4>2. ASSUME NEW j \in Hosts, v = Key(copy'[j].mtime, copy'[j].text) PROVE v \in Versions \/ v = <<stamp + 1, n, L>>
        <5>1. CASE j = h
          BY <3>1, <4>2, <5>1 DEF Key
        <5>2. CASE j # h
          BY <3>1, <4>2, <5>2 DEF Versions
        <5>q. QED BY <5>1, <5>2
      <4>q. QED BY <1>3, <4>1, <4>2
    <3> HIDE DEF n, L
    <3>3. Versions' \subseteq Versions \cup {<<stamp + 1, n, L>>}
      BY <3>2
    <3>4. VersionsAgree'
      BY <1>1, <3>1, <3>3, VersionsGrow
    <3>q. QED BY <1>1, <3>1, <3>2, <3>4
  <2>q. QED BY <2>1, <2>2
<1>5. ASSUME NEW k \in Hosts
      PROVE  (RunShape(sync[k]) /\ RunHas(sync[k], k) /\ RunLocks(sync[k], k) /\ RunSeen(sync[k], k) /\ RunQuiet(sync[k], k))'
  <2>1. PICK s : s = sync[k]
    OBVIOUS
  <2>2. PICK e : e = Disturbed(s)
    OBVIOUS
  <2>3. sync'[k] = e
    BY <1>2, <2>1, <2>2
  <2>4. RunShape(s) /\ RunHas(s, k) /\ RunLocks(s, k) /\ RunSeen(s, k)
    BY <2>1, RunNow
  <2>5. /\ RunShape(e) /\ e.at = s.at /\ (s.at # "idle" => ~e.quiet /\ e.pull = s.pull)
        /\ s.at \in Holding => e.text = s.text
        /\ s.at = "plan" => e.seen = s.seen
    BY <2>2, <2>4, DisturbedKeeps
  <2> DEFINE t == To(s, k)  f == From(s, k)
  <2>6. t \in Hosts /\ f \in Hosts /\ (s.at # "idle" => To(e, k)' = t /\ From(e, k)' = f)
    BY <2>5, ToAndFrom DEF To, From, Peer
  <2>7. s.at \in Holding \/ s.at \in Locked \/ s.at = "plan" \/ s.at = "align" => s.at # "idle"
    BY DEF Holding, Locked
  <2>8. RunHas(e, k)'
    <3>1. s.at \in Holding => Has(e.text) \subseteq Of(f)'
      BY <1>4, <2>4, <2>5, <2>6 DEF RunHas
    <3>2. s.at = "align" => Has(e.text) \subseteq Of(t)'
      <4>1. s.at = "align" => s.at \in Holding
        BY DEF Holding
      <4>q. QED BY <1>4, <2>4, <2>5, <2>6, <4>1 DEF RunHas
    <3>q. QED BY <2>5, <2>6, <2>7, <3>1, <3>2 DEF RunHas
  <2>9. RunLocks(e, k)'
    BY <2>4, <2>5, <2>6, <2>7 DEF RunLocks
  <2>10. RunSeen(e, k)'
    <3> SUFFICES ASSUME s.at = "plan"
                 PROVE  /\ s.seen.mtime <= stamp'
                        /\ \A v \in Versions' : v[1] = s.seen.mtime /\ v[2] = s.seen.size => v[3] \subseteq Of(t)'
      BY <2>5, <2>6, <2>7 DEF RunSeen
    <3>1. /\ s.seen.mtime \in Nat /\ s.seen.mtime <= stamp
          /\ \A v \in Versions : v[1] = s.seen.mtime /\ v[2] = s.seen.size => v[3] \subseteq Of(t)
      BY <2>4 DEF RunSeen, RunShape
    <3>2. s.seen.mtime <= stamp'
      BY <1>1, <1>4, <3>1
    <3>3. ASSUME NEW v \in Versions', v[1] = s.seen.mtime, v[2] = s.seen.size PROVE v[3] \subseteq Of(t)'
      <4>1. v \in Versions
        BY <1>1, <1>4, <3>1, <3>3
      <4>2. v[3] \subseteq Of(t)
        BY <3>1, <3>3, <4>1
      <4>q. QED BY <1>4, <2>6, <4>2
    <3>q. QED BY <3>2, <3>3
  <2>11. RunQuiet(e, k)'
    BY <2>5 DEF RunQuiet
  <2>q. QED BY <2>3, <2>5, <2>8, <2>9, <2>10, <2>11 DEF RunShape, RunHas, RunLocks, RunSeen, RunQuiet
<1>q. QED BY <1>1, <1>4, <1>5 DEF SyncInv

LEMMA SyncStarts == HistoryInit => SyncInv
<1> SUFFICES ASSUME HistoryInit PROVE SyncInv
  OBVIOUS
<1>1. PICK first \in Hosts : copy = [h \in Hosts |-> [there |-> large \/ h = first, text |-> << >>, mtime |-> 0]]
  BY DEF HistoryInit
<1>2. /\ large \in BOOLEAN /\ stamp = 0 /\ DOMAIN merging = Hosts
      /\ sync = [h \in Hosts |-> [at |-> "idle"]]
  BY DEF HistoryInit
<1>3. \A h \in Hosts : /\ "at" \in DOMAIN sync[h] /\ sync[h].at = "idle"
                       /\ copy[h].text = << >> /\ copy[h].mtime = 0
  BY <1>1, <1>2
<1>4. CopyType
  <2>1. \A h \in Hosts : [there |-> large \/ h = first, text |-> << >>, mtime |-> 0] \in [there : BOOLEAN, text : Seq(Tokens), mtime : Nat]
    BY <1>2
  <2>q. QED BY <1>1, <1>3, <2>1 DEF CopyType
<1>5. \A v \in Versions : v = Key(0, << >>)
  BY <1>3 DEF Versions, Holding
<1>6. VersionsAgree
  BY <1>2, <1>5 DEF VersionsAgree, Key
<1>7. ASSUME NEW h \in Hosts
      PROVE  RunShape(sync[h]) /\ RunHas(sync[h], h) /\ RunLocks(sync[h], h) /\ RunSeen(sync[h], h) /\ RunQuiet(sync[h], h)
  BY <1>3 DEF RunShape, RunHas, RunLocks, RunSeen, RunQuiet, Holding, Locked
<1>q. QED BY <1>2, <1>4, <1>6, <1>7 DEF SyncInv

LEMMA SyncStep == ASSUME TokensDiffer, HistoryInv, SyncInv, [HistoryNext]_historyVars PROVE SyncInv'
<1>0. DOMAIN sync = Hosts
  BY DEF HistoryInv, HistoryType
<1>1. CASE UNCHANGED historyVars
  <2>1. UNCHANGED <<copy, writer, sync, merging, stamp>>
    BY <1>1 DEF historyVars
  <2>2. CopyType' /\ DOMAIN merging' = Hosts
    BY <2>1 DEF SyncInv, CopyType
  <2>3. \A h \in Hosts : Of(h)' = Of(h)
    BY <2>1 DEF Of
  <2>4. Versions' = Versions /\ Still' = Still
    BY <2>1 DEF Versions, Still
  <2>5. VersionsAgree'
    BY <2>1, <2>4 DEF SyncInv, VersionsAgree
  <2>6. ASSUME NEW h \in Hosts
        PROVE  (RunShape(sync[h]) /\ RunHas(sync[h], h) /\ RunLocks(sync[h], h) /\ RunSeen(sync[h], h) /\ RunQuiet(sync[h], h))'
    <3>1. PICK s : s = sync[h]
      OBVIOUS
    <3>2. RunShape(s) /\ RunHas(s, h) /\ RunLocks(s, h) /\ RunSeen(s, h) /\ RunQuiet(s, h) /\ sync'[h] = s
      BY <2>1, <3>1, RunNow
    <3>3. /\ To(s, h)' = To(s, h) /\ From(s, h)' = From(s, h) /\ Peer(h)' = Peer(h)
          /\ To(s, h) \in Hosts /\ From(s, h) \in Hosts /\ Peer(h) \in Hosts
      BY ToAndFrom, PeerIsHost DEF To, From, Peer
    <3>4. RunHas(s, h)' /\ RunLocks(s, h)' /\ RunSeen(s, h)'
      BY <2>1, <2>3, <2>4, <3>2, <3>3 DEF RunHas, RunLocks, RunSeen
    <3>5. RunQuiet(s, h)'
      BY <2>1, <2>3, <2>4, <3>2, <3>3 DEF RunQuiet
    <3>q. QED BY <3>2, <3>4, <3>5 DEF RunShape, RunHas, RunLocks, RunSeen, RunQuiet
  <2>q. QED BY <2>2, <2>5, <2>6 DEF SyncInv
<1>2. CASE HistoryNext
  <2>1. PICK h \in Hosts :
          \/ Opens(h) \/ EndsLine(h) \/ Closes(h) \/ \E l \in Lines : BeginsLine(h, l)
          \/ RunStarts(h) \/ RunEnds(h) \/ Manifest(h) \/ Plan(h) \/ Bulk(h) \/ Fails(h)
          \/ Locks(h) \/ MergeTail(h) \/ MergeWhole(h) \/ AppendsTo(h) \/ Align(h)
    BY <1>2 DEF HistoryNext
  <2>2. << >> \in Seq(Tokens)
    OBVIOUS
  <2>3. CASE Opens(h)
    <3>1. Disturbs /\ merging' = merging /\ (UNCHANGED <<copy, stamp>> \/ Adds(h, << >>))
      BY <2>3 DEF Opens
    <3>q. QED BY <2>2, <3>1, ToolSync
  <2>4. CASE EndsLine(h)
    <3>1. PICK l \in writer[h].in : Adds(h, <<End(l)>>)
      BY <2>4 DEF EndsLine
    <3>2. l \in Lines
      BY DEF HistoryInv, HistoryType
    <3>3. <<End(l)>> \in Seq(Tokens)
      BY <3>2, TokensIn
    <3>4. Disturbs /\ merging' = merging
      BY <2>4 DEF EndsLine
    <3>q. QED BY <3>1, <3>3, <3>4, ToolSync
  <2>5. CASE Closes(h)
    <3>1. Disturbs /\ merging' = merging /\ UNCHANGED <<copy, stamp>>
      BY <2>5 DEF Closes
    <3>q. QED BY <2>2, <3>1, ToolSync
  <2>6. ASSUME NEW l \in Lines, BeginsLine(h, l) PROVE SyncInv'
    <3>1. <<Half(l)>> \in Seq(Tokens)
      BY TokensIn
    <3>2. Disturbs /\ merging' = merging /\ Adds(h, <<Half(l)>>)
      BY <2>6 DEF BeginsLine
    <3>q. QED BY <3>1, <3>2, ToolSync
  <2>7. (RunStarts(h) \/ RunEnds(h) \/ Manifest(h) \/ Plan(h) \/ Bulk(h) \/ Fails(h)) => SyncInv'
    BY <1>0, RunStartsSync, RunEndsSync, ManifestSync, PlanSync, BulkSync, FailsSync
  <2>8. (Locks(h) \/ MergeTail(h) \/ MergeWhole(h) \/ AppendsTo(h) \/ Align(h)) => SyncInv'
    BY <1>0, LocksSync, MergeTailSync, MergeWholeSync, AppendsToSync, AlignSync
  <2>q. QED BY <2>1, <2>3, <2>4, <2>5, <2>6, <2>7, <2>8
<1>q. QED BY <1>1, <1>2

LEMMA QuietIsInSync == ASSUME TokensDiffer, HistoryInv, SyncInv PROVE InSync
<1> SUFFICES ASSUME NEW h \in Hosts, sync[h].at = "done", sync[h].quiet, NEW k \in Hosts
             PROVE  Range(Records(copy[k].text)) = Range(Records(copy[h].text))
  BY DEF InSync
<1>1. Of(Peer(h)) \subseteq Of(h) /\ Of(h) \subseteq Of(Peer(h))
  BY RunNow DEF RunQuiet, RunShape
<1>2. k = h \/ k = Peer(h)
  BY TwoHosts
<1>3. Has(copy[k].text) = Has(copy[h].text)
  BY <1>1, <1>2 DEF Of
<1>4. Good(copy[k].text, written) /\ Good(copy[h].text, written)
  BY DEF HistoryInv, CopiesAreGood
<1>5. Range(Records(copy[k].text)) = {<<Half(l), End(l)>> : l \in Has(copy[k].text)}
  BY <1>4, RecordsOfGood
<1>6. Range(Records(copy[h].text)) = {<<Half(l), End(l)>> : l \in Has(copy[h].text)}
  BY <1>4, RecordsOfGood
<1>q. QED BY <1>3, <1>5, <1>6

\* After a run that no tool disturbed and that did not fail both hosts have the
\* same lines, for every set of lines and every number of runs: a history that the
\* plan or rsync leaves out as equal (same size and mtime, tail-sync.ts) has the
\* same lines, because an mtime is taken over only between texts of one size when
\* the receiver has all the sender's lines, and every other mtime is new.
THEOREM HostsAreInSync == SharedStarts = FALSE => (HistorySpec => []InSync)
<1> SUFFICES ASSUME SharedStarts = FALSE PROVE HistorySpec => []InSync
  OBVIOUS
<1>1. TokensDiffer
  BY TokensDo
<1>2. HistoryInv /\ SyncInv => InSync
  BY <1>1, QuietIsInSync
<1>3. HistoryInv /\ SyncInv /\ [HistoryNext]_historyVars => SyncInv'
  BY <1>1, SyncStep
<1>q. QED BY <1>2, <1>3, SyncStarts, HistoryHolds, PTL DEF HistorySpec

=============================================================================

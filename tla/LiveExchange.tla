----------------------------- MODULE LiveExchange -----------------------------
(***************************************************************************)
(* A live drive and the computers it is plugged into exchange bundles over *)
(* one partition: an inbox of configuration that a computer publishes, and *)
(* an outbox that says what the drive has and which inbox it applied.  The *)
(* drive runs or is plugged into a computer, and either can die at any     *)
(* step.  Contents are numbers in the order they are made; 0 is no file.   *)
(* Credentials, logs and keys are left out, and so is an edit between the  *)
(* drive's look at its configuration and the write after it.               *)
(***************************************************************************)
EXTENDS Naturals, Functions

CONSTANTS
    Paths,        \* configuration files
    Computers,
    Creator,      \* made the drive and its first inbox
    MaxContents,  \* bound: contents
    MaxInboxes,   \* bound: inbox numbers
    MaxOutboxes,  \* bound: outbox numbers
    MaxLosses     \* bound: power cuts, failed publications and lost flow states

ASSUME ExchangeAssumption == Creator \in Computers

VARIABLES
    source,    \* per computer: its configuration
    flow,      \* per computer: its flow state for the drive, {} before it has one
    reserved,  \* the inbox a computer has a number for and is publishing
    inbox,     \* the newest bundle in the inbox
    outbox,    \* the newest bundle in the outbox, {} before there is one
    drive,     \* the drive's configuration
    exchange,  \* the drive's state: hashes and last inbox, and the service's counters
    booted, apply, collected,
    had,       \* history: contents the drive had, per path
    typed,     \* history: contents made on the drive
    contents, losses

exchangeVars == <<source, flow, reserved, inbox, outbox, drive, exchange, booted, apply, collected, had, typed, contents, losses>>
ofDrive == <<drive, exchange, apply, collected, had, typed>>
ofComputers == <<source, flow, reserved>>

Nothing == [p \in Paths |-> 0]
NewFlow == [issued |-> 0, acked |-> 0, outboxes |-> 0, pending |-> {}, common |-> Nothing]

\* The first inbox has everything; the drive is new.
ExchangeInit ==
    /\ source = [c \in Computers |-> [p \in Paths |-> 1]]
    /\ flow = [c \in Computers |-> IF c = Creator THEN {[NewFlow EXCEPT !.issued = 1]} ELSE {}]
    /\ reserved = {} /\ inbox = [seq |-> 1, cfg |-> [p \in Paths |-> 1]] /\ outbox = {}
    /\ drive = Nothing
    /\ exchange = [hashes |-> Nothing, last |-> 0, applied |-> 0, outboxes |-> 0]
    /\ booted = FALSE /\ apply = [at |-> "idle"] /\ collected = {}
    /\ had = [p \in Paths |-> {}] /\ typed = {}
    /\ contents = 1 /\ losses = 0

Larger(a, b) == IF a >= b THEN a ELSE b

-----------------------------------------------------------------------------
(* What people do, and what goes wrong.                                    *)

Edit(c, p) ==
    /\ contents < MaxContents /\ contents' = contents + 1
    /\ source' = [source EXCEPT ![c][p] = contents']
    /\ UNCHANGED <<flow, reserved, inbox, outbox, ofDrive, booted, losses>>

EditOnDrive(p) ==
    /\ booted /\ apply.at = "idle" /\ contents < MaxContents /\ contents' = contents + 1
    /\ drive' = [drive EXCEPT ![p] = contents'] /\ had' = [had EXCEPT ![p] = @ \cup {contents'}]
    /\ typed' = typed \cup {contents'}
    /\ UNCHANGED <<ofComputers, inbox, outbox, exchange, booted, apply, collected, losses>>

Boot ==
    /\ ~booted /\ reserved = {} /\ booted' = TRUE
    /\ UNCHANGED <<ofComputers, inbox, outbox, ofDrive, contents, losses>>

Shutdown ==
    /\ booted /\ apply.at = "idle" /\ collected = {} /\ booted' = FALSE
    /\ UNCHANGED <<ofComputers, inbox, outbox, ofDrive, contents, losses>>

Lose == losses < MaxLosses /\ losses' = losses + 1

PowerCut ==
    /\ booted /\ (apply.at # "idle" \/ collected # {}) /\ booted' = FALSE /\ Lose
    /\ apply' = [at |-> "idle"] /\ collected' = {}
    /\ UNCHANGED <<ofComputers, inbox, outbox, drive, exchange, had, typed, contents>>

\* The application dies, the drive is pulled, or the write or its readback fails.
PublicationFails ==
    /\ reserved # {} /\ reserved' = {} /\ Lose
    /\ UNCHANGED <<source, flow, inbox, outbox, ofDrive, booted, contents>>

FlowIsLost(c) ==
    /\ flow[c] # {} /\ flow' = [flow EXCEPT ![c] = {}] /\ Lose
    /\ UNCHANGED <<source, reserved, inbox, outbox, ofDrive, booted, contents>>

-----------------------------------------------------------------------------
(* The drive applies its inbox.                                            *)

Diverged(p) ==
    /\ drive[p] # 0 /\ exchange.hashes[p] # 0
    /\ drive[p] # exchange.hashes[p] /\ inbox.cfg[p] # exchange.hashes[p] /\ drive[p] # inbox.cfg[p]

\* What needs no write: what the person keeps, what is there, and what only the
\* drive changed.  A file that was removed from the drive comes back.
Settled(kept) ==
    {p \in DOMAIN inbox.cfg : \/ p \in kept \/ drive[p] = inbox.cfg[p]
                              \/ /\ drive[p] # 0 /\ exchange.hashes[p] # 0
                                 /\ drive[p] # exchange.hashes[p] /\ inbox.cfg[p] = exchange.hashes[p]}

\* Mutant: without a terminal the inbox wins.
AppliesUnasked ==
    /\ booted /\ apply.at = "idle" /\ collected = {} /\ inbox.seq > exchange.applied
    /\ IF inbox.seq <= exchange.last THEN apply' = [at |-> "count"]
       ELSE apply' = [at |-> "write", asked |-> {}, left |-> DOMAIN inbox.cfg \ Settled({}),
                      next |-> [p \in Paths |-> IF p \in Settled({}) THEN inbox.cfg[p] ELSE exchange.hashes[p]]]
    /\ UNCHANGED <<ofComputers, inbox, outbox, drive, exchange, booted, collected, had, typed, contents, losses>>

\* The service skips what it counted, the command what it recorded.  Conflicts
\* wait for a terminal, where a person chooses for each.
ApplyInbox ==
    /\ booted /\ apply.at = "idle" /\ collected = {} /\ inbox.seq > exchange.applied
    /\ IF inbox.seq <= exchange.last THEN apply' = [at |-> "count"]
       ELSE \E kept \in SUBSET {p \in DOMAIN inbox.cfg : Diverged(p)} :
              apply' = [at |-> "write", asked |-> {p \in DOMAIN inbox.cfg : Diverged(p)}, left |-> DOMAIN inbox.cfg \ Settled(kept),
                        next |-> [p \in Paths |-> IF p \in Settled(kept) THEN inbox.cfg[p] ELSE exchange.hashes[p]]]
    /\ UNCHANGED <<ofComputers, inbox, outbox, drive, exchange, booted, collected, had, typed, contents, losses>>

WritesFile ==
    /\ apply.at = "write"
    /\ \E p \in apply.left :
         /\ drive' = [drive EXCEPT ![p] = inbox.cfg[p]] /\ had' = [had EXCEPT ![p] = @ \cup {inbox.cfg[p]}]
         /\ apply' = [apply EXCEPT !.left = @ \ {p}, !.next[p] = inbox.cfg[p]]
    /\ UNCHANGED <<ofComputers, inbox, outbox, exchange, booted, collected, typed, contents, losses>>

SavesState ==
    /\ apply.at = "write" /\ apply.left = {}
    /\ exchange' = [exchange EXCEPT !.hashes = apply.next, !.last = Larger(@, inbox.seq)]
    /\ apply' = [at |-> "count"]
    /\ UNCHANGED <<ofComputers, inbox, outbox, drive, booted, collected, had, typed, contents, losses>>

CountsInbox ==
    /\ apply.at = "count"
    /\ exchange' = [exchange EXCEPT !.applied = inbox.seq] /\ apply' = [at |-> "idle"]
    /\ UNCHANGED <<ofComputers, inbox, outbox, drive, booted, collected, had, typed, contents, losses>>

-----------------------------------------------------------------------------
(* The drive writes its outbox, at intervals and as it shuts down.         *)

\* The number is spent before anything is collected.
CollectsOutbox ==
    /\ booted /\ apply.at = "idle" /\ collected = {} /\ exchange.outboxes < MaxOutboxes
    /\ exchange' = [exchange EXCEPT !.outboxes = @ + 1]
    /\ collected' = {[seq |-> exchange.outboxes + 1, cfg |-> drive, last |-> exchange.applied]}
    /\ UNCHANGED <<ofComputers, inbox, outbox, drive, booted, apply, had, typed, contents, losses>>

PublishesOutbox ==
    /\ collected # {} /\ outbox' = collected /\ collected' = {}
    /\ UNCHANGED <<ofComputers, inbox, drive, exchange, booted, apply, had, typed, contents, losses>>

-----------------------------------------------------------------------------
(* A computer refreshes the drive.                                         *)

\* Mutant: an acknowledged proposal is what both have.
CommonByAcknowledgement(f, b) ==
    [p \in Paths |->
        IF inbox.seq = b.last /\ p \in DOMAIN inbox.cfg THEN inbox.cfg[p] ELSE f.common[p]]

\* Common is what an acknowledged inbox proposed and the drive has: this
\* computer's own proposal, or whatever inbox has the acknowledged number.
Common(f, b) ==
    [p \in Paths |->
        IF \/ inbox.seq = b.last /\ p \in DOMAIN inbox.cfg /\ inbox.cfg[p] = b.cfg[p]
           \/ \E pr \in f.pending : b.last >= pr.seq /\ p \in DOMAIN pr.cfg /\ pr.cfg[p] = b.cfg[p]
        THEN b.cfg[p] ELSE f.common[p]]

\* An outbox is taken in once, and never one that goes back.
News(f) == {b \in outbox : b.seq > f.outboxes /\ b.last >= f.acked}

\* The flow state takes in what the partition says.
Reconciled(f) ==
    LET issued == Larger(f.issued, inbox.seq) IN
    IF News(f) = {} THEN [f EXCEPT !.issued = issued]
    ELSE LET b == CHOOSE b \in News(f) : TRUE IN
         [issued |-> Larger(issued, b.last), acked |-> b.last, outboxes |-> b.seq,
          pending |-> {pr \in f.pending : b.last < pr.seq}, common |-> Common(f, b)]

\* A computer that does not know the drive starts from its bundles, a preview
\* from what its own state makes of them.
Reconciles(c) ==
    /\ ~booted /\ reserved = {}
    /\ flow' = [flow EXCEPT ![c] = IF @ = {} THEN {Reconciled(NewFlow)} ELSE {Reconciled(f) : f \in @}]
    /\ UNCHANGED <<source, reserved, inbox, outbox, ofDrive, booted, contents, losses>>

\* Included is what only the source changed, as far as a current outbox tells.
Included(f, c) ==
    {p \in Paths : \E b \in outbox :
        /\ b.seq >= f.outboxes /\ b.last >= f.acked
        /\ b.cfg[p] # 0 /\ f.common[p] # 0 /\ source[c][p] # b.cfg[p] /\ b.cfg[p] = f.common[p]}

\* Mutant: a number that the drive has not acknowledged is used again.
NextAfterAcknowledged(f) == f.acked + 1

NextSequence(f) == Larger(Larger(f.issued, f.acked), inbox.seq) + 1

\* It publishes what its preview showed, and anything that changed since makes
\* it start over: the preview is what it would be now.  Whether the outbox is
\* recent is the clocks' matter, and credentials always make it worth sending.  A
\* refresh that waits for the drive is replaced only when a person asks for that.
\* The number is spent first.
PublishRefresh(c) ==
    /\ ~booted /\ reserved = {}
    /\ \E f \in flow[c], recent, replace \in BOOLEAN :
         LET mine == Restrict(source[c], IF recent THEN Included(f, c) ELSE {})
             seq == NextSequence(f)
         IN  /\ f = Reconciled(f) /\ seq <= MaxInboxes
             /\ inbox.seq > f.acked => replace
             /\ reserved' = {[seq |-> seq, cfg |-> mine]}
             /\ flow' = [flow EXCEPT ![c] = {[f EXCEPT !.issued = seq, !.pending = reserved']}]
    /\ UNCHANGED <<source, inbox, outbox, ofDrive, booted, contents, losses>>

\* The bundle appears by a rename.
PublishesInbox ==
    /\ \E b \in reserved : inbox' = b
    /\ reserved' = {}
    /\ UNCHANGED <<source, flow, outbox, ofDrive, booted, contents, losses>>

ExchangeNext ==
    \/ Boot \/ Shutdown \/ PowerCut \/ \E p \in Paths : EditOnDrive(p)
    \/ ApplyInbox \/ WritesFile \/ SavesState \/ CountsInbox
    \/ CollectsOutbox \/ PublishesOutbox \/ PublishesInbox \/ PublicationFails
    \/ \E c \in Computers : Reconciles(c) \/ PublishRefresh(c) \/ FlowIsLost(c) \/ \E p \in Paths : Edit(c, p)

ExchangeSpec == ExchangeInit /\ [][ExchangeNext]_exchangeVars

-----------------------------------------------------------------------------
\* What was made on the drive since it first applied an inbox is overwritten only
\* by a person's choice, through crashes, replaced refreshes and other computers.
EditsAreAskedFor ==
    [][\A p \in Paths :
         apply.at = "write" /\ drive'[p] # drive[p] /\ drive[p] \in typed =>
             exchange.hashes[p] = 0 \/ p \in apply.asked]_exchangeVars

\* A computer takes for common only what the drive had.
CommonWasThere == \A c \in Computers : \A f \in flow[c], p \in Paths : f.common[p] # 0 => f.common[p] \in had[p]

\* A new inbox has a number the drive has not applied: none is passed over.
NewToTheDrive == [][inbox' # inbox => inbox'.seq > exchange.last /\ inbox'.seq > inbox.seq]_exchangeVars

=============================================================================

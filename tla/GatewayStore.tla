---------------------------- MODULE GatewayStore ----------------------------
(***************************************************************************)
(* The gateway's copy of its apps and tokens.  A write goes to the store   *)
(* and then into the copy; a timer reads the store again, also for what    *)
(* other instances wrote, and reads may overlap with writes and with each  *)
(* other.  The record of an app is the number of its last write.  The      *)
(* instance's admin routes write one at a time.                            *)
(***************************************************************************)
EXTENDS Naturals

CONSTANTS
    Apps,
    Warmers,    \* bound: re-reads under way at once
    MaxWrites   \* bound: writes to the store

ASSUME StoreAssumption == MaxWrites \in Nat

VARIABLES
    record,   \* per app: the store's record
    copy,     \* per app: the instance's copy
    version,  \* own writes so far
    writing,  \* the own write that is in the store and not in the copy
    warm,     \* per re-read: whether it runs, the version it saw, what it read
    own       \* history, per app: the last own write that was answered

storeVars == <<record, copy, version, writing, warm, own>>

Nothing == {}

StoreInit ==
    /\ record = [a \in Apps |-> 0] /\ copy = [a \in Apps |-> 0] /\ version = 0 /\ writing = Nothing
    /\ warm = [w \in Warmers |-> [on |-> FALSE, seen |-> 0, read |-> [a \in {} |-> 0]]]
    /\ own = [a \in Apps |-> 0]

Last == CHOOSE n \in 0..MaxWrites : (\A a \in Apps : record[a] <= n) /\ (n = 0 \/ \E a \in Apps : record[a] = n)

\* A write of this instance reaches the store.
OwnWrite(a) ==
    /\ writing = Nothing /\ Last < MaxWrites
    /\ record' = [record EXCEPT ![a] = Last + 1]
    /\ writing' = {<<a, Last + 1>>}
    /\ UNCHANGED <<copy, version, warm, own>>

\* Then it counts as one, and goes into the copy.
OwnWriteDone(a) ==
    /\ version' = version + 1
    /\ \E n \in 1..MaxWrites :
         /\ writing = {<<a, n>>} /\ writing' = Nothing
         /\ copy' = [copy EXCEPT ![a] = n]
         /\ own' = [own EXCEPT ![a] = n]
    /\ UNCHANGED <<record, warm>>

\* Another instance writes.
OtherWrite(a) ==
    /\ Last < MaxWrites
    /\ record' = [record EXCEPT ![a] = Last + 1]
    /\ UNCHANGED <<copy, version, writing, warm, own>>

\* The timer's re-read: app after app.
WarmStarts(w) ==
    /\ ~warm[w].on
    /\ warm' = [warm EXCEPT ![w] = [on |-> TRUE, seen |-> version, read |-> [a \in {} |-> 0]]]
    /\ UNCHANGED <<record, copy, version, writing, own>>

WarmReads(w, a) ==
    /\ warm[w].on /\ a \notin DOMAIN warm[w].read
    /\ warm' = [warm EXCEPT ![w].read = [b \in DOMAIN @ \cup {a} |-> IF b = a THEN record[a] ELSE @[b]]]
    /\ UNCHANGED <<record, copy, version, writing, own>>

\* Mutant: the copy is replaced whatever was written meanwhile.
InstallsAlways(k) == TRUE

\* A write made while it was reading is newer than what it read.
Installs(k) == k.seen = version

WarmEnds(w) ==
    /\ warm[w].on /\ DOMAIN warm[w].read = Apps
    /\ copy' = IF Installs(warm[w]) THEN warm[w].read ELSE copy
    /\ warm' = [warm EXCEPT ![w] = [on |-> FALSE, seen |-> 0, read |-> [a \in {} |-> 0]]]
    /\ UNCHANGED <<record, version, writing, own>>

\* A failed re-read keeps the copy.
WarmFails(w) ==
    /\ warm[w].on
    /\ warm' = [warm EXCEPT ![w] = [on |-> FALSE, seen |-> 0, read |-> [a \in {} |-> 0]]]
    /\ UNCHANGED <<record, copy, version, writing, own>>

StoreNext ==
    \/ \E a \in Apps : OwnWrite(a) \/ OwnWriteDone(a) \/ OtherWrite(a)
    \/ \E w \in Warmers : WarmStarts(w) \/ WarmEnds(w) \/ WarmFails(w) \/ \E a \in Apps : WarmReads(w, a)

StoreSpec == StoreInit /\ [][StoreNext]_storeVars

-----------------------------------------------------------------------------
\* A revoke or a rotation made through this instance is seen by every request
\* after it: no re-read that began before puts the old record back.
OwnWritesStay == \A a \in Apps : copy[a] >= own[a]

=============================================================================

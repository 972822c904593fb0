---------------------------- MODULE UsageSnapshot ----------------------------
(***************************************************************************)
(* The usage snapshot: collectors, one at a time under a flock, scan the   *)
(* sources whose partitions are old or marked dirty and commit each        *)
(* partition together with the batch file it points to.  What changes a    *)
(* source marks it afterwards; a cycle acknowledges the marks it read      *)
(* before its scans.  A collector can die anywhere, and the daemon records *)
(* the cycle of its own that did.  Discovery finds all sources or fails:   *)
(* their removal is left out, and so is the split of a pool by member.     *)
(***************************************************************************)
EXTENDS Naturals, FiniteSets, TLC

CONSTANTS
    Sources,
    All,          \* the mark that asks for every source
    Collectors,   \* the daemon's worker and those that commands start
    Worker,       \* the daemon's
    Ttl,          \* USAGE_SNAPSHOT_PARTITION_TTL_MS
    MinInterval,  \* USAGE_SNAPSHOT_DIRTY_MIN_INTERVAL_MS
    Generations,  \* the newest batches of a source that are kept: 2
    ReaderAge,    \* NATIVE_BATCH_READER_AGE_FLOOR_MS
    EndOfTime,    \* bound: the clock
    MaxCycles,    \* bound: cycles
    MaxUpdates,   \* bound: changes of the sources, and marks that ask for all
    MaxDeaths     \* bound: collectors that die

ASSUME SnapshotAssumption == All \notin Sources /\ Worker \in Collectors

VARIABLES
    data,      \* per source: how often it changed
    unmarked,  \* sources that changed, whose mark is still to be written
    marks,     \* per key: the token in its mark, or 0
    tokens,    \* tokens so far
    claims,    \* marks that were renamed to acknowledge them
    snapshot,  \* the file: producer and partitions
    batches,   \* batch files: their source, number and time
    promoted,  \* batches so far
    flock,     \* who holds the lock
    cycle,     \* per collector: the cycle it is in
    report,    \* the daemon saw its worker fail
    time, cycles, updates, deaths

snapshotVars == <<data, unmarked, marks, tokens, claims, snapshot, batches, promoted, flock, cycle,
                  report, time, cycles, updates, deaths>>

Keys == Sources \cup {All}

Pending == [seen |-> 0, success |-> {}, attempt |-> 0, failed |-> FALSE, batch |-> 0]

SnapshotInit ==
    /\ data = [s \in Sources |-> 1] /\ unmarked = {}
    /\ \E marked \in SUBSET Sources : marks = [k \in Keys |-> IF k \in marked THEN 1 ELSE 0]
    /\ tokens = 1 /\ claims = {}
    /\ snapshot = [started |-> 0, completed |-> 0, error |-> "none", parts |-> [s \in Sources |-> Pending]]
    /\ batches = {} /\ promoted = 0
    /\ flock = {} /\ cycle = [c \in Collectors |-> [at |-> "off"]]
    /\ report = FALSE
    /\ time = 1 /\ cycles = 0 /\ updates = 0 /\ deaths = 0

-----------------------------------------------------------------------------
(* The sources and the marks.                                              *)

Updates(s) ==
    /\ updates < MaxUpdates /\ updates' = updates + 1
    /\ data' = [data EXCEPT ![s] = @ + 1] /\ unmarked' = unmarked \cup {s}
    /\ UNCHANGED <<marks, tokens, claims, snapshot, batches, promoted, flock, cycle, report, time, cycles, deaths>>

MarkDirty(s) ==
    /\ s \in unmarked /\ unmarked' = unmarked \ {s}
    /\ tokens' = tokens + 1 /\ marks' = [marks EXCEPT ![s] = tokens']
    /\ UNCHANGED <<data, claims, snapshot, batches, promoted, flock, cycle, report, time, cycles, updates, deaths>>

\* A reader found the snapshot stale.
EnsureDirty ==
    /\ updates < MaxUpdates /\ updates' = updates + 1
    /\ marks[All] = 0 /\ tokens' = tokens + 1 /\ marks' = [marks EXCEPT ![All] = tokens']
    /\ UNCHANGED <<data, unmarked, claims, snapshot, batches, promoted, flock, cycle, report, time, cycles, deaths>>

TimePasses ==
    /\ time < EndOfTime /\ time' = time + 1
    /\ UNCHANGED <<data, unmarked, marks, tokens, claims, snapshot, batches, promoted, flock, cycle, report, cycles, updates, deaths>>

-----------------------------------------------------------------------------
(* A cycle.                                                                *)

\* Kept are the batches a snapshot lists, the newest of each source and
\* those some reader may still be at.
Listed(shot) == {shot.parts[s].batch : s \in Sources}

\* Mutant: only age and rank keep a batch.
KeptByAge(shot, files) ==
    {b \in files : \/ Cardinality({o \in files : o.of = b.of /\ o.nr > b.nr}) < Generations
                   \/ time - b.at < ReaderAge}

Kept(shot, files) ==
    {b \in files : \/ b.nr \in Listed(shot)
                   \/ Cardinality({o \in files : o.of = b.of /\ o.nr > b.nr}) < Generations
                   \/ time - b.at < ReaderAge}

\* Every write of the snapshot sweeps the batches.
Writes(shot) == snapshot' = shot /\ batches' = Kept(shot, batches)

\* Who does not get the lock goes away with what the snapshot says.
Starts(c) ==
    /\ cycle[c].at = "off" /\ (c = Worker => ~report) /\ cycles < MaxCycles /\ cycles' = cycles + 1
    /\ flock = {} /\ flock' = {c}
    /\ cycle' = [cycle EXCEPT ![c] = [at |-> "begin"]]
    /\ UNCHANGED <<data, unmarked, marks, tokens, claims, snapshot, batches, promoted, report, time, updates, deaths>>

\* No two cycles start in the same millisecond.
BeginsCycle(c) ==
    /\ cycle[c].at = "begin" /\ time > snapshot.started
    /\ LET shot == [snapshot EXCEPT !.started = time, !.error = "none"] IN
         /\ Writes(shot)
         /\ cycle' = [cycle EXCEPT ![c] = [at |-> "discover", started |-> time, shot |-> shot]]
    /\ UNCHANGED <<data, unmarked, marks, tokens, claims, promoted, flock, report, time, cycles, updates, deaths>>

\* A partition is due when it is old, and when it is marked unless it was scanned
\* only just; then its mark stays.
Due(shot, read) ==
    {s \in Sources : LET last == shot.parts[s].success IN
        \/ last = {}
        \/ \E t \in last : \/ time - t >= Ttl
                           \/ {s, All} \cap DOMAIN read # {} /\ time - t >= MinInterval}

Discovers(c) ==
    /\ cycle[c].at = "discover"
    /\ \/ /\ Writes([cycle[c].shot EXCEPT !.completed = cycle[c].started, !.error = "discovery"])
          /\ cycle' = [cycle EXCEPT ![c] = [at |-> "release"]]
       \/ LET present == {k \in Keys : marks[k] # 0}
              read == [k \in present |-> marks[k]]
              shot == [cycle[c].shot EXCEPT !.parts =
                         [s \in Sources |-> IF @[s] = Pending THEN [Pending EXCEPT !.attempt = cycle[c].started] ELSE @[s]]]
          IN  /\ Writes(shot)
              /\ cycle' = [cycle EXCEPT ![c] = [at |-> "scan", started |-> @.started, shot |-> shot, read |-> read,
                                                due |-> Due(shot, read)]]
    /\ UNCHANGED <<data, unmarked, marks, tokens, claims, promoted, flock, report, time, cycles, updates, deaths>>

\* A source is scanned, and its export becomes a batch file; the scan or the
\* promotion can fail, and nothing has the batch number 0.
Scans(c) ==
    /\ cycle[c].at = "scan"
    /\ \E s \in cycle[c].due, good \in BOOLEAN :
         /\ promoted' = IF good THEN promoted + 1 ELSE promoted
         /\ batches' = IF good THEN batches \cup {[of |-> s, nr |-> promoted', at |-> time]} ELSE batches
         /\ cycle' = [cycle EXCEPT ![c] = [at |-> "commit", started |-> @.started, shot |-> @.shot, read |-> @.read, due |-> @.due,
                                           of |-> s, seen |-> IF good THEN data[s] ELSE 0, batch |-> IF good THEN promoted' ELSE 0]]
    /\ UNCHANGED <<data, unmarked, marks, tokens, claims, snapshot, flock, report, time, cycles, updates, deaths>>

\* The partition is committed with its batch; a failure keeps what it had.
SavePartition(c) ==
    /\ cycle[c].at = "commit"
    /\ LET s == cycle[c].of
           part == IF cycle[c].batch # 0
                   THEN [seen |-> cycle[c].seen, success |-> {time}, attempt |-> cycle[c].started, failed |-> FALSE,
                         batch |-> cycle[c].batch]
                   ELSE [cycle[c].shot.parts[s] EXCEPT !.attempt = cycle[c].started, !.failed = TRUE]
           shot == [cycle[c].shot EXCEPT !.parts[s] = part]
       IN  /\ Writes(shot)
           /\ cycle' = [cycle EXCEPT ![c] = [at |-> "scan", started |-> @.started, shot |-> shot, read |-> @.read,
                                             due |-> @.due \ {s}]]
    /\ UNCHANGED <<data, unmarked, marks, tokens, claims, promoted, flock, report, time, cycles, updates, deaths>>

\* A mark is acknowledged when this cycle scanned what it asks for.
Fresh(c, shot, s) == shot.parts[s].attempt = cycle[c].started /\ ~shot.parts[s].failed

Answered(c, shot) ==
    {k \in DOMAIN cycle[c].read : IF k = All THEN \A s \in Sources : Fresh(c, shot, s) ELSE Fresh(c, shot, k)}

CompletesCycle(c) ==
    /\ cycle[c].at = "scan" /\ cycle[c].due = {}
    /\ LET shot == cycle[c].shot
           failed == \E s \in Sources : shot.parts[s].attempt = cycle[c].started /\ shot.parts[s].failed
       IN  /\ Writes([shot EXCEPT !.completed = time, !.error = IF failed THEN "partition" ELSE "none"])
           /\ cycle' = [cycle EXCEPT ![c] = [at |-> "acknowledge", read |-> @.read, left |-> Answered(c, shot)]]
    /\ UNCHANGED <<data, unmarked, marks, tokens, claims, promoted, flock, report, time, cycles, updates, deaths>>

\* Mutant: the mark is removed whatever it says.
ClaimsBlindly(c) ==
    /\ cycle[c].at = "acknowledge"
    /\ \E k \in cycle[c].left :
         /\ marks' = [marks EXCEPT ![k] = 0]
         /\ cycle' = [cycle EXCEPT ![c].left = @ \ {k}]
    /\ UNCHANGED <<data, unmarked, tokens, claims, snapshot, batches, promoted, flock, report, time, cycles, updates, deaths>>

\* A mark is renamed away before it is compared, so that a writer makes a new one
\* meanwhile.
Claims(c) ==
    /\ cycle[c].at = "acknowledge"
    /\ \E k \in cycle[c].left :
         IF marks[k] = 0 THEN cycle' = [cycle EXCEPT ![c].left = @ \ {k}] /\ UNCHANGED <<marks, claims>>
         ELSE LET claim == [key |-> k, token |-> marks[k]] IN
              /\ marks' = [marks EXCEPT ![k] = 0] /\ claims' = claims \cup {claim}
              /\ cycle' = [cycle EXCEPT ![c] = [at |-> "claimed", read |-> @.read, left |-> @.left \ {k}, claim |-> claim]]
    /\ UNCHANGED <<data, unmarked, tokens, snapshot, batches, promoted, flock, report, time, cycles, updates, deaths>>

\* One that is newer than the scans is put back, unless a still newer one is there.
Compares(c) ==
    /\ cycle[c].at = "claimed"
    /\ LET claim == cycle[c].claim IN
         /\ marks' = IF claim.token # cycle[c].read[claim.key] /\ marks[claim.key] = 0
                     THEN [marks EXCEPT ![claim.key] = claim.token] ELSE marks
         /\ claims' = claims \ {claim}
    /\ cycle' = [cycle EXCEPT ![c] = [at |-> "acknowledge", read |-> @.read, left |-> @.left]]
    /\ UNCHANGED <<data, unmarked, tokens, snapshot, batches, promoted, flock, report, time, cycles, updates, deaths>>

Unlocks(c) ==
    /\ cycle[c].at = "release" \/ (cycle[c].at = "acknowledge" /\ cycle[c].left = {})
    /\ flock' = flock \ {c} /\ cycle' = [cycle EXCEPT ![c] = [at |-> "off"]]
    /\ UNCHANGED <<data, unmarked, marks, tokens, claims, snapshot, batches, promoted, report, time, cycles, updates, deaths>>

\* A collector is killed, at its timeout or with the daemon; the kernel drops its
\* lock.
CollectorDies(c) ==
    /\ cycle[c].at # "off" /\ deaths < MaxDeaths /\ deaths' = deaths + 1
    /\ flock' = flock \ {c} /\ cycle' = [cycle EXCEPT ![c] = [at |-> "off"]]
    /\ report' = (report \/ c = Worker)
    /\ UNCHANGED <<data, unmarked, marks, tokens, claims, snapshot, batches, promoted, time, cycles, updates>>

\* The daemon records the cycle that never ended, unless another collector is at
\* work or ended one meanwhile.
RecordsFailure ==
    /\ report /\ report' = FALSE
    /\ IF flock # {} \/ snapshot.started <= snapshot.completed THEN UNCHANGED <<snapshot, batches>>
       ELSE Writes([snapshot EXCEPT !.completed = time, !.error = "interrupted",
                                    !.parts = [s \in Sources |->
                                       IF @[s].attempt = snapshot.started /\ @[s].success = {} THEN [@[s] EXCEPT !.failed = TRUE]
                                       ELSE @[s]]])
    /\ UNCHANGED <<data, unmarked, marks, tokens, claims, promoted, flock, cycle, time, cycles, updates, deaths>>

SnapshotNext ==
    \/ \E s \in Sources : Updates(s) \/ MarkDirty(s)
    \/ EnsureDirty \/ TimePasses \/ RecordsFailure
    \/ \E c \in Collectors :
         \/ Starts(c) \/ BeginsCycle(c) \/ Discovers(c) \/ Scans(c) \/ SavePartition(c) \/ CompletesCycle(c)
         \/ Claims(c) \/ Compares(c) \/ Unlocks(c) \/ CollectorDies(c)

SnapshotSpec == SnapshotInit /\ [][SnapshotNext]_snapshotVars

-----------------------------------------------------------------------------
\* What changed since the last good scan of its source has a mark, or will have:
\* a cycle acknowledges nothing that came during its scans.  A collector that
\* dies between the two steps of an acknowledgement leaves the mark in a claim
\* that nobody reads; only the partition's age brings the next scan then.
NoChangeForgotten ==
    \A s \in Sources : data[s] > snapshot.parts[s].seen /\ snapshot.parts[s].success # {} =>
        s \in unmarked \/ marks[s] # 0 \/ \E f \in claims : f.key = s

\* The batch that a partition points to is there, whatever died before its commit.
BatchIsThere ==
    \A s \in Sources : snapshot.parts[s].batch # 0 =>
        \E b \in batches : b.nr = snapshot.parts[s].batch /\ b.of = s

=============================================================================

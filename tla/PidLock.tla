------------------------------- MODULE PidLock -------------------------------
(***************************************************************************)
(* The exclusive lock file of the sync commands.  It is published whole by *)
(* link() and names its holder's pid; a file whose pid is dead is removed  *)
(* by the one process that links a claim file named after its content.     *)
(***************************************************************************)
EXTENDS Naturals

CONSTANTS
    Pids,     \* processes, by pid; a pid is not reused
    NoFile,
    MaxTries   \* bound: calls of one process

\* A lock file: the pid and the token of one call.
File == [pid : Pids, token : 1..MaxTries]

ASSUME PidLockAssumption ==
    /\ NoFile \notin File \cup Pids
    /\ MaxTries \in Nat

VARIABLES
    path,    \* the lock file
    claims,  \* per content of a lock file: the process whose claim file is there
    at,      \* per process: its next step
    token,   \* per process: the token of its current call
    seen     \* per process: the lock file as last read

pidVars == <<path, claims, at, token, seen>>

Mine(p) == [pid |-> p, token |-> token[p]]

PidInit ==
    /\ path   = NoFile
    /\ claims = [f \in File |-> NoFile]
    /\ at     = [p \in Pids |-> "idle"]
    /\ token  = [p \in Pids |-> 0]
    /\ seen   = [p \in Pids |-> NoFile]

To(p, step) == at' = [at EXCEPT ![p] = step]

\* Past the deadline the call returns undefined, before it sleeps and retries.
GiveUpOrRetry(p) == To(p, "idle") \/ To(p, "link")

Start(p) ==
    /\ at[p] = "idle"
    /\ token[p] < MaxTries
    /\ token' = [token EXCEPT ![p] = @ + 1]
    /\ To(p, "link")
    /\ UNCHANGED <<path, claims, seen>>

\* link() fails when the lock file exists.
Link(p) ==
    /\ at[p] = "link"
    /\ IF path = NoFile
       THEN path' = Mine(p) /\ To(p, "held")
       ELSE To(p, "read") /\ UNCHANGED path
    /\ UNCHANGED <<claims, token, seen>>

Dead(p) == at[p] \in {"dead", "lost"}

\* The file may have vanished since, and is stale when its pid is dead.
Read(p) ==
    /\ at[p] = "read"
    /\ seen' = [seen EXCEPT ![p] = path]
    /\ \/ path = NoFile /\ To(p, "link")
       \/ path # NoFile /\ ~Dead(path.pid) /\ GiveUpOrRetry(p)
       \/ path # NoFile /\ Dead(path.pid) /\ To(p, "claim")
    /\ UNCHANGED <<path, claims, token>>

\* One process wins the claim on this exact content.
Claim(p) ==
    /\ at[p] = "claim"
    /\ IF claims[seen[p]] = NoFile
       THEN claims' = [claims EXCEPT ![seen[p]] = p] /\ To(p, "compare")
       ELSE To(p, "inspect") /\ UNCHANGED claims
    /\ UNCHANGED <<path, token, seen>>

\* Mutant: the winner does not look at the lock file again.
CompareSkipped(p) ==
    /\ at[p] = "compare"
    /\ To(p, "remove")
    /\ UNCHANGED <<path, claims, token, seen>>

Compare(p) ==
    /\ at[p] = "compare"
    /\ To(p, IF path = seen[p] THEN "remove" ELSE "drop")
    /\ UNCHANGED <<path, claims, token, seen>>

\* unlink() removes whatever is at the path by now.
Remove(p) ==
    /\ at[p] = "remove"
    /\ path' = NoFile
    /\ To(p, "drop")
    /\ UNCHANGED <<claims, token, seen>>

\* The claim file goes, and the winner tries to link again.
Drop(p) ==
    /\ at[p] = "drop"
    /\ claims' = [claims EXCEPT ![seen[p]] = NoFile]
    /\ To(p, "link")
    /\ UNCHANGED <<path, token, seen>>

\* Mutant: a dead process's claim is left alone.
InspectOnly(p) ==
    /\ at[p] = "inspect"
    /\ GiveUpOrRetry(p)
    /\ UNCHANGED <<path, claims, token, seen>>

\* Somebody else's claim is there, or was; one whose maker is dead is reaped.
Inspect(p) ==
    /\ at[p] = "inspect"
    /\ IF claims[seen[p]] # NoFile /\ Dead(claims[seen[p]])
       THEN To(p, "reap")
       ELSE GiveUpOrRetry(p)
    /\ UNCHANGED <<path, claims, token, seen>>

Reap(p) ==
    /\ at[p] = "reap"
    /\ claims' = [claims EXCEPT ![seen[p]] = NoFile]
    /\ GiveUpOrRetry(p)
    /\ UNCHANGED <<path, token, seen>>

\* The release reads the file and removes it only if it still has its token.
ReleaseFile(p) ==
    /\ at[p] = "held"
    /\ To(p, IF path = Mine(p) THEN "unlink" ELSE "idle")
    /\ UNCHANGED <<path, claims, token, seen>>

Unlink(p) ==
    /\ at[p] = "unlink"
    /\ path' = NoFile
    /\ To(p, "idle")
    /\ UNCHANGED <<claims, token, seen>>

Claiming(p) == at[p] \in {"compare", "remove", "drop"}

\* A process that dies between making and dropping its claim leaves the claim.
Die(p) ==
    /\ at[p] \notin {"idle", "dead", "lost"}
    /\ To(p, IF Claiming(p) THEN "lost" ELSE "dead")
    /\ UNCHANGED <<path, claims, token, seen>>

PidStep(p) ==
    \/ Link(p) \/ Read(p) \/ Claim(p) \/ Compare(p) \/ Remove(p) \/ Drop(p)
    \/ Inspect(p) \/ Reap(p) \/ ReleaseFile(p) \/ Unlink(p)

PidNext == \E p \in Pids : Start(p) \/ PidStep(p) \/ Die(p)

PidSpec == PidInit /\ [][PidNext]_pidVars

------------------------------------------------------------------------------
Steps == {"idle", "link", "read", "claim", "compare", "remove", "drop",
          "inspect", "reap", "held", "unlink", "dead", "lost"}

\* Every variable holds what the code can put there.
PidTypeOK ==
    /\ path \in File \cup {NoFile}
    /\ claims \in [File -> Pids \cup {NoFile}]
    /\ at \in [Pids -> Steps]
    /\ token \in [Pids -> 0..MaxTries]
    /\ seen \in [Pids -> File \cup {NoFile}]

Holds(p) == at[p] \in {"held", "unlink"}

\* Nobody has left a claim behind.  Once one is left, two processes can find its
\* maker dead, and the slower of them reaps a newer claim.
NothingLost == \A p \in Pids : at[p] # "lost"

\* Until a claim is left behind, the lock is a mutex: a process enters when
\* nobody is inside, whatever stale files it met on its way and whoever else
\* was removing them.
FileLock == INSTANCE Mutex WITH
            Procs <- Pids,
            inside <- IF NothingLost THEN {p \in Pids : Holds(p)} ELSE {}

PidIsAMutex == FileLock!Spec

\* unlink() of a stale file never hits someone else's new lock.
StaleOnly ==
    [][\A p \in Pids :
          NothingLost /\ at[p] = "remove" /\ at'[p] = "drop"
             => path = NoFile \/ (path = seen[p] /\ Dead(path.pid))]_pidVars

\* A holder's file stays until the holder removes it.
HolderIsNamed == NothingLost => \A p \in Pids : Holds(p) => path = Mine(p)

\* A dead holder's file does not stay for ever in the way of those who keep
\* trying, even behind the claim file of another process that died: as long as
\* somebody finds it stale again and again, it is removed.
PidFairness == \A p \in Pids : WF_pidVars(PidStep(p))

StaleFileGoes ==
    <>[](path # NoFile /\ Dead(path.pid)) => <>[](\A p \in Pids : at[p] # "claim")

=============================================================================

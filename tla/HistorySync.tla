----------------------------- MODULE HistorySync -----------------------------
(***************************************************************************)
(* One JSONL history that tools append to on two hosts, and the sync runs  *)
(* that bring the hosts' copies together: a pull and a push, each of which *)
(* sends the tail the receiver lacks, or the whole file, and merges it by  *)
(* appending the missing lines.  A line is written in two halves; the text *)
(* before the first line here is a beginning that both copies share.       *)
(* Histories are only appended to.  Archived copies are left out, and the  *)
(* window between the last look at a file and the write after it.          *)
(***************************************************************************)
EXTENDS Naturals, FiniteSets, Sequences, Functions

CONSTANTS
    Hosts,         \* two
    Lines,         \* what the tools write, each once
    AnyLine,
    SharedStarts,  \* TRUE: the lines' first halves are the same bytes
    MaxOpens,      \* bound: how often a tool opens the file
    MaxRuns        \* bound: sync runs

ASSUME HistoryAssumption == IsFiniteSet(Hosts) /\ Cardinality(Hosts) = 2 /\ AnyLine \notin Lines /\ SharedStarts \in BOOLEAN

VARIABLES
    copy,     \* per host: the file, its text as halves of lines, and its mtime
    writer,   \* per host: the tool that has the file open, and the line it is in
    written,  \* lines that were begun
    large,    \* the history is large enough for tails
    sync,     \* per host: the run it started
    merging,  \* per host: who holds its profile-merge lock
    stamp,    \* the last mtime
    opens, runs

historyVars == <<copy, writer, written, large, sync, merging, stamp, opens, runs>>

Peer(h) == CHOOSE o \in Hosts : o # h

Half(l) == [front |-> IF SharedStarts THEN AnyLine ELSE l]
End(l) == [back |-> l]
LineEnds == {End(l) : l \in Lines}

\* The text ends with a newline.
Ended(text) == text # << >> => text[Len(text)] \in LineEnds

\* A record stands between two newlines, from b to e.
IsRecord(text, b, e) ==
    /\ b <= e /\ text[e] \in LineEnds
    /\ b = 1 \/ text[b - 1] \in LineEnds
    /\ \A i \in b..(e - 1) : text[i] \notin LineEnds

Spans(text) == {s \in (DOMAIN text) \X (DOMAIN text) : IsRecord(text, s[1], s[2])}

Records(text) == [s \in Spans(text) |-> SubSeq(text, s[1], s[2])]

\* What stands at the places of K, in order; the n-th is for the first n places.
Picks(text, K) ==
    LET pick[n \in 0..Len(text)] ==
            IF n = 0 THEN << >> ELSE IF n \in K THEN Append(pick[n - 1], text[n]) ELSE pick[n - 1]
    IN  pick

Picked(text, K) == Picks(text, K)[Len(text)]

\* Mutant: nothing is taken to be there already.
MissingAll(have, incoming) == Picked(incoming, UNION {s[1]..s[2] : s \in Spans(incoming)})

\* The incoming records that are not there, in their order.
Absent(have, incoming) == {s \in Spans(incoming) : Records(incoming)[s] \notin Range(Records(have))}

Missing(have, incoming) == Picked(incoming, UNION {s[1]..s[2] : s \in Absent(have, incoming)})

HistoryInit ==
    /\ large \in BOOLEAN
    /\ \E first \in Hosts :
         copy = [h \in Hosts |-> [there |-> large \/ h = first, text |-> << >>, mtime |-> 0]]
    /\ writer = [h \in Hosts |-> [open |-> FALSE, in |-> {}]]
    /\ written = {} /\ stamp = 0
    /\ sync = [h \in Hosts |-> [at |-> "idle"]]
    /\ merging = [h \in Hosts |-> {}]
    /\ opens = 0 /\ runs = 0

-----------------------------------------------------------------------------
(* Tools.                                                                  *)

\* What a tool does to the file ends the quiet of the runs under way.
Disturbs == sync' = [h \in Hosts |-> IF sync[h].at = "idle" THEN sync[h] ELSE [sync[h] EXCEPT !.quiet = FALSE]]

Adds(h, text) ==
    /\ stamp' = stamp + 1
    /\ copy' = [copy EXCEPT ![h] = [there |-> TRUE, text |-> @.text \o text, mtime |-> stamp']]

Opens(h) ==
    /\ ~writer[h].open /\ Ended(copy[h].text) /\ opens < MaxOpens /\ opens' = opens + 1
    /\ writer' = [writer EXCEPT ![h].open = TRUE]
    /\ IF copy[h].there THEN UNCHANGED <<copy, stamp>> ELSE Adds(h, << >>)
    /\ Disturbs
    /\ UNCHANGED <<written, large, merging, runs>>

BeginsLine(h, l) ==
    /\ writer[h].open /\ writer[h].in = {} /\ l \notin written
    /\ Adds(h, <<Half(l)>>) /\ written' = written \cup {l}
    /\ writer' = [writer EXCEPT ![h].in = {l}]
    /\ Disturbs
    /\ UNCHANGED <<large, merging, opens, runs>>

EndsLine(h) ==
    /\ \E l \in writer[h].in : Adds(h, <<End(l)>>)
    /\ writer' = [writer EXCEPT ![h].in = {}]
    /\ Disturbs
    /\ UNCHANGED <<written, large, merging, opens, runs>>

\* It closes the file, or dies in a line.
Closes(h) ==
    /\ writer[h].open
    /\ writer' = [writer EXCEPT ![h] = [open |-> FALSE, in |-> {}]]
    /\ Disturbs
    /\ UNCHANGED <<copy, written, large, merging, stamp, opens, runs>>

-----------------------------------------------------------------------------
(* A run: the pull, then the push.                                         *)

Sender(h) == IF sync[h].pull THEN Peer(h) ELSE h
Receiver(h) == IF sync[h].pull THEN h ELSE Peer(h)

\* A run's record with these fields set.
With(r, fields) == [f \in (DOMAIN r) \cup (DOMAIN fields) |-> IF f \in DOMAIN fields THEN fields[f] ELSE r[f]]

Goes(h, at) == sync' = [sync EXCEPT ![h].at = at]

Frees(h) == merging' = [k \in Hosts |-> merging[k] \ {h}]

\* The transfer is over, successful or not.
Over(h, good) ==
    /\ sync' = [sync EXCEPT ![h] = [at |-> IF @.pull THEN "manifest" ELSE "done", pull |-> FALSE, quiet |-> @.quiet /\ good]]
    /\ Frees(h)

RunStarts(h) ==
    /\ sync[h].at = "idle" /\ runs < MaxRuns /\ runs' = runs + 1
    /\ sync' = [sync EXCEPT ![h] = [at |-> "manifest", pull |-> TRUE,
                                    quiet |-> \A k \in Hosts : ~writer[k].open /\ Ended(copy[k].text)]]
    /\ UNCHANGED <<copy, writer, written, large, merging, stamp, opens>>

RunEnds(h) ==
    /\ sync[h].at = "done"
    /\ sync' = [sync EXCEPT ![h] = [at |-> "idle"]]
    /\ UNCHANGED <<copy, writer, written, large, merging, stamp, opens, runs>>

Info(c) == [size |-> Len(c.text), mtime |-> c.mtime]

\* The receiver lists its large histories.
Manifest(h) ==
    /\ sync[h].at = "manifest"
    /\ IF large /\ copy[Receiver(h)].there
       THEN sync' = [sync EXCEPT ![h] = With(@, [at |-> "plan", seen |-> Info(copy[Receiver(h)])])]
       ELSE Goes(h, "bulk")
    /\ UNCHANGED <<copy, writer, written, large, merging, stamp, opens, runs>>

\* Mutant: a history of the same size counts as equal.
EqualBySize(c, info) == Len(c.text) = info.size

Equal(c, info) == Info(c) = info

\* The sender reads what lies beyond the receiver's size and hashes what lies
\* before it.  What is equal is left out of the bulk transfer too.
Plan(h) ==
    /\ sync[h].at = "plan"
    /\ LET c == copy[Sender(h)] seen == sync[h].seen IN
         IF ~c.there THEN Goes(h, "bulk") /\ UNCHANGED merging
         ELSE IF Equal(c, seen) THEN Over(h, TRUE)
         ELSE /\ sync' = [sync EXCEPT ![h] = With(@, [at |-> "lock", tail |-> TRUE, mtime |-> c.mtime, text |-> c.text,
                                              offset |-> IF Len(c.text) < seen.size THEN Len(c.text) ELSE seen.size])]
              /\ UNCHANGED merging
    /\ UNCHANGED <<copy, writer, written, large, stamp, opens, runs>>

\* The whole file is staged, unless rsync takes the two copies to be equal.
Bulk(h) ==
    /\ sync[h].at = "bulk"
    /\ LET c == copy[Sender(h)] d == copy[Receiver(h)] IN
         IF ~c.there \/ (d.there /\ Equal(c, Info(d))) THEN Over(h, TRUE)
         ELSE /\ sync' = [sync EXCEPT ![h] = With(@, [at |-> "lock", tail |-> FALSE, mtime |-> c.mtime, text |-> c.text, offset |-> 0])]
              /\ UNCHANGED merging
    /\ UNCHANGED <<copy, writer, written, large, stamp, opens, runs>>

\* A transfer fails: a connection, rsync, a wait for the lock.
Fails(h) ==
    /\ sync[h].at \in {"manifest", "plan", "bulk", "lock"}
    /\ Over(h, FALSE)
    /\ UNCHANGED <<copy, writer, written, large, stamp, opens, runs>>

Locks(h) ==
    /\ sync[h].at = "lock" /\ merging[Receiver(h)] = {}
    /\ merging' = [merging EXCEPT ![Receiver(h)] = {h}]
    /\ Goes(h, "merge")
    /\ UNCHANGED <<copy, writer, written, large, stamp, opens, runs>>

\* A tail that cannot be applied is asked for whole; a whole file that cannot
\* be merged is archived.
Deferred(h) == IF sync[h].tail THEN Goes(h, "bulk") /\ Frees(h) ELSE Over(h, TRUE)

WillAppend(h, text) ==
    /\ sync' = [sync EXCEPT ![h] = With(@, [at |-> "append", before |-> copy[Receiver(h)], adds |-> text])]
    /\ UNCHANGED merging

Rest(h) == SubSeq(sync[h].text, sync[h].offset + 1, Len(sync[h].text))

\* A tail is merged with what the receiver has beyond the offset, once it proved
\* to have the same text before it.
MergeTail(h) ==
    /\ sync[h].at = "merge" /\ sync[h].tail
    /\ LET r == Receiver(h)
           text == copy[r].text
           offset == sync[h].offset
           extra == SubSeq(text, offset + 1, Len(text))
           news == Missing(extra, Rest(h))
       IN  IF Len(text) < offset THEN Deferred(h)
           ELSE IF Spans(Rest(h)) # {} /\ writer[r].open THEN Over(h, TRUE)
           ELSE IF SubSeq(text, 1, offset) # SubSeq(sync[h].text, 1, offset) THEN Deferred(h)
           ELSE IF Spans(Rest(h)) = {} \/ (Ended(extra) /\ news = << >>) THEN Goes(h, "align") /\ UNCHANGED merging
           ELSE IF ~Ended(extra) THEN Deferred(h)
           ELSE WillAppend(h, news)
    /\ UNCHANGED <<copy, writer, written, large, stamp, opens, runs>>

\* A whole file is merged with the receiver's, or becomes it.
MergeWhole(h) ==
    /\ sync[h].at = "merge" /\ ~sync[h].tail
    /\ LET r == Receiver(h)
           d == copy[r]
           news == Missing(d.text, sync[h].text)
       IN  \/ /\ d.there /\ d.text = sync[h].text
              /\ copy' = [copy EXCEPT ![r].mtime = IF @ < sync[h].mtime THEN sync[h].mtime ELSE @]
              /\ Over(h, TRUE)
           \/ /\ ~(d.there /\ d.text = sync[h].text)
              /\ IF ~Ended(d.text) THEN Deferred(h)
                 ELSE IF d.there /\ news = << >> THEN Goes(h, "align") /\ UNCHANGED merging
                 ELSE WillAppend(h, news)
              /\ UNCHANGED copy
    /\ UNCHANGED <<writer, written, large, stamp, opens, runs>>

\* Mutant: what a tool wrote meanwhile is not looked for.
AppendsBlindly(h) ==
    /\ sync[h].at = "append"
    /\ Adds(Receiver(h), sync[h].adds) /\ Goes(h, "align") /\ UNCHANGED merging
    /\ UNCHANGED <<writer, written, large, opens, runs>>

\* The lines are appended only to the file that was read, while no tool has it
\* open.
AppendsTo(h) ==
    /\ sync[h].at = "append"
    /\ LET r == Receiver(h) IN
         IF writer[r].open \/ copy[r] # sync[h].before
         THEN /\ UNCHANGED <<copy, stamp>>
              /\ \/ Deferred(h)
                 \/ writer[r].open /\ Over(h, TRUE)
         ELSE Adds(r, sync[h].adds) /\ Goes(h, "align") /\ UNCHANGED merging
    /\ UNCHANGED <<writer, written, large, opens, runs>>

\* Copies of one size have the same lines now: the sender's mtime is taken over,
\* so that the next run finds them equal.
Align(h) ==
    /\ sync[h].at = "align"
    /\ IF Ended(Rest(h)) /\ Len(copy[Receiver(h)].text) = Len(sync[h].text)
       THEN copy' = [copy EXCEPT ![Receiver(h)].mtime = sync[h].mtime] ELSE UNCHANGED copy
    /\ Over(h, TRUE)
    /\ UNCHANGED <<writer, written, large, stamp, opens, runs>>

HistoryNext == \E h \in Hosts :
    \/ Opens(h) \/ EndsLine(h) \/ Closes(h) \/ \E l \in Lines : BeginsLine(h, l)
    \/ RunStarts(h) \/ RunEnds(h) \/ Manifest(h) \/ Plan(h) \/ Bulk(h) \/ Fails(h)
    \/ Locks(h) \/ MergeTail(h) \/ MergeWhole(h) \/ AppendsTo(h) \/ Align(h)

HistorySpec == HistoryInit /\ [][HistoryNext]_historyVars

-----------------------------------------------------------------------------
\* Every history is made of whole lines, but for the one a tool is in: nothing is
\* appended to an unfinished line, and nothing but whole lines.
WholeLines ==
    \A h \in Hosts : \A i \in DOMAIN copy[h].text :
        IF i % 2 = 1 THEN copy[h].text[i] \in {Half(l) : l \in Lines}
        ELSE \E l \in Lines : copy[h].text[i] = End(l) /\ copy[h].text[i - 1] = Half(l)

\* No run and no two runs together append a line a second time.
NothingTwice == \A h \in Hosts : IsInjective(Records(copy[h].text))

\* After a run that no tool disturbed and that did not fail both hosts have the
\* same lines, whatever runs came before and go on beside it: what a run leaves
\* out as equal is equal.
InSync ==
    \A h \in Hosts : sync[h].at = "done" /\ sync[h].quiet =>
        \A k \in Hosts : Range(Records(copy[k].text)) = Range(Records(copy[h].text))

=============================================================================

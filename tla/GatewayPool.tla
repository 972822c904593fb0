---------------------------- MODULE GatewayPool -----------------------------
(***************************************************************************)
(* The gateway's calls on a pool of accounts.  A call asks which members   *)
(* are held back, picks another one, tries it and goes on to the next on a *)
(* limit or a credential failure; it may wait for a short hold to end.     *)
(* The marks of held members are shared by all calls, and the calls        *)
(* interleave wherever the handler awaits.  A hold is counted in the ticks *)
(* it has left.  All requests are for a pool, with a body that can be sent *)
(* again, and every member has headroom.                                   *)
(***************************************************************************)
EXTENDS Integers

CONSTANTS
    Pool,        \* members
    NoMember,
    Calls,       \* bound: requests
    LongHold,    \* ticks of a quota reset and of a long credential hold
    MaxWaits

ASSUME PoolAssumption == MaxWaits \in Nat /\ LongHold \in Nat \ {0} /\ NoMember \notin Pool

VARIABLES
    exhausted,  \* per member: the ticks it is still marked, or Unmarked
    holds,      \* per member: the kind of its hold; a quota mark has none
    call,       \* per call: its place and locals
    recorded    \* per call: its rows in the ledger

marks == <<exhausted, holds>>
poolVars == <<exhausted, holds, call, recorded>>

Unmarked == -1

\* why: what its look at the marks is for; held, short: the members it found
\* held, and held briefly; who: the member it tries; cur: the last answer;
\* open: history, the members that neither it asked nor anybody marked since its
\* round began.
Call ==
    [at : {"new", "look", "pick", "nap", "attempt", "stream", "done"},
     why : {"first", "wait", "next"}, held : SUBSET Pool, short : SUBSET Pool, who : Pool \cup {NoMember},
     tried : SUBSET Pool, cur : {"none", "ok", "quota", "proven"},
     loop : BOOLEAN, waits : 0..MaxWaits, nap : 0..1, open : SUBSET Pool]

\* A call without locals.
Blank(at, cur) ==
    [at |-> at, why |-> "first", held |-> {}, short |-> {}, who |-> NoMember, tried |-> {},
     cur |-> cur, loop |-> FALSE, waits |-> 0, nap |-> 0, open |-> {}]

PoolInit ==
    /\ exhausted = [m \in Pool |-> Unmarked] /\ holds = [m \in Pool |-> "none"]
    /\ call = [c \in Calls |-> Blank("new", "none")]
    /\ recorded = [c \in Calls |-> 0]

-----------------------------------------------------------------------------
(* Ending.                                                                 *)

\* One row per request, whoever comes first.
RecordRow(c) == recorded' = [recorded EXCEPT ![c] = 1]

Ended(k) == Blank("done", k.cur)

End1(c) == RecordRow(c) /\ call' = [call EXCEPT ![c] = Ended(@)]

\* The answer stands: its body goes to the client.
Streams == Blank("stream", "ok")

-----------------------------------------------------------------------------
(* Looking at the marks.                                                   *)

Looks(k, why) == [k EXCEPT !.why = why, !.held = {}, !.short = {}, !.who = NoMember]

\* A look removes the marks that are over.
LookFrom(c, k) ==
    LET over == {m \in Pool : exhausted[m] = 0}
        held == {m \in Pool \ over : exhausted[m] # Unmarked}
    IN  /\ exhausted' = [m \in Pool |-> IF m \in over THEN Unmarked ELSE exhausted[m]]
        /\ holds' = [m \in Pool |-> IF m \in over THEN "none" ELSE holds[m]]
        /\ call' = [call EXCEPT ![c] =
             [k EXCEPT !.at = "pick", !.held = held,
              !.short = IF k.why = "wait" THEN {m \in held : holds[m] = "short"} ELSE {},
              !.open = IF k.at \in {"new", "nap"} THEN Pool \ held ELSE @ \ held]]

Arrive(c) ==
    /\ call[c].at = "new"
    /\ LookFrom(c, Looks(call[c], "first"))
    /\ UNCHANGED recorded

Look(c) ==
    /\ call[c].at = "look"
    /\ LookFrom(c, call[c])
    /\ UNCHANGED recorded

-----------------------------------------------------------------------------
(* Picking and waiting.                                                    *)

\* Who is out for a pick.
Out(k) == IF k.why = "next" THEN k.held \cup k.tried ELSE k.held

Try(c) ==
    LET k == call[c] IN
    /\ k.at = "pick" /\ k.why # "wait"
    /\ \E m \in Pool \ Out(k) :
         call' = [call EXCEPT ![c] = [k EXCEPT !.at = "attempt", !.who = m, !.held = {}, !.short = {}]]
    /\ UNCHANGED <<marks, recorded>>

\* Mutant: nothing bounds the waiting.
MayAlwaysWait(k) == k.loop => k.cur = "quota"

\* Waiting is for a call that has only short holds in its way.
MayWait(k) == k.waits < MaxWaits /\ (k.loop => k.cur = "quota")

\* Nobody is left: the last answer stands, or the credential error, or the
\* rejection of a call that could not even begin.
GiveUp(c) ==
    LET k == call[c] IN
    IF k.cur = "none" THEN End1(c) ELSE call' = [call EXCEPT ![c] = Streams] /\ UNCHANGED recorded

\* At any wait the client may have left, or the time to wait in all may be
\* over.
NobodyLeft(c) ==
    LET k == call[c] IN
    /\ k.at = "pick" /\ k.why # "wait" /\ Pool \subseteq Out(k)
    /\ \/ MayWait(k) /\ LookFrom(c, Looks(k, "wait")) /\ UNCHANGED recorded
       \/ GiveUp(c) /\ UNCHANGED marks

\* Sleep until the first short hold ends, which all take one tick.
Nap(c) ==
    LET k == call[c] IN
    /\ k.at = "pick" /\ k.why = "wait"
    /\ IF k.short = {}
       THEN GiveUp(c)
       ELSE /\ call' = [call EXCEPT ![c] =
                 [k EXCEPT !.at = "nap", !.waits = IF @ < MaxWaits THEN @ + 1 ELSE @, !.nap = 1, !.held = {}, !.short = {}]]
            /\ UNCHANGED recorded
    /\ UNCHANGED marks

\* Mutant: who was tried before the sleep stays out.
AgainTired(k) == [k EXCEPT !.nap = 0]

Again(k) == [k EXCEPT !.tried = {}, !.nap = 0]

\* Then the pool is tried again from the top; a client that leaves ends the
\* sleep.
Wake(c) ==
    LET k == call[c] IN
    /\ k.at = "nap"
    /\ \/ GiveUp(c) /\ UNCHANGED marks
       \/ k.nap = 0 /\ LookFrom(c, Looks(Again(k), IF k.loop THEN "next" ELSE "first")) /\ UNCHANGED recorded

-----------------------------------------------------------------------------
(* Answers.                                                                *)

OnToNext(k) == Looks([k EXCEPT !.at = "look", !.loop = TRUE, !.tried = @ \cup {k.who}, !.open = @ \ {k.who}], "next")

AnswersOk(c) ==
    /\ call[c].at = "attempt"
    /\ call' = [call EXCEPT ![c] = Streams]
    /\ UNCHANGED <<marks, recorded>>

\* The answer marks the member for all calls, and the call goes on.
Marked(c, ticks, kind, cur) ==
    LET k == call[c] IN
    /\ k.at = "attempt"
    /\ exhausted' = [exhausted EXCEPT ![k.who] = ticks]
    /\ holds' = [holds EXCEPT ![k.who] = kind]
    /\ call' = [d \in Calls |-> IF d = c THEN OnToNext([k EXCEPT !.cur = cur])
                                        ELSE [call[d] EXCEPT !.open = @ \ {k.who}]]
    /\ UNCHANGED recorded

\* A burst marks the member briefly, a limit until its reset; a proven one is
\* not waited for.
AnswersLimit(c) ==
    \/ Marked(c, 1, "short", "quota")
    \/ \E cur \in {"quota", "proven"} : Marked(c, LongHold, "none", cur)

\* The credential cannot be had: a short hold, or a long one when only a person
\* can mend it.
AnswersNoCredential(c) ==
    Marked(c, 1, "short", call[c].cur) \/ Marked(c, LongHold, "long", call[c].cur)

\* The member cannot be reached: the first one's error is the call's, another
\* is passed over.
Unreachable(c) ==
    LET k == call[c] IN
    /\ k.at = "attempt"
    /\ IF k.loop THEN call' = [call EXCEPT ![c] = OnToNext(k)] /\ UNCHANGED recorded ELSE End1(c)
    /\ UNCHANGED marks

\* The client leaves: no call is made for it any more, and the one under way is
\* given up.
Hangup(c) ==
    /\ call[c].at = "attempt"
    /\ End1(c)
    /\ UNCHANGED marks

\* The stream ends, fails, is cancelled or its client goes, and more than one
\* of them.
StreamEnds(c) ==
    /\ call[c].at \in {"stream", "done"} /\ call[c].cur # "none"
    /\ RecordRow(c)
    /\ call' = [call EXCEPT ![c] = Ended(@)]
    /\ UNCHANGED marks

-----------------------------------------------------------------------------
\* A person signs in again: the next look finds another file than at the
\* failure and lets the member go, like a mark that is over.
Login(m) ==
    /\ holds[m] = "long"
    /\ exhausted' = [exhausted EXCEPT ![m] = 0]
    /\ UNCHANGED <<holds, call, recorded>>

Less(n) == IF n > 0 THEN n - 1 ELSE n

Tick ==
    /\ exhausted' = [m \in Pool |-> Less(exhausted[m])]
    /\ call' = [c \in Calls |-> [call[c] EXCEPT !.nap = Less(@)]]
    /\ UNCHANGED <<holds, recorded>>

Progress(c) ==
    \/ Arrive(c) \/ Look(c) \/ Try(c) \/ NobodyLeft(c) \/ Nap(c) \/ Wake(c)
    \/ AnswersOk(c) \/ AnswersLimit(c)
    \/ AnswersNoCredential(c) \/ Unreachable(c) \/ Hangup(c)

PoolNext ==
    \/ \E c \in Calls : Progress(c) \/ StreamEnds(c)
    \/ \E m \in Pool : Login(m)
    \/ Tick

PoolSpec == PoolInit /\ [][PoolNext]_poolVars

\* Reads and upstream calls come back, streams end, time passes.
PoolFairness ==
    /\ \A c \in Calls :
         /\ WF_poolVars(call[c].at # "new" /\ Progress(c))
         /\ WF_poolVars(call[c].at = "stream" /\ StreamEnds(c))
    /\ WF_poolVars(Tick)

-----------------------------------------------------------------------------
\* A call ends without a good answer only when, since its round began, it asked
\* every member that no call marked.
RefusedAfterAll ==
    [][\A c \in Calls :
          call[c].at \in {"pick", "nap"} /\ call'[c].at \in {"stream", "done"} =>
              call[c].open = {}]_poolVars

\* Failing members and short holds keep no request for ever, and however it ends,
\* it leaves one row in the ledger: finish() runs for the end of the stream, its
\* failure, its cancellation and the client's abort.
EveryCallEnds ==
    <>[](\A c \in Calls : call[c].at = "new" \/ (call[c].at = "done" /\ recorded[c] = 1))

=============================================================================

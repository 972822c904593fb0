---------------------------- MODULE BrowserRelay ----------------------------
(***************************************************************************)
(* The gateway's hub and the browser extensions that hold one binding's    *)
(* token.  An extension opens a socket, says hello and runs the calls the  *)
(* hub relays; the hub keeps one authenticated socket per binding and      *)
(* drops it when it is replaced, silent, revoked or the service restarts.  *)
(* Either side learns of a closed socket only when it reads so far.        *)
(***************************************************************************)
EXTENDS Naturals, Sequences

CONSTANTS
    Browsers,
    Sockets,    \* bound: sockets in use at a time; a finished one is used again
    Tools,      \* bound: tool calls
    NoSocket,
    MaxFaults   \* bound: broken connections, worker deaths, restarts, revocations

ASSUME RelayAssumption == NoSocket \notin Sockets /\ {"new", "done"} \cap Sockets = {}

VARIABLES
    ext,     \* per browser: the status its extension shows
    sock,    \* per browser: its extension's socket
    hub,     \* per socket: what the hub knows of it
    bound,   \* the socket of the binding
    owner,   \* per socket: the browser that opened it
    up,      \* per socket: frames on their way to the hub
    down,    \* per socket: frames on their way to the extension
    tool,    \* per call: "new", the socket it waits on, or "done"
    running, \* the calls at work in an extension, each with its socket
    token,   \* the binding's token is valid
    faults

relayVars == <<ext, sock, hub, bound, owner, up, down, tool, running, token, faults>>

RelayInit ==
    /\ ext = [b \in Browsers |-> "idle"] /\ sock = [b \in Browsers |-> NoSocket]
    /\ hub = [s \in Sockets |-> "gone"] /\ bound = NoSocket
    /\ owner \in [Sockets -> {CHOOSE b \in Browsers : TRUE}]
    /\ up = [s \in Sockets |-> <<>>] /\ down = [s \in Sockets |-> <<>>]
    /\ tool = [k \in Tools |-> "new"] /\ running = {} /\ token = TRUE /\ faults = 0

Unused(s) == hub[s] = "gone" /\ up[s] = <<>> /\ down[s] = <<>> /\ \A b \in Browsers : sock[b] # s

Fault == faults < MaxFaults /\ faults' = faults + 1

-----------------------------------------------------------------------------
(* The hub.  These operators say what becomes of hub, bound, tool and down. *)

\* Mutant: the calls of a dropped socket are left to their timeouts.
DetachedOnly(s) == UNCHANGED tool

\* A socket that goes settles the calls that wait on it.
Settled(s) == tool' = [k \in Tools |-> IF tool[k] = s THEN "done" ELSE tool[k]]

Detach(s) ==
    /\ hub' = [hub EXCEPT ![s] = "gone"]
    /\ bound' = IF bound = s THEN NoSocket ELSE bound
    /\ Settled(s)

\* Mutant: the hub forgets a socket without closing it.
DropSilently(s, code) == Detach(s) /\ UNCHANGED down

Drop(s, code) == Detach(s) /\ down' = [down EXCEPT ![s] = Append(@, <<"close", code>>)]

\* A socket that proved itself takes the binding; the one before it is closed.
Attach(s) ==
    /\ hub' = [t \in Sockets |-> IF t = s THEN "bound" ELSE IF t = bound THEN "gone" ELSE hub[t]]
    /\ bound' = s
    /\ Settled(bound)
    /\ down' = [t \in Sockets |-> IF t = s THEN Append(down[t], <<"welcome">>)
                                  ELSE IF t = bound THEN Append(down[t], <<"close", "replaced">>) ELSE down[t]]

\* A frame arrives: the close of a socket, its hello, or a result, which counts
\* only for a call of this very socket.
HubReads(s) ==
    /\ up[s] # <<>> /\ up' = [up EXCEPT ![s] = Tail(@)]
    /\ LET msg == Head(up[s]) IN
         CASE msg[1] = "closed" /\ hub[s] # "gone" -> Detach(s) /\ UNCHANGED down
           [] msg[1] = "hello" /\ hub[s] = "open" ->
                hub' = [hub EXCEPT ![s] = "auth"] /\ UNCHANGED <<bound, tool, down>>
           [] msg[1] = "result" /\ hub[s] = "bound" ->
                /\ tool' = IF tool[msg[2]] = s THEN [tool EXCEPT ![msg[2]] = "done"] ELSE tool
                /\ UNCHANGED <<hub, bound, down>>
           [] OTHER -> UNCHANGED <<hub, bound, tool, down>>
    /\ UNCHANGED <<ext, sock, owner, running, token, faults>>

\* The token's check comes back, for a socket that is still there.
Authenticated(s) ==
    /\ hub[s] = "auth"
    /\ IF token THEN Attach(s) ELSE Drop(s, "signed out")
    /\ UNCHANGED <<ext, sock, owner, up, running, token, faults>>

\* The store cannot be asked, or no hello came in time.
Refused(s) ==
    /\ hub[s] \in {"open", "auth"}
    /\ Fault /\ Drop(s, "closed")
    /\ UNCHANGED <<ext, sock, owner, up, running, token>>

HelloTimeout(s) ==
    /\ hub[s] \in {"open", "auth"} /\ sock[owner[s]] # s
    /\ Drop(s, "closed")
    /\ UNCHANGED <<ext, sock, owner, up, running, token, faults>>

\* Nothing was heard for long: an extension that uses the socket pings.
Silent(s) ==
    /\ hub[s] = "bound" /\ sock[owner[s]] # s
    /\ Drop(s, "closed")
    /\ UNCHANGED <<ext, sock, owner, up, running, token, faults>>

\* An agent's call: relayed to the binding's browser, or refused.
ToolCall(k) ==
    /\ tool[k] = "new"
    /\ IF bound = NoSocket
       THEN tool' = [tool EXCEPT ![k] = "done"] /\ UNCHANGED down
       ELSE tool' = [tool EXCEPT ![k] = bound] /\ down' = [down EXCEPT ![bound] = Append(@, <<"call", k>>)]
    /\ UNCHANGED <<ext, sock, hub, bound, owner, up, running, token, faults>>

\* Its time is over or its agent left.
GivenUp(k) ==
    /\ tool[k] \in Sockets
    /\ tool' = [tool EXCEPT ![k] = "done"]
    /\ down' = [down EXCEPT ![tool[k]] = Append(@, <<"abort", k>>)]
    /\ UNCHANGED <<ext, sock, hub, bound, owner, up, running, token, faults>>

\* The owner revokes the binding, or the service stops: all sockets go.
Revoke ==
    /\ token /\ Fault /\ token' = FALSE
    /\ IF bound = NoSocket THEN UNCHANGED <<hub, bound, tool, down>> ELSE Drop(bound, "signed out")
    /\ UNCHANGED <<ext, sock, owner, up, running>>

Restart ==
    /\ Fault
    /\ hub' = [s \in Sockets |-> "gone"] /\ bound' = NoSocket
    /\ tool' = [k \in Tools |-> IF tool[k] \in Sockets THEN "done" ELSE tool[k]]
    /\ down' = [s \in Sockets |-> IF hub[s] = "gone" THEN down[s] ELSE Append(down[s], <<"close", "closed">>)]
    /\ UNCHANGED <<ext, sock, owner, up, running, token>>

-----------------------------------------------------------------------------
(* The extension.                                                          *)

\* The alarm, the retry timer or the user opens a socket and it says hello.
Open(b) ==
    /\ ext[b] \in {"idle", "reconnecting"} /\ sock[b] = NoSocket
    /\ \E s \in Sockets :
         /\ Unused(s)
         /\ sock' = [sock EXCEPT ![b] = s]
         /\ owner' = [owner EXCEPT ![s] = b]
         /\ hub' = [hub EXCEPT ![s] = "open"]
         /\ up' = [up EXCEPT ![s] = << <<"hello">> >>]
    /\ ext' = [ext EXCEPT ![b] = "connecting"]
    /\ UNCHANGED <<bound, down, tool, running, token, faults>>

\* Mutant: a replaced extension comes back.
AfterCloseAgain(code) == IF code = "signed out" THEN "signed_out" ELSE "reconnecting"

AfterClose(code) ==
    CASE code = "signed out" -> "signed_out" [] code = "replaced" -> "replaced" [] OTHER -> "reconnecting"

\* A frame arrives at the extension, on the socket it uses.
ExtReads(b) ==
    LET s == sock[b] IN
    /\ s # NoSocket /\ down[s] # <<>>
    /\ LET msg == Head(down[s]) IN
         CASE msg[1] = "welcome" ->
                /\ ext' = [ext EXCEPT ![b] = "connected"]
                /\ down' = [down EXCEPT ![s] = Tail(@)]
                /\ UNCHANGED <<sock, running>>
           [] msg[1] = "call" ->
                /\ running' = running \cup {<<msg[2], s>>}
                /\ down' = [down EXCEPT ![s] = Tail(@)]
                /\ UNCHANGED <<ext, sock>>
           [] msg[1] = "abort" ->
                /\ running' = running \ {<<msg[2], s>>}
                /\ down' = [down EXCEPT ![s] = Tail(@)]
                /\ UNCHANGED <<ext, sock>>
           [] msg[1] = "close" ->
                /\ ext' = [ext EXCEPT ![b] = AfterClose(msg[2])]
                /\ sock' = [sock EXCEPT ![b] = NoSocket]
                /\ down' = [down EXCEPT ![s] = <<>>]
                /\ UNCHANGED running
    /\ UNCHANGED <<hub, bound, owner, up, tool, token, faults>>

\* What is on its way to a socket its extension left is lost.
Lost(s) ==
    /\ sock[owner[s]] # s /\ down[s] # <<>>
    /\ down' = [down EXCEPT ![s] = <<>>]
    /\ UNCHANGED <<ext, sock, hub, bound, owner, up, tool, running, token, faults>>

\* A call ends; its result is sent only on the socket it came from.
RunEnds(k, s) ==
    /\ <<k, s>> \in running /\ running' = running \ {<<k, s>>}
    /\ up' = IF sock[owner[s]] = s THEN [up EXCEPT ![s] = Append(@, <<"result", k>>)] ELSE up
    /\ UNCHANGED <<ext, sock, hub, bound, owner, down, tool, token, faults>>

\* The connection breaks, or Chrome ends the worker; the hub sees it later,
\* when it reads that far.
Breaks(b) ==
    /\ sock[b] # NoSocket /\ Fault
    /\ \E st \in {"idle", "reconnecting"} : ext' = [ext EXCEPT ![b] = st]
    /\ sock' = [sock EXCEPT ![b] = NoSocket]
    /\ up' = [up EXCEPT ![sock[b]] = Append(@, <<"closed">>)]
    /\ running' = {r \in running : r[2] # sock[b]}
    /\ UNCHANGED <<hub, bound, owner, down, tool, token>>

\* The user connects a replaced browser again, or pairs anew.
ConnectsAgain(b) ==
    /\ Fault
    /\ ext[b] \in {"replaced", "signed_out"}
    /\ ext' = [ext EXCEPT ![b] = "idle"] /\ token' = TRUE
    /\ UNCHANGED <<sock, hub, bound, owner, up, down, tool, running>>

RelayNext ==
    \/ \E s \in Sockets : HubReads(s) \/ Authenticated(s) \/ Refused(s) \/ HelloTimeout(s) \/ Silent(s) \/ Lost(s)
    \/ \E k \in Tools : ToolCall(k) \/ GivenUp(k) \/ \E s \in Sockets : RunEnds(k, s)
    \/ \E b \in Browsers : Open(b) \/ ExtReads(b) \/ Breaks(b) \/ ConnectsAgain(b)
    \/ Revoke \/ Restart

RelaySpec == RelayInit /\ [][RelayNext]_relayVars

\* Frames arrive, checks come back, timers fire.
RelayFairness ==
    /\ \A s \in Sockets :
         /\ WF_relayVars(HubReads(s)) /\ WF_relayVars(Authenticated(s)) /\ WF_relayVars(Lost(s))
         /\ WF_relayVars(HelloTimeout(s) \/ Silent(s))
    /\ \A k \in Tools : WF_relayVars(GivenUp(k))
    /\ \A b \in Browsers : WF_relayVars(ext[b] # "idle" /\ Open(b)) /\ WF_relayVars(ExtReads(b))

-----------------------------------------------------------------------------
\* No call waits on a socket that is not the binding's: whatever ends a socket
\* settles its calls at once.
WaitsOnTheBound == \A k \in Tools : tool[k] \in Sockets => tool[k] = bound /\ hub[bound] = "bound"

\* Two browsers with one binding do not take it from each other for ever: once
\* the faults are over the binding stays where it is.
NoReplacementWar == <>[][bound' = bound]_bound

\* An extension that was signed in and not replaced comes back after any break,
\* and one that shows "connected" is the one the hub relays to.
ComesBack ==
    <>[](\A b \in Browsers :
           /\ ext[b] \in {"idle", "connected", "replaced", "signed_out"}
           /\ ext[b] = "connected" => sock[b] = bound)

=============================================================================

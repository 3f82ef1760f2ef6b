-------------------------- MODULE OneShotSession --------------------------
(***************************************************************************)
(* The one-shot question session of src/internal/command/                  *)
(* requirementbrowser: a loopback HTTP server, the browser launched on it, *)
(* and serveOneShot, which waits for the one packet that ends the session, *)
(* closes the server and only then prints the packet.                      *)
(*                                                                         *)
(* Five parties race for the outcome through the mutex of terminalArbiter: *)
(* handoff and cancel requests, each in a handler goroutine of its own,    *)
(* the session timer, the context and the failure of the launcher.  The    *)
(* server may also die by itself.                                          *)
(***************************************************************************)
EXTENDS Integers, FiniteSets

CONSTANTS
    Query, Handoff, Cancel,   \* the requests clients may send, by route
    MaxWorkspaceRequests,     \* slots for queries and handoffs
    Launching,                \* the session opens a browser
    Faulty                    \* Serve, Close and stdout may fail

Request == Query \cup Handoff \cup Cancel

ASSUME RoutesAssumption ==
    /\ IsFiniteSet(Request)
    /\ Query \cap Handoff = {} /\ Query \cap Cancel = {} /\ Handoff \cap Cancel = {}
    /\ Request \cap {"none", "expired", "cancelled", "nothing"} = {}
    /\ MaxWorkspaceRequests \in Nat \ {0}
    /\ {Launching, Faulty} \subseteq BOOLEAN

VARIABLES
    handler,    \* per request: where its handler is
    status,     \* per request: the HTTP status the client got, or why it got none
    committed,  \* terminalArbiter.committed
    packets,    \* terminalArbiter.packets, a channel of capacity one
    winner,     \* history: what the successful TryCommit was given
    listening, severed,   \* the listener is open; Close has cut the connections
    done,       \* Serve: serving, ended, failed; taken once received
    launcher,   \* off, running, failed, succeeded; taken once received
    expired, ctxDone,     \* the timer has fired; the context has ended
    session,    \* where serveOneShot is
    candidate,  \* the packet it tries to commit
    packet,     \* the packet it has chosen, or "nothing"
    cleanupErr, \* closeAndWaitServer failed
    printed,    \* what was written to stdout, or "none"
    result      \* what serveOneShot returned

httpVars    == <<handler, status, listening, severed>>
arbiterVars == <<committed, packets, winner>>
eventVars   == <<done, launcher, expired, ctxDone>>
ownVars     == <<session, candidate, packet, cleanupErr, printed, result>>
vars == <<httpVars, arbiterVars, eventVars, ownVars>>

\* A terminal packet: that of a request, or one that the session makes itself.
Packet == Handoff \cup Cancel \cup {"expired", "cancelled"}

\* The handlers that have not returned.
InFlight(routes) == {r \in routes : handler[r] \in {"reading", "won", "lost", "rejected"}}

---------------------------------------------------------------------------
(* terminalArbiter *)

UnsentVariant(p) ==
    /\ ~committed /\ committed' = TRUE
    /\ UNCHANGED packets
    /\ winner' = p

\* TryCommit(p), when it returns TRUE; p = "nothing" is the nil packet.
Wins(p) ==
    /\ ~committed /\ committed' = TRUE
    /\ packets' = IF p = "nothing" THEN packets ELSE packets \cup {p}
    /\ winner' = p

Loses == committed /\ UNCHANGED arbiterVars

---------------------------------------------------------------------------
(* The handlers *)

\* A connection that was accepted may still carry a request while Shutdown waits.
Connected == ~severed /\ session \notin {"waiting", "finishing", "returned"}

\* admitWorkspaceRequest: cancellation has a slot of its own.
Admitted(r) ==
    IF r \in Cancel
    THEN InFlight(Cancel) = {}
    ELSE Cardinality(InFlight(Query \cup Handoff)) < MaxWorkspaceRequests

\* What the client of a handler that returns sees.
Answer(r, code) ==
    /\ status' = [status EXCEPT ![r] = IF severed THEN "severed" ELSE code]
    /\ handler' = [handler EXCEPT ![r] = "returned"]

Admit(r) ==
    /\ handler[r] = "none" /\ Connected
    /\ \/ /\ Admitted(r)
          /\ handler' = [handler EXCEPT ![r] = "reading"] /\ UNCHANGED status
       \/ ~Admitted(r) /\ Answer(r, "429")
    /\ UNCHANGED <<listening, severed, arbiterVars, eventVars, ownVars>>

\* The body is read and admitted, or not; handoff and cancel then commit.
Decide(r) ==
    /\ handler[r] = "reading"
    /\ \/ /\ handler' = [handler EXCEPT ![r] = "rejected"]
          /\ UNCHANGED arbiterVars
       \/ /\ r \in Query
          /\ handler' = [handler EXCEPT ![r] = "won"]
          /\ UNCHANGED arbiterVars
       \/ /\ r \notin Query /\ Wins(r)
          /\ handler' = [handler EXCEPT ![r] = "won"]
       \/ /\ r \notin Query /\ Loses
          /\ handler' = [handler EXCEPT ![r] = "lost"]
    /\ UNCHANGED <<status, listening, severed, eventVars, ownVars>>

AcceptAnywayVariant(r) ==
    CASE handler[r] = "rejected" -> "400" [] OTHER -> "200"

Code(r) ==
    CASE handler[r] = "won"      -> "200"
      [] handler[r] = "lost"     -> "410"
      [] handler[r] = "rejected" -> "400"

Respond(r) ==
    /\ handler[r] \in {"won", "lost", "rejected"}
    /\ Answer(r, Code(r))
    /\ UNCHANGED <<listening, severed, arbiterVars, eventVars, ownVars>>

---------------------------------------------------------------------------
(* What happens to the session *)

\* Serve ends when the listener is closed, or by itself.
ServeEnds ==
    /\ done = "serving"
    /\ \/ ~listening /\ done' = "ended"
       \/ listening /\ Faulty /\ done' = "failed"
    /\ listening' = FALSE
    /\ UNCHANGED <<handler, status, severed, arbiterVars, launcher, expired,
                   ctxDone, ownVars>>

LauncherEnds ==
    /\ launcher = "running" /\ launcher' \in {"failed", "succeeded"}
    /\ UNCHANGED <<httpVars, arbiterVars, done, expired, ctxDone, ownVars>>

TimerFires ==
    /\ session # "opening" /\ ~expired /\ expired' = TRUE
    /\ UNCHANGED <<httpVars, arbiterVars, done, launcher, ctxDone, ownVars>>

ContextEnds ==
    /\ ~ctxDone /\ ctxDone' = TRUE
    /\ UNCHANGED <<httpVars, arbiterVars, done, launcher, expired, ownVars>>

---------------------------------------------------------------------------
(* serveOneShot *)

GoesOn == UNCHANGED <<httpVars, eventVars, cleanupErr, printed, result>>

\* The session decides what it wants to commit, and does so in a later step.
Wants(p) ==
    /\ candidate' = p /\ session' = "committing"
    /\ UNCHANGED <<httpVars, arbiterVars, done, expired, ctxDone, packet,
                   cleanupErr, printed, result>>

Takes ==
    /\ packets # {} /\ packet' \in packets /\ packets' = {}
    /\ session' = "closing"
    /\ UNCHANGED <<committed, winner, candidate>>
    /\ GoesOn

\* The fixed launcher starts, or does not.
OpensBrowser ==
    /\ session = "opening"
    /\ \/ /\ session' = "selecting"
          /\ launcher' = IF Launching THEN "running" ELSE "off"
          /\ UNCHANGED <<httpVars, arbiterVars, done, expired, ctxDone, candidate,
                         packet, cleanupErr, printed, result>>
       \/ Launching /\ Wants("nothing") /\ UNCHANGED launcher

SelectsHandoff == session = "selecting" /\ Takes

SelectsTimer   == session = "selecting" /\ expired /\ Wants("expired")
                  /\ UNCHANGED launcher

SelectsContext == session = "selecting" /\ ctxDone /\ Wants("cancelled")
                  /\ UNCHANGED launcher

SelectsDone ==
    /\ session = "selecting" /\ done \in {"ended", "failed"}
    /\ done' = "taken" /\ session' = "closing"
    /\ UNCHANGED <<httpVars, arbiterVars, launcher, expired, ctxDone, candidate,
                   packet, cleanupErr, printed, result>>

\* A launcher that fails ends the session, unless the context made it fail.
SelectsLauncher ==
    /\ session = "selecting" /\ launcher \in {"failed", "succeeded"}
    /\ launcher' = "taken"
    /\ \/ /\ launcher = "succeeded" \/ ctxDone
          /\ UNCHANGED <<httpVars, arbiterVars, done, expired, ctxDone, ownVars>>
       \/ launcher = "failed" /\ ~ctxDone /\ Wants("nothing")

IgnoreLossVariant ==
    /\ session = "committing" /\ packet' = candidate /\ session' = "closing"
    /\ \/ Wins(candidate)
       \/ Loses
    /\ UNCHANGED candidate
    /\ GoesOn

\* commitOrReadTerminal and finishOneShotLaunchFailure.
Commits ==
    /\ session = "committing"
    /\ \/ Wins(candidate) /\ packet' = candidate /\ session' = "closing"
       \/ Loses /\ session' = "reading" /\ UNCHANGED packet
    /\ UNCHANGED candidate
    /\ GoesOn

ReadsTerminal == session = "reading" /\ Takes

\* Shutdown closes the listener and waits for the handlers ...
Shutdown ==
    /\ session = "closing" /\ session' = "draining"
    /\ listening' = FALSE
    /\ UNCHANGED <<handler, status, severed, arbiterVars, eventVars, candidate,
                   packet, cleanupErr, printed, result>>

SkipDoneVariant == "finishing"

\* A session that has received Done must not wait for it again.
AfterDrain == IF packet = "none" THEN "finishing" ELSE "waiting"

Drained == InFlight(Request) = {}

\* ... until its deadline, when Close cuts the connections.
Drains ==
    /\ session = "draining" /\ session' = AfterDrain
    /\ \/ Drained /\ UNCHANGED severed
       \/ severed' = TRUE
    /\ \/ UNCHANGED cleanupErr
       \/ Faulty /\ cleanupErr' = TRUE
    /\ UNCHANGED <<handler, status, listening, arbiterVars, eventVars, candidate,
                   packet, printed, result>>

WaitsForDone ==
    /\ session = "waiting" /\ session' = "finishing"
    /\ \/ /\ done \in {"ended", "failed"} /\ done' = "taken"
          /\ cleanupErr' = (cleanupErr \/ done = "failed")
       \/ Faulty /\ cleanupErr' = TRUE /\ UNCHANGED done
    /\ UNCHANGED <<httpVars, arbiterVars, launcher, expired, ctxDone, candidate,
                   packet, printed, result>>

Returns(answer, output) ==
    /\ result' = answer /\ printed' = output

\* The packet is printed only after a clean close.
Finishes ==
    /\ session = "finishing" /\ session' = "returned"
    /\ \/ packet = "none"    /\ Returns("server failed", "none")
       \/ packet = "nothing" /\ Returns("launch failed", "none")
       \/ packet \in Packet /\ cleanupErr /\ Returns("cleanup failed", "none")
       \/ packet \in Packet /\ ~cleanupErr /\ Faulty /\ Returns("write failed", "none")
       \/ packet \in Handoff /\ ~cleanupErr /\ Returns("submitted", packet)
       \/ packet \in Packet \ Handoff /\ ~cleanupErr /\ Returns("terminal", packet)
    /\ UNCHANGED <<httpVars, arbiterVars, eventVars, candidate, packet, cleanupErr>>

---------------------------------------------------------------------------
Init ==
    /\ handler = [r \in Request |-> "none"] /\ status = [r \in Request |-> "none"]
    /\ listening = TRUE /\ severed = FALSE
    /\ committed = FALSE /\ packets = {} /\ winner = "none"
    /\ done = "serving" /\ launcher = "off" /\ expired = FALSE /\ ctxDone = FALSE
    /\ session = "opening" /\ candidate = "none" /\ packet = "none"
    /\ cleanupErr = FALSE /\ printed = "none" /\ result = "none"

Serving == \E r \in Request : Admit(r) \/ Decide(r) \/ Respond(r)

Outside == ServeEnds \/ LauncherEnds \/ TimerFires \/ ContextEnds

Selects == SelectsHandoff \/ SelectsTimer \/ SelectsContext \/ SelectsDone
           \/ SelectsLauncher

Session == OpensBrowser \/ Selects \/ Commits \/ ReadsTerminal \/ Shutdown
           \/ Drains \/ WaitsForDone \/ Finishes

Next == Serving \/ Outside \/ Session

Spec == Init /\ [][Next]_vars

\* serveOneShot and the goroutine of Serve are scheduled; a client may leave its
\* handler waiting for a body for ever, and the timer need not be near.
Fairness == WF_vars(Session) /\ WF_vars(ServeEnds /\ ~listening)

FairSpec == Spec /\ Fairness

---------------------------------------------------------------------------
\* However timer, context, launcher and requests race, the packet that serveOneShot
\* prints is the one that won the arbiter.
PrintedIsWinner == printed # "none" => printed = winner

\* A client told 200 for its handoff or cancellation finds that packet in the output,
\* and one told 410 does not, unless the session reports a failed server or stdout;
\* a session that ends because the launcher failed accepted nobody.
AcceptedIsPrinted ==
    result \in {"submitted", "terminal", "launch failed"} =>
        \A r \in Handoff \cup Cancel :
            /\ status[r] = "200" => printed = r
            /\ status[r] = "410" => printed # r

\* Nothing is printed before the server is down: its listener closed, its handlers
\* finished or cut off, and the result of Serve received.
PrintedAfterClose ==
    printed # "none" =>
        /\ ~listening /\ done = "taken"
        /\ severed \/ InFlight(Request) = {}

\* Once somebody has won, or the timer or the context has ended, serveOneShot returns:
\* neither the packet channel, nor Shutdown, nor Done blocks it for good.
OutcomeEndsSession == (committed \/ expired \/ ctxDone) ~> result # "none"
===========================================================================

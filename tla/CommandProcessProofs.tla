------------------------ MODULE CommandProcessProofs ------------------------
(***************************************************************************)
(* The safety of the two components in which a command of the tool has an  *)
(* operator on the other end.  OneShotSession, for any set of requests:    *)
(* whoever wins the arbiter is told so, everybody else is told that they   *)
(* lost, and the session closes the server before it prints the winner's   *)
(* packet.  TransactionClients, for any number of processes, versions and  *)
(* troubles: no owner's bytes are overwritten, no answer contradicts the   *)
(* repository, one signal is answered, and each client finds its own       *)
(* transactions atomic.                                                    *)
(***************************************************************************)
EXTENDS OneShotSession, TransactionClientsRefinement, TLAPS

-----------------------------------------------------------------------------
(* The browser session.                                                    *)

Outcomes == Handoff \cup Cancel

HandlerStates == {"none", "reading", "won", "lost", "rejected", "returned"}
Codes == {"none", "200", "400", "410", "429", "severed"}

ShapeInv ==
    /\ handler \in [Request -> HandlerStates]
    /\ status \in [Request -> Codes]
    /\ candidate \in {"none", "expired", "cancelled", "nothing"}

\* The arbiter and its channel, and what the handlers conclude from it.
ArbiterInv ==
    /\ committed <=> winner # "none"
    /\ packets \subseteq {winner} \ {"none"}
    /\ \A r \in Outcomes :
          /\ winner = r => handler[r] \in {"won", "returned"}
          /\ handler[r] = "won"  => winner = r
          /\ handler[r] = "lost" => committed /\ winner # r
          /\ status[r] = "200"   => winner = r
          /\ status[r] = "410"   => committed /\ winner # r

\* What serveOneShot knows at each stage.
ChoiceInv ==
    /\ packet # "none" => packet = winner
    /\ session \in {"opening", "selecting", "committing", "reading"} => packet = "none"
    /\ session = "committing" => candidate # "none"
    /\ session # "returned" => result = "none" /\ printed = "none"
    /\ result \in {"submitted", "terminal"} => printed = packet /\ packet # "none"
    /\ result = "launch failed" => packet = "nothing"
    /\ printed # "none" => result \in {"submitted", "terminal"} /\ ~cleanupErr

\* How far the server is closed at each stage.
CloseInv ==
    /\ session \in {"draining", "waiting", "finishing", "returned"} => ~listening
    /\ session \in {"waiting", "finishing", "returned"} =>
          severed \/ InFlight(Request) = {}
    /\ session \in {"finishing", "returned"} /\ packet # "none" /\ ~cleanupErr =>
          done = "taken"

Inv == ShapeInv /\ ArbiterInv /\ ChoiceInv /\ CloseInv

LEMMA Init_Inv == Init => Inv
<1> SUFFICES ASSUME Init PROVE Inv
  OBVIOUS
<1>1. ShapeInv
  BY DEF Init, ShapeInv, HandlerStates, Codes
<1>2. ArbiterInv
  BY RoutesAssumption DEF Init, ArbiterInv, Outcomes, Request
<1>3. ChoiceInv /\ CloseInv
  BY DEF Init, ChoiceInv, CloseInv
<1> QED BY <1>1, <1>2, <1>3 DEF Inv

---------------------------------------------------------------------------
\* A successful commit keeps every conclusion: nobody had drawn one before.
LEMMA WinsInv ==
    ASSUME Inv, NEW p, Wins(p), p # "none",
           \A r \in Outcomes :
              /\ handler'[r] = "won" => handler[r] = "won" \/ p = r
              /\ handler'[r] = "lost" => handler[r] = "lost"
              /\ p = r => handler'[r] = "won",
           UNCHANGED status
    PROVE  ArbiterInv'
<1>1. ~committed /\ winner = "none" /\ packets = {}
  BY DEF Wins, Inv, ArbiterInv
<1>2. committed' /\ winner' = p /\ packets' \subseteq {p} \ {"none"}
  BY <1>1 DEF Wins
<1>3. ASSUME NEW r \in Outcomes
      PROVE  /\ winner' = r => handler'[r] \in {"won", "returned"}
             /\ handler'[r] = "won" => winner' = r
             /\ handler'[r] = "lost" => committed' /\ winner' # r
             /\ status'[r] = "200" => winner' = r
             /\ status'[r] = "410" => committed' /\ winner' # r
  <2>1. r # "none"
    BY RoutesAssumption DEF Outcomes, Request
  <2> QED BY <1>1, <1>2, <2>1 DEF Inv, ArbiterInv
<1> QED BY <1>2, <1>3 DEF ArbiterInv, Outcomes

\* The steps of the handlers.
LEMMA ServingInv ==
    ASSUME Inv, NEW r \in Request, Admit(r) \/ Decide(r) \/ Respond(r)
    PROVE  Inv'
<1> USE DEF Inv
<1>1. /\ handler \in [Request -> HandlerStates]
      /\ status \in [Request -> Codes]
  BY DEF ShapeInv
<1>2. CASE Admit(r)
  <2>1. ShapeInv'
    BY <1>1, <1>2 DEF Admit, Answer, ShapeInv, HandlerStates, Codes, arbiterVars, eventVars, ownVars, Packet
  <2>2. ArbiterInv'
    BY <1>1, <1>2 DEF Admit, Answer, ArbiterInv, Outcomes, Request, arbiterVars
  <2>3. ChoiceInv'
    BY <1>2 DEF Admit, ChoiceInv, arbiterVars, ownVars
  <2>4. CloseInv'
    BY <1>2 DEF Admit, Connected, CloseInv, eventVars, ownVars
  <2> QED BY <2>1, <2>2, <2>3, <2>4
<1>3. CASE Decide(r)
  <2>1. handler' \in [Request -> HandlerStates]
    BY <1>1, <1>3 DEF Decide, HandlerStates
  <2>2. ShapeInv'
    BY <1>3, <2>1 DEF Decide, Wins, Loses, ShapeInv, arbiterVars, eventVars, ownVars,
                      Packet, Request
  <2>3. ArbiterInv'
    <3>1. CASE r \notin Query /\ Wins(r) /\ handler' = [handler EXCEPT ![r] = "won"]
      BY <1>1, <1>3, <3>1, WinsInv, RoutesAssumption DEF Decide, Outcomes, Request
    <3>2. CASE UNCHANGED arbiterVars /\ handler' = [handler EXCEPT ![r] = "rejected"]
      BY <1>1, <1>3, <3>2 DEF Decide, ArbiterInv, Outcomes, Request, arbiterVars
    <3>3. CASE /\ UNCHANGED arbiterVars /\ r \in Query
               /\ handler' = [handler EXCEPT ![r] = "won"]
      BY <1>1, <1>3, <3>3, RoutesAssumption
         DEF Decide, ArbiterInv, Outcomes, Request, arbiterVars
    <3>4. CASE r \notin Query /\ Loses /\ handler' = [handler EXCEPT ![r] = "lost"]
      BY <1>1, <1>3, <3>4 DEF Decide, Loses, ArbiterInv, Outcomes, Request, arbiterVars
    <3> QED BY <1>3, <3>1, <3>2, <3>3, <3>4 DEF Decide
  <2>4. ChoiceInv'
    BY <1>3 DEF Decide, Wins, Loses, ChoiceInv, ArbiterInv, ShapeInv, arbiterVars,
                ownVars
  <2>5. CloseInv'
    BY <1>1, <1>3 DEF Decide, CloseInv, InFlight, eventVars, ownVars
  <2> QED BY <2>2, <2>3, <2>4, <2>5
<1>4. CASE Respond(r)
  <2>1. Code(r) \in {"200", "400", "410"}
    BY <1>4 DEF Respond, Code
  <2>2. ShapeInv'
    BY <1>1, <1>4, <2>1 DEF Respond, Answer, ShapeInv, HandlerStates, Codes, arbiterVars, eventVars, ownVars, Packet
  <2>3. /\ Code(r) = "200" => handler[r] = "won"
        /\ Code(r) = "410" => handler[r] = "lost"
    BY <1>4 DEF Respond, Code
  <2>4. ArbiterInv'
    BY <1>1, <1>4, <2>3 DEF Respond, Answer, ArbiterInv, Outcomes, Request, arbiterVars
  <2>5. ChoiceInv'
    BY <1>4 DEF Respond, ChoiceInv, arbiterVars, ownVars
  <2>6. CloseInv'
    BY <1>1, <1>4 DEF Respond, Answer, CloseInv, InFlight, eventVars, ownVars
  <2> QED BY <2>2, <2>4, <2>5, <2>6
<1> QED BY <1>2, <1>3, <1>4

---------------------------------------------------------------------------
\* The server, the launcher, the timer and the context.
LEMMA OutsideInv == ASSUME Inv, Outside PROVE Inv'
<1> USE DEF Inv, httpVars, arbiterVars, ownVars
<1>1. ShapeInv'
  BY DEF Outside, ServeEnds, LauncherEnds, TimerFires, ContextEnds, ShapeInv
<1>2. UNCHANGED <<handler, status, severed, arbiterVars, ownVars>>
  BY DEF Outside, ServeEnds, LauncherEnds, TimerFires, ContextEnds
<1>3. /\ listening' => listening
      /\ done = "taken" => done' = "taken"
  BY DEF Outside, ServeEnds, LauncherEnds, TimerFires, ContextEnds
<1>4. ArbiterInv' /\ ChoiceInv'
  BY <1>2 DEF ArbiterInv, ChoiceInv, Outcomes
<1>5. CloseInv'
  BY <1>2, <1>3 DEF CloseInv, InFlight
<1> QED BY <1>1, <1>4, <1>5

---------------------------------------------------------------------------
\* serveOneShot takes the winner from the channel.
LEMMA TakesInv ==
    ASSUME Inv, Takes, session \in {"selecting", "reading"} PROVE Inv'
<1> USE DEF Inv, Takes, GoesOn, httpVars, eventVars
<1>1. ShapeInv'
  BY DEF ShapeInv
<1>2. ArbiterInv'
  BY DEF ArbiterInv, Outcomes
<1>3. ChoiceInv' /\ CloseInv'
  BY DEF ChoiceInv, CloseInv, ArbiterInv
<1> QED BY <1>1, <1>2, <1>3

LEMMA WantsInv ==
    ASSUME Inv, NEW p \in {"expired", "cancelled", "nothing"}, Wants(p),
           session \in {"opening", "selecting"}
    PROVE  Inv'
<1> USE DEF Inv, Wants, httpVars, arbiterVars
<1>1. ShapeInv'
  BY DEF ShapeInv
<1>2. ArbiterInv'
  BY DEF ArbiterInv, Outcomes
<1>3. ChoiceInv' /\ CloseInv'
  BY DEF ChoiceInv, CloseInv
<1> QED BY <1>1, <1>2, <1>3

LEMMA SelectsInv == ASSUME Inv, OpensBrowser \/ Selects PROVE Inv'
<1> USE DEF Inv
<1>1. CASE OpensBrowser
  <2>1. CASE Wants("nothing") /\ UNCHANGED launcher
    BY <1>1, <2>1, WantsInv DEF OpensBrowser, ShapeInv
  <2>2. CASE session' = "selecting"
    <3>1. ShapeInv'
      BY <1>1, <2>2 DEF OpensBrowser, Wants, ShapeInv, httpVars, arbiterVars
    <3>2. ArbiterInv' /\ ChoiceInv' /\ CloseInv'
      BY <1>1, <2>2 DEF OpensBrowser, Wants, ArbiterInv, ChoiceInv, CloseInv, Outcomes,
                        httpVars, arbiterVars
    <3> QED BY <3>1, <3>2
  <2> QED BY <1>1, <2>1, <2>2 DEF OpensBrowser
<1>2. CASE SelectsHandoff
  BY <1>2, TakesInv DEF SelectsHandoff
<1>3. CASE SelectsTimer \/ SelectsContext
  BY <1>3, WantsInv DEF SelectsTimer, SelectsContext, ShapeInv
<1>4. CASE SelectsDone
  <2>1. ShapeInv'
    BY <1>4 DEF SelectsDone, ShapeInv, httpVars, arbiterVars
  <2>2. ArbiterInv' /\ ChoiceInv' /\ CloseInv'
    BY <1>4 DEF SelectsDone, ArbiterInv, ChoiceInv, CloseInv, Outcomes, httpVars, arbiterVars
  <2> QED BY <2>1, <2>2
<1>5. CASE SelectsLauncher
  <2>1. CASE Wants("nothing")
    BY <1>5, <2>1, WantsInv DEF SelectsLauncher
  <2>2. CASE UNCHANGED <<httpVars, arbiterVars, done, expired, ctxDone, ownVars>>
    <3>1. ShapeInv'
      BY <1>5, <2>2 DEF SelectsLauncher, ShapeInv, httpVars, arbiterVars, ownVars
    <3>2. ArbiterInv' /\ ChoiceInv' /\ CloseInv'
      BY <2>2 DEF ArbiterInv, ChoiceInv, CloseInv, InFlight, Outcomes, httpVars,
                  arbiterVars, ownVars
    <3> QED BY <3>1, <3>2
  <2> QED BY <1>5, <2>1, <2>2 DEF SelectsLauncher
<1> QED BY <1>1, <1>2, <1>3, <1>4, <1>5 DEF Selects

LEMMA CommitsInv == ASSUME Inv, Commits PROVE Inv'
<1> USE DEF Inv, Commits, GoesOn, httpVars, eventVars
<1>1. candidate \in {"expired", "cancelled", "nothing"}
  BY DEF ShapeInv, ChoiceInv
<1>2. ShapeInv'
  BY <1>1 DEF ShapeInv, Wins, Loses, arbiterVars
<1>3. ArbiterInv'
  <2>1. CASE Wins(candidate)
    BY <1>1, <2>1, WinsInv, RoutesAssumption DEF Outcomes, Request
  <2>2. CASE Loses
    BY <2>2 DEF Loses, ArbiterInv, arbiterVars, Outcomes
  <2> QED BY <2>1, <2>2
<1>4. ChoiceInv' /\ CloseInv'
  BY <1>1 DEF ChoiceInv, CloseInv, Wins, Loses, arbiterVars
<1> QED BY <1>2, <1>3, <1>4

\* The close of the server, and what is printed after it.
LEMMA ClosingInv ==
    ASSUME Inv, Shutdown \/ Drains \/ WaitsForDone \/ Finishes PROVE Inv'
<1> USE DEF Inv, httpVars, arbiterVars, eventVars
<1>1. CASE Shutdown
  <2>1. ShapeInv'
    BY <1>1 DEF Shutdown, ShapeInv
  <2>2. ArbiterInv' /\ ChoiceInv' /\ CloseInv'
    BY <1>1 DEF Shutdown, ArbiterInv, ChoiceInv, CloseInv, Outcomes
  <2> QED BY <2>1, <2>2
<1>2. CASE Drains
  <2>1. session' \in {"finishing", "waiting"} /\ (packet # "none" => session' = "waiting")
    BY <1>2 DEF Drains, AfterDrain
  <2>3. ShapeInv'
    BY <1>2 DEF Drains, ShapeInv
  <2>4. ArbiterInv' /\ ChoiceInv'
    BY <1>2, <2>1 DEF Drains, ArbiterInv, ChoiceInv, Outcomes
  <2>5. severed' \/ InFlight(Request)' = {}
    BY <1>2 DEF Drains, Drained, InFlight
  <2>6. CloseInv'
    BY <1>2, <2>1, <2>5 DEF Drains, CloseInv
  <2> QED BY <2>3, <2>4, <2>6
<1>3. CASE WaitsForDone
  <2>2. ShapeInv'
    BY <1>3 DEF WaitsForDone, ShapeInv
  <2>3. ArbiterInv' /\ ChoiceInv'
    BY <1>3 DEF WaitsForDone, ArbiterInv, ChoiceInv, Outcomes
  <2>4. cleanupErr' \/ done' = "taken"
    BY <1>3 DEF WaitsForDone
  <2>5. CloseInv'
    BY <1>3, <2>4 DEF WaitsForDone, CloseInv, InFlight
  <2> QED BY <2>2, <2>3, <2>5
<1>4. CASE Finishes
  <2>1. ShapeInv'
    BY <1>4 DEF Finishes, Returns, ShapeInv
  <2>2. ArbiterInv'
    BY <1>4 DEF Finishes, ArbiterInv, Outcomes
  <2>4. "none" \notin Packet /\ Handoff \subseteq Packet
    BY RoutesAssumption DEF Packet, Request
  <2>5. ChoiceInv'
    BY <1>4, <2>4 DEF Finishes, Returns, ChoiceInv
  <2>6. CloseInv'
    BY <1>4 DEF Finishes, CloseInv, InFlight
  <2> QED BY <2>1, <2>2, <2>5, <2>6
<1> QED BY <1>1, <1>2, <1>3, <1>4

LEMMA Next_Inv == Inv /\ [Next]_vars => Inv'
<1> SUFFICES ASSUME Inv, [Next]_vars PROVE Inv'
  OBVIOUS
<1>1. CASE Serving
  BY <1>1, ServingInv DEF Serving
<1>2. CASE Outside
  BY <1>2, OutsideInv
<1>3. CASE Session
  BY <1>3, SelectsInv, CommitsInv, TakesInv, ClosingInv DEF Session, ReadsTerminal
<1>4. CASE UNCHANGED vars
  BY <1>4 DEF Inv, ShapeInv, ArbiterInv, ChoiceInv, CloseInv, InFlight, Outcomes, Packet,
              vars, httpVars, arbiterVars, eventVars, ownVars
<1> QED BY <1>1, <1>2, <1>3, <1>4 DEF Next

THEOREM Invariant == Spec => []Inv
<1>1. Init => Inv
  BY Init_Inv
<1>2. Inv /\ [Next]_vars => Inv'
  BY Next_Inv
<1> QED BY <1>1, <1>2, PTL DEF Spec

---------------------------------------------------------------------------
\* The session prints only the packet that won (serveOneShot,
\* commitOrReadTerminal), for any number of concurrent requests.
THEOREM WinnerIsPrinted == Spec => []PrintedIsWinner
<1>1. Inv => PrintedIsWinner
  BY RoutesAssumption DEF Inv, ChoiceInv, PrintedIsWinner
<1> QED BY <1>1, Invariant, PTL

\* A client is told 200 only for the packet that is printed, and 410 only for
\* one that is not (serveHandoff, serveCancel, finishOneShot).
THEOREM AcceptanceIsHonoured == Spec => []AcceptedIsPrinted
<1>1. Inv => AcceptedIsPrinted
  <2> SUFFICES ASSUME Inv, result \in {"submitted", "terminal", "launch failed"},
                      NEW r \in Handoff \cup Cancel
               PROVE  /\ status[r] = "200" => printed = r
                      /\ status[r] = "410" => printed # r
    BY DEF AcceptedIsPrinted
  <2>1. r \notin {"none", "nothing"}
    BY RoutesAssumption DEF Request
  <2>2. /\ status[r] = "200" => winner = r
        /\ status[r] = "410" => winner # r
    BY DEF Inv, ArbiterInv, Outcomes
  <2> QED BY <2>1, <2>2 DEF Inv, ChoiceInv
<1> QED BY <1>1, Invariant, PTL

\* Nothing is printed while the server can still answer (closeAndWaitServer
\* before writeOneShotPacket).
THEOREM CloseComesFirst == Spec => []PrintedAfterClose
<1>1. Inv => PrintedAfterClose
  BY DEF Inv, ChoiceInv, CloseInv, PrintedAfterClose
<1> QED BY <1>1, Invariant, PTL

-----------------------------------------------------------------------------
(* The commands that drive the repository transaction engine.              *)

Asking  == {"replan", "replay", "engine", "recover"}
Moving  == {"forward", "retreat", "recovering"}
Holding == Moving \cup {"archive", "compact"}

Approved(tx) == \E plan \in reviewed : plan.tx = tx

\* What an approved plan goes between: the bytes of versions, and nothing.
ProperPlan(plan) ==
    /\ plan.tx.client \in Client
    /\ \A i \in Target[plan.tx.client] :
          plan.tx.before[i] # "foreign" /\ plan.tx.after[i] # "foreign"

\* The records that steps update field by field.
RecordsWhole ==
    /\ engine = [tx |-> engine.tx, ready |-> engine.ready,
                 decided |-> engine.decided, selected |-> engine.selected]
    /\ terminal = [tx |-> terminal.tx, outcome |-> terminal.outcome,
                   compact |-> terminal.compact]
    /\ spent \in [runs : Nat, edits : Nat, faults : Nat, signals : Nat]
    /\ run = [p \in Process |-> run[p]]
    /\ scope = [p \in Process |-> scope[p]]
    /\ signals \in [Process -> Nat]
    /\ file = [i \in DOMAIN file |-> file[i]]

SignalsCounted ==
    \A p \in Process : scope[p] \in {"cancelled", "restored"} => signals[p] > 0

\* The last decision is what the engine, and after it the receipt, says.
DecisionKnown ==
    /\ engine.decided \in {"none", "applied", "rolled_back"}
    /\ engine.decided # "none" => Decided(engine.tx, engine.decided)
    /\ engine.tx = NoTx => /\ engine.decided = "none"
                           /\ Decided(terminal.tx, terminal.outcome)

PlansKnown ==
    /\ \A plan \in reviewed : ProperPlan(plan)
    /\ engine.tx # NoTx => Approved(engine.tx)

\* What a command asks of the engine before it holds the lock.
Asks(p) ==
    run[p].pc \in Asking =>
        /\ Approved(run[p].tx)
        /\ run[p].pc # "recover" => run[p].kind = "apply"

\* What it works on while it holds the lock.
Works(p) ==
    run[p].pc \in Holding =>
        /\ holder = p
        /\ run[p].pc # "compact" => engine.tx = run[p].tx /\ engine.tx # NoTx
        /\ run[p].pc \in Moving => run[p].todo \subseteq Changed(engine.tx)
        /\ run[p].pc \in {"forward", "retreat"} => run[p].kind = "apply"

\* What it has decided, or found decided.
Knows(p) ==
    /\ run[p].pc = "archive" =>
          /\ engine.decided # "none"
          /\ run[p].kind # "apply" => engine.decided = Outcome(run[p].op)
          /\ p \in moved => engine.decided = "applied"
    /\ run[p].pc = "compact" =>
          /\ engine.tx = NoTx /\ terminal.tx = run[p].tx
          /\ terminal.outcome \in {"applied", "rolled_back"}
          /\ run[p].kind # "apply" => terminal.outcome = Outcome(run[p].op)
          /\ p \in moved => terminal.outcome = "applied"
    /\ p \in moved => run[p].pc \in {"archive", "compact", "write"}

RunWhole(p) ==
    run[p].pc \in Asking \cup Holding => {"pc", "kind", "op", "tx"} \subseteq DOMAIN run[p]

CommandInv(p) == RunWhole(p) /\ Asks(p) /\ Works(p) /\ Knows(p)

ClientsInv ==
    /\ RecordsWhole /\ SignalsCounted /\ DecisionKnown /\ PlansKnown
    /\ \A p \in Process : CommandInv(p)

-----------------------------------------------------------------------------
(* The run of a process is its own.                                        *)

OnlyRunOf(p) ==
    /\ run' = [q \in Process |-> run'[q]]
    /\ \A q \in Process : q # p => run'[q] = run[q]

LEMMA RunUpdate ==
    ASSUME NEW p \in Process, RecordsWhole, NEW x, run' = [run EXCEPT ![p] = x]
    PROVE  OnlyRunOf(p) /\ run'[p] = x
BY DEF OnlyRunOf, RecordsWhole

LEMMA RunStutter ==
    ASSUME NEW p \in Process, RecordsWhole, UNCHANGED run
    PROVE  OnlyRunOf(p) /\ run'[p] = run[p]
BY DEF OnlyRunOf, RecordsWhole

LEMMA RepliesRun ==
    ASSUME NEW p \in Process, RecordsWhole, NEW state, NEW reason, NEW tx,
           Reply(p, state, reason, tx)
    PROVE  /\ OnlyRunOf(p)
           /\ run'[p] = [pc |-> "write", state |-> state, reason |-> reason, tx |-> tx]
BY RunUpdate DEF Reply

LEMMA GoesRun ==
    ASSUME NEW p \in Process, RecordsWhole, RunWhole(p), run[p].pc \in Asking \cup Holding,
           NEW pc, Goto(p, pc)
    PROVE  /\ OnlyRunOf(p)
           /\ run'[p].pc = pc /\ run'[p].kind = run[p].kind
           /\ run'[p].op = run[p].op /\ run'[p].tx = run[p].tx
           /\ DOMAIN run'[p] = DOMAIN run[p]
<1>1. run' = [run EXCEPT ![p] = [run[p] EXCEPT !.pc = pc]]
  BY DEF Goto
<1>2. OnlyRunOf(p) /\ run'[p] = [run[p] EXCEPT !.pc = pc]
  BY <1>1, RunUpdate
<1>3. {"pc", "kind", "op", "tx"} \subseteq DOMAIN run[p]
  BY DEF RunWhole
<1> QED BY <1>2, <1>3

LEMMA WorksRun ==
    ASSUME NEW p \in Process, RecordsWhole, NEW pc, NEW targets, Work(p, pc, targets)
    PROVE  /\ OnlyRunOf(p)
           /\ run'[p] = [pc |-> pc, kind |-> run[p].kind, op |-> run[p].op,
                         tx |-> run[p].tx, todo |-> targets]
BY RunUpdate DEF Work

LEMMA EndsRun ==
    ASSUME NEW p \in Process, RecordsWhole, End(p)
    PROVE  OnlyRunOf(p) /\ run'[p] = Idle
BY RunUpdate DEF End

-----------------------------------------------------------------------------
(* Plans.                                                                  *)

\* A client accepts no plan over bytes that no version wrote.
LEMMA AcceptedIsOwn ==
    ASSUME NEW client \in Client, NEW v \in Version, NEW op, NEW current \in BOOLEAN,
           Conflict(op, v, PlanTransaction(client, op, v, file), current) = ""
    PROVE  \A i \in Target[client] :
              PlanTransaction(client, op, v, file).before[i] # "foreign"
<1> DEFINE tx == PlanTransaction(client, op, v, file)
<1>0. tx.client = client
  BY DEF PlanTransaction
<1>1. CASE client = "integration"
  <2>1. RecognizeLifecyclePair(op, v, tx) = ""
    BY <1>0, <1>1 DEF Conflict
  <2>2. Target[client] = {"bootstrap", "baseline"}
    BY <1>1 DEF Target
  <2>3. v # "foreign"
    BY VersionAssumption
  <2> HIDE DEF tx
  <2>4. tx.before["bootstrap"] # "foreign" /\ tx.before["baseline"] # "foreign"
    BY <2>1, <2>3 DEF RecognizeLifecyclePair
  <2> QED BY <2>2, <2>4 DEF tx
<1>2. CASE client = "materialize"
  <2>1. RecognizeArtifacts(v, tx, current) = ""
    BY <1>0, <1>2 DEF Conflict
  <2> HIDE DEF tx
  <2>2. \A i \in Target["materialize"] : tx.before[i] # "foreign"
    BY <2>1 DEF RecognizeArtifacts
  <2> QED BY <1>2, <2>2 DEF tx
<1> QED BY <1>1, <1>2 DEF Client

LEMMA ConflictsAreNamed ==
    ASSUME NEW op, NEW v, NEW tx, NEW current \in BOOLEAN
    PROVE  Conflict(op, v, tx, current) # "transaction_identity_mismatch"
<1>1. RecognizeLifecyclePair(op, v, tx) # "transaction_identity_mismatch"
  BY DEF RecognizeLifecyclePair
<1>2. RecognizeArtifacts(v, tx, current) # "transaction_identity_mismatch"
  BY DEF RecognizeArtifacts
<1> QED BY <1>1, <1>2 DEF Conflict

\* What becomes of an apply that rebuilds its plan.
LEMMA ReplanOutcomes ==
    ASSUME NEW p \in Process, Replan(p)
    PROVE  \/ \E state \in {"error", "blocked"} : \E reason :
                /\ reason # "transaction_identity_mismatch"
                /\ Reply(p, state, reason, NoTx)
           \/ Reply(p, "recovery_required", "pending_transaction_state", PendingTx)
           \/ /\ ~AllAfter(run[p].tx)
              /\ Reply(p, "blocked", "transaction_identity_mismatch", NoTx)
           \/ Goto(p, "replay")
           \/ Goto(p, "engine")
<1>1. PICK v \in Version, current \in BOOLEAN :
         LET r == run[p]
             now == PlanTransaction(r.tx.client, r.op, v, file)
             conflict == Conflict(r.op, v, now, current)
         IN  \/ Cancelled(p) /\ Reply(p, "error", "cancelled", NoTx)
             \/ /\ ~Cancelled(p) /\ holder # Nobody
                /\ Reply(p, BusyState(r.tx.client, "replan"), "transaction_busy", NoTx)
             \/ /\ ~Cancelled(p) /\ holder = Nobody /\ Pending
                /\ Reply(p, "recovery_required", "pending_transaction_state", PendingTx)
             \/ /\ ~Cancelled(p) /\ holder = Nobody /\ ~Pending
                /\ \/ conflict # "" /\ Reply(p, RefusedState(r.tx.client), conflict, NoTx)
                   \/ /\ conflict = "" /\ now.after # r.tx.after
                      /\ Reply(p, "blocked", "desired_state_identity_mismatch", NoTx)
                   \/ /\ conflict = "" /\ now.after = r.tx.after /\ now # r.tx /\ HasChanges(now)
                      /\ Reply(p, "blocked", "transaction_identity_mismatch", NoTx)
                   \/ /\ conflict = "" /\ now.after = r.tx.after /\ now # r.tx /\ ~HasChanges(now)
                      /\ Goto(p, "replay")
                   \/ conflict = "" /\ now = r.tx /\ Goto(p, "engine")
  BY Zenon DEF Replan
<1> DEFINE tx == run[p].tx
           now == PlanTransaction(tx.client, run[p].op, v, file)
           conflict == Conflict(run[p].op, v, now, current)
<1>2. BusyState(tx.client, "replan") \in {"error", "blocked"}
  BY DEF BusyState
<1>3. RefusedState(tx.client) \in {"error", "blocked"}
  BY DEF RefusedState
<1>4. conflict # "transaction_identity_mismatch"
  BY ConflictsAreNamed
<1>5. now.after = tx.after /\ HasChanges(now) => ~AllAfter(tx)
  <2> SUFFICES ASSUME now.after = tx.after, AllAfter(tx)
               PROVE  now.before = now.after
    BY DEF HasChanges
  <2>1. now.before = [i \in Target[tx.client] |-> file[i]]
    BY DEF PlanTransaction
  <2>2. now.after = [i \in Target[tx.client] |-> IF run[p].op = "remove" THEN "absent" ELSE v]
    BY DEF PlanTransaction
  <2> HIDE DEF now
  <2>3. \A i \in Target[tx.client] : file[i] = now.after[i]
    BY DEF AllAfter
  <2> QED BY <2>1, <2>2, <2>3
<1> HIDE DEF tx, now, conflict
<1>6. CASE conflict # "" /\ Reply(p, RefusedState(tx.client), conflict, NoTx)
  BY <1>3, <1>4, <1>6
<1>7. CASE Reply(p, "blocked", "desired_state_identity_mismatch", NoTx)
  BY <1>7
<1>8. CASE now.after = tx.after /\ HasChanges(now)
           /\ Reply(p, "blocked", "transaction_identity_mismatch", NoTx)
  BY <1>5, <1>8 DEF tx
<1>9. CASE Reply(p, "error", "cancelled", NoTx)
  BY <1>9
<1>10. CASE Reply(p, BusyState(tx.client, "replan"), "transaction_busy", NoTx)
  BY <1>2, <1>10
<1>11. \/ Reply(p, "error", "cancelled", NoTx)
       \/ Reply(p, BusyState(tx.client, "replan"), "transaction_busy", NoTx)
       \/ Reply(p, "recovery_required", "pending_transaction_state", PendingTx)
       \/ conflict # "" /\ Reply(p, RefusedState(tx.client), conflict, NoTx)
       \/ Reply(p, "blocked", "desired_state_identity_mismatch", NoTx)
       \/ /\ now.after = tx.after /\ HasChanges(now)
          /\ Reply(p, "blocked", "transaction_identity_mismatch", NoTx)
       \/ Goto(p, "replay")
       \/ Goto(p, "engine")
  BY <1>1 DEF tx, now, conflict
<1> QED BY <1>6, <1>7, <1>8, <1>9, <1>10, <1>11

-----------------------------------------------------------------------------
(* The shapes of the records.                                              *)

\* A step of a command moves its own run only, and the steps that move one on
\* keep what it asks.
LEMMA OwnRunOnly ==
    ASSUME RecordsWhole, NEW p \in Process, RunWhole(p), CommandStep(p)
    PROVE  OnlyRunOf(p)
<1>1. CASE StartApply(p) \/ StartRecover(p)
  BY <1>1, RunUpdate DEF StartApply, StartRecover, Start
<1>2. CASE Replan(p)
  <2>1. run[p].pc \in Asking
    BY <1>2 DEF Replan, Asking
  <2> QED BY <1>2, <2>1, ReplanOutcomes, RepliesRun, GoesRun
<1>3. CASE ReplayApplied(p)
  BY <1>3, RepliesRun DEF ReplayApplied
<1>4. CASE Journal(p)
  BY <1>4, RepliesRun, WorksRun DEF Journal
<1>5. CASE WriteReady(p) \/ Restore(p)
  BY <1>5, RunStutter DEF WriteReady, Restore
<1>6. CASE Commit(p) \/ RollBack(p) \/ Recovered(p)
  <2>1. Goto(p, "archive") /\ run[p].pc \in Holding
    BY <1>6 DEF Commit, RollBack, Recovered, Settle, Holding, Moving
  <2> QED BY <2>1, GoesRun
<1>7. CASE Retreat(p)
  BY <1>7, WorksRun DEF Retreat
<1>8. CASE Archive(p)
  <2>1. Goto(p, "compact") /\ run[p].pc \in Holding
    BY <1>8 DEF Archive, Holding, Moving
  <2> QED BY <2>1, GoesRun
<1>9. CASE Compact(p) \/ GiveUp(p)
  BY <1>9, RepliesRun DEF Compact, GiveUp
<1>10. CASE Recover(p)
  <2>1. run[p].pc \in Asking
    BY <1>10 DEF Recover, Asking
  <2>2. \/ \E state, reason, tx : Reply(p, state, reason, tx)
        \/ Goto(p, "compact")
        \/ \E pc, targets : Work(p, pc, targets)
    BY <1>10 DEF Recover, RecoverTerminal, RecoverActive
  <2> QED BY <2>1, <2>2, RepliesRun, GoesRun, WorksRun
<1>11. CASE Write(p) \/ Crash(p)
  BY <1>11, EndsRun DEF Write, Crash, Die
<1>12. CASE Signal(p)
  BY <1>12, EndsRun, RunStutter DEF Signal, Die
<1> QED BY <1>1, <1>2, <1>3, <1>4, <1>5, <1>6, <1>7, <1>8, <1>9, <1>10, <1>11, <1>12
        DEF CommandStep

\* The engine and its receipt, as every step leaves them.
LEMMA EngineRecords ==
    ASSUME RecordsWhole, NEW p \in Process, CommandStep(p)
    PROVE  /\ engine' = [tx |-> engine'.tx, ready |-> engine'.ready,
                         decided |-> engine'.decided, selected |-> engine'.selected]
           /\ terminal' = [tx |-> terminal'.tx, outcome |-> terminal'.outcome,
                           compact |-> terminal'.compact]
<1>1. CASE UNCHANGED <<engine, terminal>>
  BY <1>1 DEF RecordsWhole
<1>2. CASE Journal(p) /\ engine' # engine
  BY <1>2 DEF Journal, Untouched, NoEngine, RecordsWhole
<1>3. CASE WriteReady(p) \/ Retreat(p)
  BY <1>3 DEF WriteReady, Retreat, NoReceipt, RecordsWhole
<1>4. CASE Commit(p) \/ RollBack(p) \/ Recovered(p)
  BY <1>4 DEF Commit, RollBack, Recovered, Settle, NoReceipt, RecordsWhole
<1>5. CASE Archive(p) \/ Compact(p)
  BY <1>5 DEF Archive, Compact, NoEngine, RecordsWhole
<1>6. CASE Recover(p) /\ RecoverActive(p)
  BY <1>6 DEF RecoverActive, NoReceipt, RecordsWhole
<1>7. \/ UNCHANGED <<engine, terminal>>
      \/ Journal(p) /\ engine' # engine
      \/ WriteReady(p) \/ Retreat(p) \/ Commit(p) \/ RollBack(p) \/ Recovered(p)
      \/ Archive(p) \/ Compact(p)
      \/ Recover(p) /\ RecoverActive(p)
  BY DEF CommandStep, StartApply, StartRecover, Start, Replan, ReplayApplied, Journal, GiveUp,
         Recover, RecoverTerminal, Write, Signal, Restore, Crash, Die, Untouched
<1> QED BY <1>1, <1>2, <1>3, <1>4, <1>5, <1>6, <1>7

LEMMA SpendCounts ==
    ASSUME RecordsWhole, NEW what \in {"runs", "edits", "faults", "signals"}, Spend(what)
    PROVE  /\ spent' \in [runs : Nat, edits : Nat, faults : Nat, signals : Nat]
           /\ spent'[what] = spent[what] + 1
           /\ \A other \in {"runs", "edits", "faults", "signals"} :
                 other # what => spent'[other] = spent[other]
BY DEF Spend, RecordsWhole

\* What a step of a command does to the counts: only a signal counts as one, and
\* it finds the scope open, or counted before.
LEMMA StepCounts ==
    ASSUME RecordsWhole, NEW p \in Process, CommandStep(p)
    PROVE  /\ spent' \in [runs : Nat, edits : Nat, faults : Nat, signals : Nat]
           /\ spent'.edits = spent.edits
           /\ spent'.signals > spent.signals => Signal(p)
<1>1. CASE UNCHANGED spent
  BY <1>1 DEF RecordsWhole
<1>2. CASE Spend("runs")
  BY <1>2, SpendCounts DEF RecordsWhole
<1>3. CASE Spend("faults")
  BY <1>3, SpendCounts DEF RecordsWhole
<1>4. CASE Signal(p)
  <2>1. Spend("signals")
    BY <1>4 DEF Signal, Trouble
  <2> QED BY <1>4, <2>1, SpendCounts
<1>5. \/ UNCHANGED spent
      \/ Spend("runs") \/ Spend("faults") \/ Signal(p)
  BY DEF CommandStep, StartApply, StartRecover, Start, Replan, ReplayApplied, Journal,
         WriteReady, Commit, Retreat, RollBack, Archive, Compact, GiveUp, Recover, Recovered,
         Write, Restore, Crash, Trouble
<1> QED BY <1>1, <1>2, <1>3, <1>4, <1>5

LEMMA StepScopes ==
    ASSUME RecordsWhole, SignalsCounted, NEW p \in Process, CommandStep(p)
    PROVE  /\ scope' = [q \in Process |-> scope'[q]]
           /\ signals' \in [Process -> Nat]
           /\ SignalsCounted'
<1>1. CASE UNCHANGED <<scope, signals>>
  BY <1>1 DEF RecordsWhole, SignalsCounted
<1>2. CASE scope' = [scope EXCEPT ![p] = "open"] /\ UNCHANGED signals
  BY <1>2 DEF RecordsWhole, SignalsCounted
<1>3. CASE End(p)
  BY <1>3 DEF End, RecordsWhole, SignalsCounted
<1>4. CASE /\ scope' = [scope EXCEPT ![p] = "cancelled"]
           /\ signals' = [signals EXCEPT ![p] = @ + 1]
  BY <1>4 DEF RecordsWhole, SignalsCounted
<1>5. CASE Restore(p)
  BY <1>5 DEF Restore, RecordsWhole, SignalsCounted
<1>6. \/ UNCHANGED <<scope, signals>>
      \/ scope' = [scope EXCEPT ![p] = "open"] /\ UNCHANGED signals
      \/ End(p)
      \/ /\ scope' = [scope EXCEPT ![p] = "cancelled"]
         /\ signals' = [signals EXCEPT ![p] = @ + 1]
      \/ Restore(p)
  BY DEF CommandStep, StartApply, StartRecover, Start, Replan, ReplayApplied, Journal,
         WriteReady, Commit, Retreat, RollBack, Archive, Compact, GiveUp, Recover, Recovered,
         Write, Signal, Crash, Die, Quiet
<1> QED BY <1>1, <1>2, <1>3, <1>4, <1>5, <1>6

\* Targets are moved by the three steps that decide.
Decides(p) == Commit(p) \/ RollBack(p) \/ Recovered(p)

LEMMA OnlyDecisionsMove ==
    ASSUME NEW p \in Process, CommandStep(p), ~Decides(p)
    PROVE  UNCHANGED <<file, last, moved>> \/ (UNCHANGED <<file, last>> /\ End(p))
BY DEF CommandStep, Decides, StartApply, StartRecover, Start, Replan, ReplayApplied, Journal,
       WriteReady, Retreat, Archive, Compact, GiveUp, Recover, Write, Signal, Restore, Crash,
       Die, Untouched

LEMMA DecisionMoves ==
    ASSUME NEW p \in Process, Decides(p)
    PROVE  \E outcome \in {"applied", "rolled_back"} :
              /\ Settle(p, outcome)
              /\ \/ run[p].pc = "forward" /\ outcome = "applied"
                 \/ run[p].pc = "retreat" /\ outcome = "rolled_back"
                 \/ run[p].pc = "recovering" /\ outcome = Outcome(run[p].op)
              /\ UNCHANGED <<holder, reviewed>>
<1>1. Outcome(run[p].op) \in {"applied", "rolled_back"}
  BY DEF Outcome
<1> QED BY <1>1 DEF Decides, Commit, RollBack, Recovered, Quiet

LEMMA RecordsKept ==
    ASSUME RecordsWhole, SignalsCounted, NEW p \in Process, RunWhole(p), CommandStep(p)
    PROVE  RecordsWhole' /\ SignalsCounted'
<1>1. file' = [i \in DOMAIN file' |-> file'[i]]
  <2>1. CASE Decides(p)
    BY <2>1, DecisionMoves DEF Settle
  <2>2. CASE ~Decides(p)
    BY <2>2, OnlyDecisionsMove DEF RecordsWhole
  <2> QED BY <2>1, <2>2
<1>2. run' = [q \in Process |-> run'[q]]
  BY OwnRunOnly DEF OnlyRunOf
<1> QED BY <1>1, <1>2, EngineRecords, StepCounts, StepScopes DEF RecordsWhole

-----------------------------------------------------------------------------
(* What a command knows of the engine.                                     *)

\* A step leaves the engine alone, or has the lock, or takes it.
LEMMA StepFrames ==
    ASSUME NEW p \in Process, Works(p), CommandStep(p)
    PROVE  /\ UNCHANGED reviewed
           /\ moved' \subseteq moved \cup {p}
           /\ holder \in {p, Nobody} \/ UNCHANGED <<engine, terminal, holder>>
<1>1. UNCHANGED reviewed
  BY DEF CommandStep, StartApply, StartRecover, Start, Replan, ReplayApplied, Journal,
         WriteReady, Commit, Retreat, RollBack, Archive, Compact, GiveUp, Recover, Recovered,
         Write, Signal, Restore, Crash, Die, Quiet
<1>2. moved' \subseteq moved \cup {p}
  <2>1. CASE Decides(p)
    BY <2>1, DecisionMoves DEF Settle
  <2>2. CASE ~Decides(p)
    BY <2>2, OnlyDecisionsMove DEF End
  <2> QED BY <2>1, <2>2
<1>3. holder \in {p, Nobody} \/ UNCHANGED <<engine, terminal, holder>>
  BY DEF CommandStep, StartApply, StartRecover, Start, Replan, ReplayApplied, Journal,
         WriteReady, Commit, Retreat, RollBack, Archive, Compact, GiveUp, Recover, Recovered,
         Write, Signal, Restore, Crash, Die, Untouched, Works, Holding, Moving, Free
<1> QED BY <1>1, <1>2, <1>3

LEMMA OthersKeep ==
    ASSUME NEW p \in Process, NEW q \in Process, q # p, CommandInv(q), OnlyRunOf(p),
           UNCHANGED reviewed, moved' \subseteq moved \cup {p},
           holder \in {p, Nobody} \/ UNCHANGED <<engine, terminal, holder>>
    PROVE  CommandInv(q)'
<1>1. run'[q] = run[q] /\ (q \in moved' => q \in moved)
  BY DEF OnlyRunOf
<1>2. RunWhole(q)'
  BY <1>1 DEF CommandInv, RunWhole
<1>3. Asks(q)'
  BY <1>1 DEF CommandInv, Asks, Approved
<1>4. CASE run[q].pc \notin Holding
  BY <1>1, <1>2, <1>3, <1>4 DEF CommandInv, Works, Knows, Holding, Moving
<1>5. CASE run[q].pc \in Holding
  <2>1. holder = q /\ q # Nobody
    BY <1>5, ClientsAssumption DEF CommandInv, Works
  <2>2. UNCHANGED <<engine, terminal, holder>>
    BY <2>1
  <2>3. Works(q)'
    BY <1>1, <2>2 DEF CommandInv, Works, Changed
  <2>4. Knows(q)'
    BY <1>1, <2>2 DEF CommandInv, Knows
  <2> QED BY <1>2, <1>3, <2>3, <2>4 DEF CommandInv
<1> QED BY <1>4, <1>5

\* A command that has answered or ended asks and holds nothing.
LEMMA RestsKnowing ==
    ASSUME NEW p \in Process, run'[p].pc \in {"write", "idle"},
           run'[p].pc = "idle" => p \notin moved'
    PROVE  CommandInv(p)'
BY DEF CommandInv, RunWhole, Asks, Works, Knows, Asking, Holding, Moving

LEMMA ReplyKnows ==
    ASSUME NEW p \in Process, RecordsWhole, NEW state, NEW reason, NEW tx,
           Reply(p, state, reason, tx)
    PROVE  CommandInv(p)'
<1>1. run'[p] = [pc |-> "write", state |-> state, reason |-> reason, tx |-> tx]
  BY RepliesRun
<1> QED BY <1>1, RestsKnowing

LEMMA EndKnows ==
    ASSUME NEW p \in Process, RecordsWhole, End(p)
    PROVE  CommandInv(p)'
<1>1. run'[p] = Idle /\ p \notin moved'
  BY EndsRun DEF End
<1> QED BY <1>1, RestsKnowing DEF Idle

\* A command that has not answered and not decided is not among those that moved.
LEMMA StartKnows ==
    ASSUME NEW p \in Process, RecordsWhole, CommandInv(p), StartApply(p) \/ StartRecover(p)
    PROVE  CommandInv(p)'
<1>1. run[p].pc = "idle" /\ UNCHANGED <<reviewed, moved>>
  BY DEF StartApply, StartRecover, Start
<1>2. p \notin moved'
  BY <1>1 DEF CommandInv, Knows
<1>3. CASE StartApply(p)
  <2>1. PICK plan \in reviewed :
           run' = [run EXCEPT ![p] = [pc |-> "replan", kind |-> "apply", op |-> plan.op,
                                      tx |-> plan.tx]]
    BY <1>3 DEF StartApply, Start
  <2>2. run'[p] = [pc |-> "replan", kind |-> "apply", op |-> plan.op, tx |-> plan.tx]
    BY <2>1, RunUpdate
  <2> QED BY <1>1, <1>2, <2>2
          DEF CommandInv, RunWhole, Asks, Works, Knows, Asking, Holding, Moving, Approved
<1>4. CASE StartRecover(p)
  <2>1. PICK plan \in reviewed, action \in {"resume", "rollback"} :
           run' = [run EXCEPT ![p] = [pc |-> "recover", kind |-> "recover", op |-> action,
                                      tx |-> plan.tx]]
    BY <1>4 DEF StartRecover, Start
  <2>2. run'[p] = [pc |-> "recover", kind |-> "recover", op |-> action, tx |-> plan.tx]
    BY <2>1, RunUpdate
  <2> QED BY <1>1, <1>2, <2>2
          DEF CommandInv, RunWhole, Asks, Works, Knows, Asking, Holding, Moving, Approved
<1> QED BY <1>3, <1>4

LEMMA ReplanKnows ==
    ASSUME NEW p \in Process, RecordsWhole, CommandInv(p), Replan(p)
    PROVE  CommandInv(p)'
<1>1. run[p].pc = "replan" /\ UNCHANGED <<reviewed, moved>>
  BY DEF Replan, Quiet
<1>2. CASE Goto(p, "replay") \/ Goto(p, "engine")
  <2>1. PICK pc \in {"replay", "engine"} : Goto(p, pc)
    BY <1>2
  <2>2. RunWhole(p) /\ run[p].pc \in Asking \cup Holding
    BY <1>1 DEF CommandInv, Asking
  <2>3. /\ run'[p].pc = pc /\ run'[p].kind = run[p].kind
        /\ run'[p].op = run[p].op /\ run'[p].tx = run[p].tx
        /\ DOMAIN run'[p] = DOMAIN run[p]
    BY <2>1, <2>2, GoesRun
  <2>4. RunWhole(p)' /\ Asks(p)'
    BY <1>1, <2>2, <2>3 DEF CommandInv, RunWhole, Asks, Approved, Asking
  <2>5. Works(p)' /\ Knows(p)'
    BY <1>1, <2>3 DEF CommandInv, Works, Knows, Holding, Moving
  <2> QED BY <2>4, <2>5 DEF CommandInv
<1> QED BY <1>2, ReplanOutcomes, ReplyKnows

LEMMA JournalKnows ==
    ASSUME NEW p \in Process, RecordsWhole, PlansKnown, CommandInv(p), Journal(p)
    PROVE  CommandInv(p)'
<1>1. run[p].pc = "engine" /\ UNCHANGED <<reviewed, moved>>
  BY DEF Journal, Quiet
<1>2. CASE engine' = [NoEngine EXCEPT !.tx = run[p].tx] /\ holder' = p
           /\ Work(p, "forward", Changed(run[p].tx))
  <2>1. run'[p] = [pc |-> "forward", kind |-> run[p].kind, op |-> run[p].op,
                   tx |-> run[p].tx, todo |-> Changed(run[p].tx)]
    BY <1>2, WorksRun
  <2>2. engine'.tx = run[p].tx
    BY <1>2 DEF NoEngine
  <2>3. run[p].tx # NoTx
    BY <1>1 DEF PlansKnown, ProperPlan, CommandInv, Asks, Asking, Approved, NoTx, Client
  <2>4. run[p].kind = "apply"
    BY <1>1 DEF CommandInv, Asks, Asking
  <2>5. RunWhole(p)' /\ Asks(p)'
    BY <2>1 DEF RunWhole, Asks, Asking
  <2>6. Works(p)'
    BY <1>2, <2>1, <2>2, <2>3, <2>4 DEF Works, Holding, Moving, Changed
  <2>7. Knows(p)'
    BY <1>1, <2>1 DEF CommandInv, Knows
  <2> QED BY <2>5, <2>6, <2>7 DEF CommandInv
<1>3. CASE \E state, reason, tx : Reply(p, state, reason, tx)
  BY <1>3, ReplyKnows
<1> QED BY <1>2, <1>3 DEF Journal

LEMMA WriteReadyKnows ==
    ASSUME NEW p \in Process, RecordsWhole, CommandInv(p), WriteReady(p)
    PROVE  CommandInv(p)'
<1>1. run[p].pc = "forward" /\ UNCHANGED <<run, reviewed, moved, holder>>
  BY DEF WriteReady, Quiet
<1>2. engine'.tx = engine.tx
  BY DEF WriteReady, RecordsWhole
<1>3. RunWhole(p)' /\ Asks(p)'
  BY <1>1 DEF CommandInv, RunWhole, Asks, Asking
<1>4. Works(p)'
  BY <1>1, <1>2 DEF CommandInv, Works, Changed, Holding, Moving
<1>5. Knows(p)'
  BY <1>1 DEF CommandInv, Knows
<1> QED BY <1>3, <1>4, <1>5 DEF CommandInv

LEMMA DecisionKnows ==
    ASSUME NEW p \in Process, RecordsWhole, CommandInv(p), Decides(p)
    PROVE  /\ CommandInv(p)'
           /\ engine'.tx = engine.tx /\ engine.tx # NoTx
           /\ engine'.decided \in {"applied", "rolled_back"}
           /\ last' = [tx |-> engine'.tx, outcome |-> engine'.decided]
<1>1. PICK outcome \in {"applied", "rolled_back"} :
         /\ Settle(p, outcome)
         /\ \/ run[p].pc = "forward" /\ outcome = "applied"
            \/ run[p].pc = "retreat" /\ outcome = "rolled_back"
            \/ run[p].pc = "recovering" /\ outcome = Outcome(run[p].op)
         /\ UNCHANGED <<holder, reviewed>>
  BY DecisionMoves
<1>2. /\ engine' = [engine EXCEPT !.decided = outcome]
      /\ last' = [tx |-> engine.tx, outcome |-> outcome]
      /\ moved' = IF outcome = "applied" THEN moved \cup {p} ELSE moved
      /\ Goto(p, "archive")
  BY <1>1 DEF Settle
<1>3. engine'.tx = engine.tx /\ engine'.decided = outcome
  BY <1>2 DEF RecordsWhole
<1>4. run[p].pc \in Moving /\ RunWhole(p)
  BY <1>1 DEF CommandInv, Moving
<1>5. holder = p /\ engine.tx = run[p].tx /\ engine.tx # NoTx
  BY <1>4 DEF CommandInv, Works, Holding, Moving
<1>6. /\ run'[p].pc = "archive" /\ run'[p].kind = run[p].kind
      /\ run'[p].op = run[p].op /\ run'[p].tx = run[p].tx
      /\ DOMAIN run'[p] = DOMAIN run[p]
  BY <1>2, <1>4, GoesRun DEF Holding
<1>7. p \notin moved
  BY <1>4 DEF CommandInv, Knows, Moving
<1>8. run[p].pc \in {"forward", "retreat"} => run[p].kind = "apply"
  BY DEF CommandInv, Works, Holding, Moving
<1>9. RunWhole(p)' /\ Asks(p)'
  BY <1>4, <1>6 DEF RunWhole, Asks, Asking, Holding
<1>10. Works(p)'
  BY <1>1, <1>3, <1>5, <1>6 DEF Works, Moving
<1>11. Knows(p)'
  BY <1>1, <1>2, <1>3, <1>6, <1>7, <1>8 DEF Knows, Outcome
<1> QED BY <1>1, <1>2, <1>3, <1>5, <1>9, <1>10, <1>11 DEF CommandInv

LEMMA RetreatKnows ==
    ASSUME NEW p \in Process, RecordsWhole, CommandInv(p), Retreat(p)
    PROVE  CommandInv(p)'
<1>1. /\ run[p].pc = "forward" /\ UNCHANGED <<reviewed, moved, holder, file>>
      /\ Work(p, "retreat", Published(engine.tx))
  BY DEF Retreat, Quiet
<1>2. engine'.tx = engine.tx
  BY DEF Retreat, RecordsWhole
<1>3. run'[p] = [pc |-> "retreat", kind |-> run[p].kind, op |-> run[p].op,
                 tx |-> run[p].tx, todo |-> Published(engine.tx)]
  BY <1>1, WorksRun
<1>4. Published(engine.tx) \subseteq Changed(engine'.tx)
  BY <1>2 DEF Published, Changed
<1>5. RunWhole(p)' /\ Asks(p)'
  BY <1>3 DEF RunWhole, Asks, Asking
<1>6. Works(p)'
  BY <1>1, <1>2, <1>3, <1>4 DEF CommandInv, Works, Changed, Holding, Moving
<1>7. Knows(p)'
  BY <1>1, <1>3 DEF CommandInv, Knows
<1> QED BY <1>5, <1>6, <1>7 DEF CommandInv

LEMMA ArchiveKnows ==
    ASSUME NEW p \in Process, RecordsWhole, DecisionKnown, CommandInv(p), Archive(p)
    PROVE  CommandInv(p)' /\ DecisionKnown'
<1>1. /\ run[p].pc = "archive" /\ UNCHANGED <<reviewed, last, moved, holder>>
      /\ engine' = NoEngine /\ Goto(p, "compact")
      /\ terminal' = [tx |-> engine.tx, outcome |-> engine.decided, compact |-> FALSE]
  BY DEF Archive, Quiet
<1>2. /\ run'[p].pc = "compact" /\ run'[p].kind = run[p].kind
      /\ run'[p].op = run[p].op /\ run'[p].tx = run[p].tx
      /\ DOMAIN run'[p] = DOMAIN run[p]
  BY <1>1, GoesRun DEF CommandInv, Holding
<1>3. engine.tx = run[p].tx /\ holder = p
  BY <1>1 DEF CommandInv, Works, Holding
<1>4. engine'.tx = NoTx /\ engine'.decided = "none"
  BY <1>1 DEF NoEngine
<1>5. engine.decided \in {"applied", "rolled_back"}
  BY <1>1 DEF CommandInv, Knows, DecisionKnown
<1>6. RunWhole(p)' /\ Asks(p)'
  BY <1>1, <1>2 DEF CommandInv, RunWhole, Asks, Asking, Holding
<1>7. Works(p)'
  BY <1>1, <1>2, <1>3 DEF Works, Moving
<1>8. Knows(p)'
  BY <1>1, <1>2, <1>3, <1>4, <1>5 DEF CommandInv, Knows, Outcome
<1>9. DecisionKnown'
  BY <1>1, <1>4, <1>5 DEF DecisionKnown, Decided
<1> QED BY <1>6, <1>7, <1>8, <1>9 DEF CommandInv

LEMMA RecoverKnows ==
    ASSUME NEW p \in Process, RecordsWhole, DecisionKnown, CommandInv(p), Recover(p)
    PROVE  CommandInv(p)'
<1>1. /\ run[p].pc = "recover" /\ UNCHANGED <<reviewed, last, moved, file>>
      /\ RunWhole(p) /\ p \notin moved
  BY DEF Recover, RecoverTerminal, RecoverActive, Untouched, Quiet, CommandInv, Knows
<1>2. CASE \E state, reason, tx : Reply(p, state, reason, tx)
  BY <1>2, ReplyKnows
<1>3. CASE /\ engine.tx = NoTx /\ UNCHANGED <<engine, terminal>>
           /\ terminal.tx = run[p].tx /\ TombstoneSuits(run[p].op)
           /\ holder' = p /\ Goto(p, "compact")
  <2>1. /\ run'[p].pc = "compact" /\ run'[p].kind = run[p].kind
        /\ run'[p].op = run[p].op /\ run'[p].tx = run[p].tx
        /\ DOMAIN run'[p] = DOMAIN run[p]
    BY <1>1, <1>3, GoesRun DEF Asking
  <2>2. RunWhole(p)' /\ Asks(p)'
    BY <1>1, <2>1 DEF RunWhole, Asks, Asking, Holding
  <2>3. Works(p)'
    BY <1>3, <2>1 DEF Works, Moving
  <2>4. Knows(p)'
    BY <1>1, <1>3, <2>1 DEF Knows, TombstoneSuits, Outcome
  <2> QED BY <2>2, <2>3, <2>4 DEF CommandInv
<1>4. CASE /\ engine.tx # NoTx /\ engine.tx = run[p].tx /\ Suits(run[p].op)
           /\ engine' = [engine EXCEPT !.selected = IF engine.decided = "none"
                                                    THEN run[p].op ELSE @]
           /\ holder' = p
           /\ Work(p, IF engine.decided = "none" THEN "recovering" ELSE "archive",
                      IF run[p].op = "resume" THEN Changed(engine.tx) \ Published(engine.tx)
                      ELSE Published(engine.tx))
  <2> DEFINE pc == IF engine.decided = "none" THEN "recovering" ELSE "archive"
             todo == IF run[p].op = "resume" THEN Changed(engine.tx) \ Published(engine.tx)
                     ELSE Published(engine.tx)
  <2>1. engine'.tx = engine.tx /\ engine'.decided = engine.decided
    BY <1>4 DEF RecordsWhole
  <2>2. run'[p] = [pc |-> pc, kind |-> run[p].kind, op |-> run[p].op,
                   tx |-> run[p].tx, todo |-> todo]
    BY <1>4, WorksRun
  <2>3. todo \subseteq Changed(engine'.tx)
    BY <2>1 DEF Published, Changed
  <2>4. engine.decided = "applied" => run[p].op = "resume"
    BY <1>4 DEF Suits
  <2>5. engine.decided = "rolled_back" => run[p].op = "rollback"
    BY <1>4 DEF Suits
  <2>6. pc \in {"recovering", "archive"}
    OBVIOUS
  <2>7. pc = "archive" => engine.decided # "none"
    OBVIOUS
  <2> HIDE DEF pc, todo
  <2>8. RunWhole(p)' /\ Asks(p)'
    BY <2>2, <2>6 DEF RunWhole, Asks, Asking
  <2>9. Works(p)'
    BY <1>4, <2>1, <2>2, <2>3, <2>6 DEF Works, Changed, Moving
  <2>10. Knows(p)'
    BY <1>1, <2>1, <2>2, <2>4, <2>5, <2>6, <2>7 DEF Knows, DecisionKnown, Outcome
  <2> QED BY <2>8, <2>9, <2>10 DEF CommandInv
<1> QED BY <1>2, <1>3, <1>4 DEF Recover, RecoverTerminal, RecoverActive

LEMMA OwnKnows ==
    ASSUME NEW p \in Process, RecordsWhole, DecisionKnown, PlansKnown, CommandInv(p),
           CommandStep(p)
    PROVE  CommandInv(p)'
<1>1. CASE Compact(p) \/ GiveUp(p) \/ ReplayApplied(p)
  BY <1>1, ReplyKnows DEF Compact, GiveUp, ReplayApplied
<1>2. CASE Write(p) \/ Crash(p)
  BY <1>2, EndKnows DEF Write, Crash, Die
<1>3. CASE UNCHANGED <<engine, terminal, holder, run, reviewed, moved>>
  <2>1. RunWhole(p)' /\ Asks(p)'
    BY <1>3 DEF CommandInv, RunWhole, Asks, Approved
  <2>2. Works(p)' /\ Knows(p)'
    BY <1>3 DEF CommandInv, Works, Knows, Changed
  <2> QED BY <2>1, <2>2 DEF CommandInv
<1>4. CASE Restore(p)
  BY <1>3, <1>4 DEF Restore, Untouched
<1>5. CASE Signal(p)
  BY <1>3, <1>5, EndKnows DEF Signal, Untouched, Die
<1> QED BY <1>1, <1>2, <1>4, <1>5, StartKnows, ReplanKnows, JournalKnows, WriteReadyKnows,
           DecisionKnows, RetreatKnows, ArchiveKnows, RecoverKnows DEF CommandStep, Decides

\* The engine's transaction is the one it had, none, or the one an apply asks for.
LEMMA EngineSteps ==
    ASSUME NEW p \in Process, RecordsWhole, DecisionKnown, CommandInv(p), CommandStep(p)
    PROVE  \/ /\ engine'.tx = engine.tx /\ engine'.decided = engine.decided
              /\ terminal'.tx = terminal.tx /\ terminal'.outcome = terminal.outcome
              /\ UNCHANGED last
           \/ /\ engine'.tx = engine.tx /\ engine.tx # NoTx /\ engine'.decided = engine.decided
              /\ UNCHANGED last
           \/ Archive(p)
           \/ Decides(p)
           \/ /\ run[p].pc = "engine" /\ engine'.tx = run[p].tx /\ engine'.decided = "none"
<1>1. CASE WriteReady(p) \/ Retreat(p)
  <2>1. run[p].pc = "forward" /\ UNCHANGED last
    BY <1>1 DEF WriteReady, Retreat
  <2>2. engine'.tx = engine.tx /\ engine'.decided = engine.decided
    BY <1>1 DEF WriteReady, Retreat, RecordsWhole
  <2>3. engine.tx # NoTx
    BY <2>1 DEF CommandInv, Works, Holding, Moving
  <2> QED BY <2>1, <2>2, <2>3
<1>2. CASE Compact(p)
  BY <1>2 DEF Compact, RecordsWhole
<1>3. CASE Recover(p)
  <2>1. UNCHANGED last
    BY <1>3 DEF Recover
  <2>2. CASE UNCHANGED <<engine, terminal>>
    BY <2>1, <2>2
  <2>3. CASE /\ engine.tx # NoTx
             /\ engine' = [engine EXCEPT !.selected = IF engine.decided = "none"
                                                      THEN run[p].op ELSE @]
    <3>1. engine'.tx = engine.tx /\ engine'.decided = engine.decided
      BY <2>3 DEF RecordsWhole
    <3> QED BY <2>1, <2>3, <3>1
  <2> QED BY <1>3, <2>2, <2>3 DEF Recover, RecoverTerminal, RecoverActive, Untouched
<1>4. CASE Journal(p)
  <2>1. run[p].pc = "engine" /\ UNCHANGED last
    BY <1>4 DEF Journal
  <2>2. CASE engine' = [NoEngine EXCEPT !.tx = run[p].tx]
    BY <2>1, <2>2 DEF NoEngine
  <2> QED BY <1>4, <2>1, <2>2 DEF Journal, Untouched
<1> QED BY <1>1, <1>2, <1>3, <1>4
        DEF CommandStep, Decides, StartApply, StartRecover, Start, Replan, ReplayApplied, GiveUp,
            Write, Signal, Restore, Crash, Die, Untouched

LEMMA DecisionKept ==
    ASSUME NEW p \in Process, RecordsWhole, DecisionKnown, PlansKnown, CommandInv(p),
           CommandStep(p)
    PROVE  DecisionKnown' /\ PlansKnown'
<1>1. UNCHANGED reviewed
  BY StepFrames DEF CommandInv
<1>2. CASE Archive(p)
  <2>1. engine'.tx = NoTx
    BY <1>2 DEF Archive, NoEngine
  <2> QED BY <1>1, <1>2, <2>1, ArchiveKnows DEF PlansKnown, ProperPlan
<1>3. CASE Decides(p)
  <2>1. /\ engine'.tx = engine.tx /\ engine.tx # NoTx
        /\ engine'.decided \in {"applied", "rolled_back"}
        /\ last' = [tx |-> engine'.tx, outcome |-> engine'.decided]
    BY <1>3, DecisionKnows
  <2> QED BY <1>1, <2>1 DEF DecisionKnown, Decided, PlansKnown, ProperPlan, Approved
<1>4. CASE run[p].pc = "engine" /\ engine'.tx = run[p].tx /\ engine'.decided = "none"
  <2>1. Approved(run[p].tx)
    BY <1>4 DEF CommandInv, Asks, Asking
  <2>2. run[p].tx # NoTx
    BY <2>1 DEF PlansKnown, ProperPlan, Approved, NoTx, Client
  <2> QED BY <1>1, <1>4, <2>1, <2>2 DEF DecisionKnown, PlansKnown, ProperPlan, Approved
<1>5. CASE /\ engine'.tx = engine.tx /\ engine'.decided = engine.decided
           /\ terminal'.tx = terminal.tx /\ terminal'.outcome = terminal.outcome
           /\ UNCHANGED last
  BY <1>1, <1>5 DEF DecisionKnown, Decided, PlansKnown, ProperPlan, Approved
<1>6. CASE /\ engine'.tx = engine.tx /\ engine.tx # NoTx /\ engine'.decided = engine.decided
           /\ UNCHANGED last
  BY <1>1, <1>6 DEF DecisionKnown, Decided, PlansKnown, ProperPlan, Approved
<1> QED BY <1>2, <1>3, <1>4, <1>5, <1>6, EngineSteps

LEMMA CommandKeeps ==
    ASSUME ClientsInv, NEW p \in Process, CommandStep(p)
    PROVE  ClientsInv'
<1>1. /\ RecordsWhole /\ SignalsCounted /\ DecisionKnown /\ PlansKnown /\ CommandInv(p)
      /\ RunWhole(p) /\ Works(p)
  BY DEF ClientsInv, CommandInv
<1>2. RecordsWhole' /\ SignalsCounted'
  BY <1>1, RecordsKept
<1>3. DecisionKnown' /\ PlansKnown'
  BY <1>1, DecisionKept
<1>4. CommandInv(p)'
  BY <1>1, OwnKnows
<1>5. \A q \in Process : q # p => CommandInv(q)'
  <2> SUFFICES ASSUME NEW q \in Process, q # p PROVE CommandInv(q)'
    OBVIOUS
  <2>1. CommandInv(q)
    BY DEF ClientsInv
  <2>2. OnlyRunOf(p)
    BY <1>1, OwnRunOnly
  <2> QED BY <1>1, <2>1, <2>2, StepFrames, OthersKeep
<1> QED BY <1>2, <1>3, <1>4, <1>5 DEF ClientsInv

\* The steps that are not those of a command: a plan is shown, an owner edits, or
\* nothing happens.
LEMMA SurroundingsKeep ==
    ASSUME ClientsInv,
           UNCHANGED <<engine, terminal, holder, run, scope, last, moved, signals>>,
           reviewed \subseteq reviewed', \A plan \in reviewed' \ reviewed : ProperPlan(plan),
           spent' \in [runs : Nat, edits : Nat, faults : Nat, signals : Nat],
           file' = [i \in DOMAIN file' |-> file'[i]]
    PROVE  ClientsInv'
<1>1. RecordsWhole' /\ SignalsCounted' /\ DecisionKnown'
  BY DEF ClientsInv, RecordsWhole, SignalsCounted, DecisionKnown, Decided
<1>2. PlansKnown'
  <2>1. PlansKnown
    BY DEF ClientsInv
  <2>2. \A plan \in reviewed' : ProperPlan(plan)
    BY <2>1 DEF PlansKnown
  <2>3. engine.tx # NoTx => Approved(engine.tx)'
    BY <2>1 DEF PlansKnown, Approved
  <2> QED BY <2>2, <2>3 DEF PlansKnown, ProperPlan
<1>3. ASSUME NEW p \in Process PROVE CommandInv(p)'
  <2>1. RunWhole(p) /\ Asks(p) /\ Works(p) /\ Knows(p)
    BY DEF ClientsInv, CommandInv
  <2>2. RunWhole(p)' /\ Asks(p)'
    BY <2>1 DEF RunWhole, Asks, Approved
  <2>3. Works(p)' /\ Knows(p)'
    BY <2>1 DEF Works, Knows, Changed
  <2> QED BY <2>2, <2>3 DEF CommandInv
<1> QED BY <1>1, <1>2, <1>3 DEF ClientsInv

LEMMA ReviewKeeps ==
    ASSUME ClientsInv, NEW client \in Client, NEW v \in Version, NEW op, Review(client, op, v)
    PROVE  ClientsInv'
<1> DEFINE tx == PlanTransaction(client, op, v, file)
           plan == [op |-> op, tx |-> tx]
<1>1. /\ reviewed' = reviewed \cup {plan}
      /\ UNCHANGED <<file, engine, terminal, holder, run, scope, last, moved, signals, spent>>
      /\ \E current \in BOOLEAN : Conflict(op, v, tx, current) = ""
  BY DEF Review, Untouched
<1>2. tx.client = client
  BY DEF PlanTransaction
<1>3. \A i \in Target[client] : tx.before[i] # "foreign"
  BY <1>1, AcceptedIsOwn
<1>4. \A i \in Target[client] : tx.after[i] # "foreign"
  <2>1. v # "foreign"
    BY VersionAssumption
  <2> QED BY <2>1 DEF PlanTransaction
<1> HIDE DEF tx
<1>5. ProperPlan(plan)
  BY <1>2, <1>3, <1>4 DEF ProperPlan
<1> HIDE DEF plan
<1>6. RecordsWhole
  BY DEF ClientsInv
<1> QED BY <1>1, <1>5, <1>6, SurroundingsKeep DEF RecordsWhole

LEMMA EditKeeps ==
    ASSUME ClientsInv, NEW i, NEW content, Edit(i, content)
    PROVE  ClientsInv'
<1>1. /\ file' = [file EXCEPT ![i] = content] /\ Spend("edits")
      /\ UNCHANGED <<engine, terminal, holder, run, last, moved, scope, reviewed, signals>>
  BY DEF Edit, Trouble, Quiet
<1>2. RecordsWhole
  BY DEF ClientsInv
<1>3. file' = [j \in DOMAIN file' |-> file'[j]]
  BY <1>1
<1>4. spent' \in [runs : Nat, edits : Nat, faults : Nat, signals : Nat]
  BY <1>1, <1>2, SpendCounts
<1> QED BY <1>1, <1>3, <1>4, SurroundingsKeep

LEMMA ClientsStart == ClientsInit => ClientsInv
<1> SUFFICES ASSUME ClientsInit PROVE ClientsInv
  OBVIOUS
<1>1. RecordsWhole /\ SignalsCounted
  BY DEF ClientsInit, RecordsWhole, SignalsCounted, NoEngine, NoReceipt
<1>2. DecisionKnown /\ PlansKnown
  BY DEF ClientsInit, DecisionKnown, PlansKnown, Decided, NoEngine, NoReceipt
<1>3. ASSUME NEW p \in Process PROVE CommandInv(p)
  <2>1. run[p].pc = "idle" /\ p \notin moved
    BY DEF ClientsInit, Idle
  <2> QED BY <2>1 DEF CommandInv, RunWhole, Asks, Works, Knows, Asking, Holding, Moving
<1> QED BY <1>1, <1>2, <1>3 DEF ClientsInv

LEMMA ClientsKeep == ClientsInv /\ [ClientsNext]_clientVars => ClientsInv'
<1> SUFFICES ASSUME ClientsInv, [ClientsNext]_clientVars PROVE ClientsInv'
  OBVIOUS
<1>1. CASE UNCHANGED clientVars
  BY <1>1, SurroundingsKeep DEF clientVars, ClientsInv, RecordsWhole
<1>2. CASE \E client \in Client, v \in Version : \E op \in Operation[client] : Review(client, op, v)
  BY <1>2, ReviewKeeps
<1>3. CASE \E p \in Process : CommandStep(p)
  BY <1>3, CommandKeeps
<1>4. CASE \E i \in DOMAIN file, content \in Contents : Edit(i, content)
  BY <1>4, EditKeeps
<1> QED BY <1>1, <1>2, <1>3, <1>4 DEF ClientsNext

LEMMA ClientsAlways == ClientsSpec => []ClientsInv
BY ClientsStart, ClientsKeep, PTL DEF ClientsSpec

-----------------------------------------------------------------------------
(* The promises of the commands.                                           *)

\* One signal never ends a command without its answer: the scope of a run that a
\* signal ends was cancelled, or closed, by an earlier one.
THEOREM SignalsAreAnswered == ClientsSpec => OneSignalIsAnswered
<1>1. ClientsInv /\ [ClientsNext]_clientVars => [\A p \in Process : EndsAnswered(p)]_clientVars
  <2> SUFFICES ASSUME ClientsInv, ClientsNext, NEW p \in Process,
                      run[p].pc # "idle", run'[p].pc = "idle", spent'.signals > spent.signals
               PROVE  signals[p] > 0
    BY DEF EndsAnswered
  <2>0. RecordsWhole /\ SignalsCounted
    BY DEF ClientsInv
  <2>1. run' # run
    OBVIOUS
  <2>2. PICK q \in Process : CommandStep(q)
    BY <2>1 DEF ClientsNext, Review, Edit
  <2>3. Signal(q)
    BY <2>0, <2>2, StepCounts
  <2>4. scope[q] = "restored" /\ End(q)
    BY <2>1, <2>3 DEF Signal, Die
  <2>5. q = p
    BY <2>0, <2>1, <2>4, EndsRun DEF OnlyRunOf
  <2> QED BY <2>0, <2>4, <2>5 DEF SignalsCounted
<1> QED BY <1>1, ClientsAlways, PTL DEF ClientsSpec, OneSignalIsAnswered

\* No owner's bytes are overwritten: what the engine moves is what a plan that was
\* shown found, whatever is edited, retried or recovered in between.
THEOREM OwnersKeepBytes == ClientsSpec => OwnersBytesSurvive
<1>1. ClientsInv /\ [ClientsNext]_clientVars => [\A i \in DOMAIN file : PlannedMove(i)]_clientVars
  <2> SUFFICES ASSUME ClientsInv, ClientsNext, NEW i \in DOMAIN file,
                      file'[i] # file[i], spent'.edits = spent.edits
               PROVE  /\ file[i] # "foreign"
                      /\ \E plan \in reviewed :
                            /\ i \in Target[plan.tx.client] /\ plan.tx = engine.tx
                            /\ <<file[i], file'[i]>> \in
                                   {<<plan.tx.before[i], plan.tx.after[i]>>,
                                    <<plan.tx.after[i], plan.tx.before[i]>>}
    BY DEF PlannedMove
  <2>0. RecordsWhole /\ PlansKnown
    BY DEF ClientsInv
  <2>1. ~(\E j \in DOMAIN file, content \in Contents : Edit(j, content))
    <3> SUFFICES ASSUME NEW j, NEW content, Edit(j, content) PROVE FALSE
      OBVIOUS
    <3>1. Spend("edits")
      BY DEF Edit, Trouble
    <3>2. spent'.edits = spent.edits + 1 /\ spent.edits \in Nat
      BY <2>0, <3>1, SpendCounts DEF RecordsWhole
    <3> QED BY <3>2
  <2>2. PICK p \in Process : CommandStep(p)
    BY <2>1 DEF ClientsNext, Review, Untouched
  <2>3. Decides(p)
    BY <2>2, OnlyDecisionsMove
  <2>4. PICK outcome \in {"applied", "rolled_back"} :
           Settle(p, outcome) /\ run[p].pc \in Moving
    BY <2>3, DecisionMoves DEF Moving
  <2>5. i \in run[p].todo /\ file[i] = From(outcome)[i] /\ file'[i] = To(outcome)[i]
    BY <2>4 DEF Settle, Obstructed
  <2>6. engine.tx # NoTx /\ run[p].todo \subseteq Changed(engine.tx)
    BY <2>4 DEF ClientsInv, CommandInv, Works, Holding, Moving
  <2>7. i \in Target[engine.tx.client]
    BY <2>5, <2>6 DEF Changed
  <2>8. PICK plan \in reviewed : plan.tx = engine.tx
    BY <2>0, <2>6 DEF PlansKnown, Approved
  <2>9. engine.tx.before[i] # "foreign" /\ engine.tx.after[i] # "foreign"
    BY <2>0, <2>7, <2>8 DEF PlansKnown, ProperPlan
  <2> QED BY <2>5, <2>7, <2>8, <2>9 DEF From, To
<1> QED BY <1>1, ClientsAlways, PTL DEF ClientsSpec, OwnersBytesSurvive

\* An answer is true when what it is made of is.
LEMMA AnswerMade ==
    ASSUME NEW p \in Process, RecordsWhole, NEW state, NEW reason, NEW tx,
           Reply(p, state, reason, tx),
           state = "passed" => PassedIsTrue(run[p]),
           p \in moved => state \notin {"failed", "blocked", "error"},
           state \notin {"passed", "failed", "blocked", "error"} /\ tx # NoTx =>
               tx \in {engine.tx, terminal.tx},
           reason = "transaction_identity_mismatch" =>
               ~(Decided(run[p].tx, "applied") /\ AllAfter(run[p].tx))
    PROVE  AnswerIsTrue(p)
<1>1. run'[p] = [pc |-> "write", state |-> state, reason |-> reason, tx |-> tx]
  BY RepliesRun
<1> QED BY <1>1 DEF AnswerIsTrue

LEMMA BusyRefuses ==
    ASSUME NEW client, NEW step
    PROVE  BusyState(client, step) \in {"error", "blocked"}
BY DEF BusyState

\* Before a command has decided anything it may refuse for any reason but one.
LEMMA RefusalIsTrue ==
    ASSUME NEW p \in Process, RecordsWhole, Knows(p), run[p].pc \in Asking,
           NEW state \in {"error", "blocked", "recovery_required"}, NEW reason, NEW tx,
           reason # "transaction_identity_mismatch",
           tx \in {NoTx, engine.tx, terminal.tx}, Reply(p, state, reason, tx)
    PROVE  AnswerIsTrue(p)
<1>1. p \notin moved
  BY DEF Knows, Asking
<1> QED BY <1>1, AnswerMade

LEMMA PendingIsTrue ==
    ASSUME NEW p \in Process, RecordsWhole, Knows(p), run[p].pc \in Asking,
           Reply(p, "recovery_required", "pending_transaction_state", PendingTx)
    PROVE  AnswerIsTrue(p)
<1>1. PendingTx \in {NoTx, engine.tx, terminal.tx}
  BY DEF PendingTx
<1> QED BY <1>1, RefusalIsTrue

LEMMA ReplanAnswers ==
    ASSUME NEW p \in Process, RecordsWhole, CommandInv(p), Replan(p), run'[p].pc = "write"
    PROVE  AnswerIsTrue(p)
<1>1. run[p].pc \in Asking /\ RunWhole(p) /\ Knows(p) /\ p \notin moved
  BY DEF Replan, Asking, CommandInv, Knows
<1>2. CASE \E state \in {"error", "blocked"} : \E reason :
              reason # "transaction_identity_mismatch" /\ Reply(p, state, reason, NoTx)
  BY <1>1, <1>2, RefusalIsTrue
<1>3. CASE Reply(p, "recovery_required", "pending_transaction_state", PendingTx)
  BY <1>1, <1>3, PendingIsTrue
<1>4. CASE /\ ~AllAfter(run[p].tx)
           /\ Reply(p, "blocked", "transaction_identity_mismatch", NoTx)
  BY <1>1, <1>4, AnswerMade
<1>5. CASE Goto(p, "replay") \/ Goto(p, "engine")
  <2>1. run'[p].pc \in {"replay", "engine"}
    BY <1>1, <1>5, GoesRun
  <2> QED BY <2>1
<1> QED BY <1>2, <1>3, <1>4, <1>5, ReplanOutcomes

LEMMA ReplayAnswers ==
    ASSUME NEW p \in Process, RecordsWhole, DecisionKnown, CommandInv(p), ReplayApplied(p)
    PROVE  AnswerIsTrue(p)
<1>1. /\ run[p].pc = "replay" /\ run[p].pc \in Asking /\ Knows(p) /\ p \notin moved
      /\ run[p].kind = "apply"
  BY DEF ReplayApplied, Asking, CommandInv, Knows, Asks
<1>2. CASE \/ Reply(p, "error", "cancelled", NoTx)
           \/ Reply(p, BusyState(run[p].tx.client, "replay"), "transaction_busy", NoTx)
  BY <1>1, <1>2, BusyRefuses, RefusalIsTrue
<1>3. CASE Reply(p, "recovery_required", "pending_transaction_state", PendingTx)
  BY <1>1, <1>3, PendingIsTrue
<1>4. ~Pending => Decided(terminal.tx, terminal.outcome)
  BY DEF Pending, DecisionKnown
<1>5. CASE /\ ~Pending /\ terminal.tx = run[p].tx /\ terminal.outcome = "applied"
           /\ Reply(p, "passed", "", run[p].tx)
  <2>1. PassedIsTrue(run[p])
    BY <1>1, <1>4, <1>5 DEF PassedIsTrue
  <2> QED BY <1>5, <2>1, AnswerMade
<1>6. CASE /\ ~Pending
           /\ ~(AllAfter(run[p].tx) /\ terminal.tx = run[p].tx /\ terminal.outcome = "applied")
           /\ Reply(p, "blocked", "transaction_identity_mismatch", NoTx)
  <2>1. ~(Decided(run[p].tx, "applied") /\ AllAfter(run[p].tx))
    BY <1>4, <1>6 DEF Decided
  <2> QED BY <1>1, <1>6, <2>1, AnswerMade
<1> QED BY <1>2, <1>3, <1>5, <1>6 DEF ReplayApplied

LEMMA JournalAnswers ==
    ASSUME NEW p \in Process, RecordsWhole, CommandInv(p), Journal(p), run'[p].pc = "write"
    PROVE  AnswerIsTrue(p)
<1>1. /\ run[p].pc = "engine" /\ run[p].pc \in Asking /\ Knows(p) /\ p \notin moved
      /\ run[p].kind = "apply"
  BY DEF Journal, Asking, CommandInv, Knows, Asks
<1>2. CASE \/ Reply(p, "error", "cancelled", NoTx)
           \/ Reply(p, BusyState(run[p].tx.client, "engine"), "transaction_busy", NoTx)
           \/ Reply(p, "error", "target_changed", NoTx)
  BY <1>1, <1>2, BusyRefuses, RefusalIsTrue
<1>3. CASE Reply(p, "recovery_required", "pending_transaction_state", PendingTx)
  BY <1>1, <1>3, PendingIsTrue
<1>4. CASE AllAfter(run[p].tx) /\ Reply(p, "passed", "", run[p].tx)
  <2>1. PassedIsTrue(run[p])
    BY <1>1, <1>4 DEF PassedIsTrue
  <2> QED BY <1>4, <2>1, AnswerMade
<1>5. CASE Work(p, "forward", Changed(run[p].tx))
  <2>1. run'[p] = [pc |-> "forward", kind |-> run[p].kind, op |-> run[p].op,
                   tx |-> run[p].tx, todo |-> Changed(run[p].tx)]
    BY <1>5, WorksRun
  <2> QED BY <2>1
<1> QED BY <1>2, <1>3, <1>4, <1>5 DEF Journal

LEMMA CompactAnswers ==
    ASSUME NEW p \in Process, RecordsWhole, DecisionKnown, CommandInv(p), Compact(p)
    PROVE  AnswerIsTrue(p)
<1> DEFINE state == ReceiptState(run[p].kind, terminal.outcome)
<1>1. run[p].pc = "compact" /\ Reply(p, state, "", terminal.tx)
  BY DEF Compact
<1>2. /\ engine.tx = NoTx /\ terminal.tx = run[p].tx
      /\ terminal.outcome \in {"applied", "rolled_back"}
      /\ run[p].kind # "apply" => terminal.outcome = Outcome(run[p].op)
      /\ p \in moved => terminal.outcome = "applied"
  BY <1>1 DEF CommandInv, Knows
<1>3. Decided(run[p].tx, terminal.outcome)
  BY <1>2 DEF DecisionKnown
<1>4. terminal.outcome = "applied" => state = "passed"
  BY DEF ReceiptState
<1>5. terminal.outcome = "rolled_back" =>
         state = IF run[p].kind = "recover" THEN "passed" ELSE "failed"
  BY DEF ReceiptState
<1> HIDE DEF state
<1>6. state = "passed" => PassedIsTrue(run[p])
  BY <1>2, <1>3, <1>5 DEF PassedIsTrue
<1>7. state \in {"passed", "failed"} /\ (p \in moved => state = "passed")
  BY <1>2, <1>4, <1>5
<1> QED BY <1>1, <1>6, <1>7, AnswerMade

LEMMA GiveUpAnswers ==
    ASSUME NEW p \in Process, RecordsWhole, GiveUp(p)
    PROVE  AnswerIsTrue(p)
<1> DEFINE state == ReceiptState(run[p].kind, Unfinished(p))
<1>1. Unfinished(p) \in {"cleanup_required", "durability_unknown", "recovery_required"}
  BY DEF Unfinished
<1>2. state \in {"cleanup_required", "durability_unknown", "recovery_required"}
  BY <1>1 DEF ReceiptState
<1>3. Reply(p, state, "unfinished", PendingTx)
  BY DEF GiveUp
<1>4. PendingTx \in {engine.tx, terminal.tx}
  BY DEF PendingTx
<1> HIDE DEF state
<1> QED BY <1>2, <1>3, <1>4, AnswerMade

LEMMA RecoverAnswers ==
    ASSUME NEW p \in Process, RecordsWhole, CommandInv(p), Recover(p), run'[p].pc = "write"
    PROVE  AnswerIsTrue(p)
<1>1. run[p].pc \in Asking /\ RunWhole(p) /\ Knows(p)
  BY DEF Recover, Asking, CommandInv
<1>2. CASE \/ Reply(p, "error", "cancelled", NoTx)
           \/ \E client \in Client : Reply(p, BusyState(client, "recover"), "transaction_busy", NoTx)
           \/ Reply(p, "recovery_required", "conflicting_control_state", NoTx)
           \/ Reply(p, "error", "absent", NoTx)
           \/ Reply(p, "error", "identity", NoTx)
  BY <1>1, <1>2, BusyRefuses, RefusalIsTrue
<1>3. CASE /\ run[p].tx \in {engine.tx, terminal.tx}
           /\ Reply(p, "recovery_required", "state_mismatch", run[p].tx)
  BY <1>1, <1>3, RefusalIsTrue
<1>4. CASE Goto(p, "compact")
  <2>1. run'[p].pc = "compact"
    BY <1>1, <1>4, GoesRun
  <2> QED BY <2>1
<1>5. CASE \E pc \in {"recovering", "archive"} : \E targets : Work(p, pc, targets)
  <2>1. PICK pc \in {"recovering", "archive"} : \E targets : Work(p, pc, targets)
    BY <1>5
  <2>2. PICK targets : Work(p, pc, targets)
    BY <2>1
  <2>3. run'[p] = [pc |-> pc, kind |-> run[p].kind, op |-> run[p].op,
                   tx |-> run[p].tx, todo |-> targets]
    BY <2>2, WorksRun
  <2> QED BY <2>1, <2>3
<1> QED BY <1>2, <1>3, <1>4, <1>5 DEF Recover, RecoverTerminal, RecoverActive

\* Only those steps answer.
LEMMA OthersAnswerNot ==
    ASSUME NEW p \in Process, RecordsWhole, CommandInv(p), CommandStep(p), run[p].pc # "write",
           run'[p].pc = "write"
    PROVE  Replan(p) \/ ReplayApplied(p) \/ Journal(p) \/ Compact(p) \/ GiveUp(p) \/ Recover(p)
<1>1. CASE StartApply(p) \/ StartRecover(p)
  <2>1. CASE StartApply(p)
    <3>1. PICK plan \in reviewed :
             run' = [run EXCEPT ![p] = [pc |-> "replan", kind |-> "apply", op |-> plan.op,
                                        tx |-> plan.tx]]
      BY <2>1 DEF StartApply, Start
    <3>2. run'[p] = [pc |-> "replan", kind |-> "apply", op |-> plan.op, tx |-> plan.tx]
      BY <3>1, RunUpdate
    <3> QED BY <3>2
  <2>2. CASE StartRecover(p)
    <3>1. PICK plan \in reviewed, action \in {"resume", "rollback"} :
             run' = [run EXCEPT ![p] = [pc |-> "recover", kind |-> "recover", op |-> action,
                                        tx |-> plan.tx]]
      BY <2>2 DEF StartRecover, Start
    <3>2. run'[p] = [pc |-> "recover", kind |-> "recover", op |-> action, tx |-> plan.tx]
      BY <3>1, RunUpdate
    <3> QED BY <3>2
  <2> QED BY <1>1, <2>1, <2>2
<1>2. CASE WriteReady(p) \/ Restore(p)
  BY <1>2 DEF WriteReady, Restore
<1>3. CASE Decides(p) \/ Archive(p)
  <2>1. \E pc \in {"archive", "compact"} : Goto(p, pc)
    BY <1>3, DecisionMoves DEF Settle, Archive
  <2>2. run[p].pc \in Asking \cup Holding /\ RunWhole(p)
    BY <1>3 DEF Decides, Commit, RollBack, Recovered, Archive, Holding, Moving, CommandInv
  <2>3. run'[p].pc \in {"archive", "compact"}
    BY <2>1, <2>2, GoesRun
  <2> QED BY <2>3
<1>4. CASE Retreat(p)
  <2>1. Work(p, "retreat", Published(engine.tx))
    BY <1>4 DEF Retreat
  <2>2. run'[p] = [pc |-> "retreat", kind |-> run[p].kind, op |-> run[p].op,
                   tx |-> run[p].tx, todo |-> Published(engine.tx)]
    BY <2>1, WorksRun
  <2> QED BY <2>2
<1>5. CASE End(p)
  <2>1. run'[p] = Idle
    BY <1>5, EndsRun
  <2> QED BY <2>1 DEF Idle
<1> QED BY <1>1, <1>2, <1>3, <1>4, <1>5 DEF CommandStep, Decides, Write, Signal, Crash, Die

\* No answer contradicts the repository: whatever was lost, repeated, interrupted or
\* edited, passed means done, a decided change is never denied, a transaction named
\* for recovery is one that recovery knows, and a retry is not refused its own result.
THEOREM AnswersHold == ClientsSpec => AnswersAreTrue
<1>1. ClientsInv /\ [ClientsNext]_clientVars =>
         [\A p \in Process : Answers(p) => AnswerIsTrue(p)]_clientVars
  <2> SUFFICES ASSUME ClientsInv, ClientsNext, NEW p \in Process, Answers(p)
               PROVE  AnswerIsTrue(p)
    OBVIOUS
  <2>1. RecordsWhole /\ DecisionKnown /\ CommandInv(p)
    BY DEF ClientsInv
  <2>2. run[p].pc # "write" /\ run'[p].pc = "write"
    BY DEF Answers
  <2>3. PICK q \in Process : CommandStep(q)
    BY <2>2 DEF ClientsNext, Review, Edit
  <2>4. OnlyRunOf(q)
    BY <2>1, <2>3, OwnRunOnly DEF ClientsInv, CommandInv
  <2>5. q = p
    BY <2>2, <2>4 DEF OnlyRunOf
  <2>6. Replan(p) \/ ReplayApplied(p) \/ Journal(p) \/ Compact(p) \/ GiveUp(p) \/ Recover(p)
    BY <2>1, <2>2, <2>3, <2>5, OthersAnswerNot
  <2> QED BY <2>1, <2>2, <2>6, ReplanAnswers, ReplayAnswers, JournalAnswers, CompactAnswers,
             GiveUpAnswers, RecoverAnswers
<1> QED BY <1>1, ClientsAlways, PTL DEF ClientsSpec, AnswersAreTrue

-----------------------------------------------------------------------------
(* What a client sees of the engine it shares.                             *)

\* The image that a target of the open transaction has.
Image(i) == IF engine.decided = "applied" THEN engine.tx.after[i] ELSE engine.tx.before[i]

PlanWhole(plan) ==
    /\ plan.tx.before \in [Target[plan.tx.client] -> Contents]
    /\ plan.tx.after \in [Target[plan.tx.client] -> Contents]

\* Whatever was not edited since it was journalled is where the transaction is.
FilesAccounted ==
    /\ file \in Files
    /\ engine.tx # NoTx => \A i \in Target[engine.tx.client] \ touched : file[i] = Image(i)

\* What is left to move takes every target that was not edited to its image.
Remains(p) ==
    /\ run[p].pc \in Moving => engine.decided = "none"
    /\ run[p].pc = "forward" => run[p].todo = Changed(engine.tx)
    /\ run[p].pc = "recovering" /\ Outcome(run[p].op) = "applied" =>
           Changed(engine.tx) \subseteq run[p].todo \cup touched

WatchedInv ==
    /\ ClientsInv /\ FilesAccounted
    /\ \A plan \in reviewed : PlanWhole(plan)
    /\ \A p \in Process : Remains(p)

LEMMA TargetsDisjoint ==
    ASSUME NEW one \in Client, NEW other \in Client, one # other
    PROVE  Target[one] \cap Target[other] = {}
BY DEF Client, Target

\* The open transaction was planned.
LEMMA OpenIsPlanned ==
    ASSUME WatchedInv, engine.tx # NoTx
    PROVE  /\ engine.tx.client \in Client
           /\ engine.tx.before \in [Target[engine.tx.client] -> Contents]
           /\ engine.tx.after \in [Target[engine.tx.client] -> Contents]
           /\ \A i \in Target[engine.tx.client] :
                 engine.tx.before[i] # "foreign" /\ engine.tx.after[i] # "foreign"
<1>1. PICK plan \in reviewed : plan.tx = engine.tx
  BY DEF WatchedInv, ClientsInv, PlansKnown, Approved
<1>2. ProperPlan(plan) /\ PlanWhole(plan)
  BY DEF WatchedInv, ClientsInv, PlansKnown
<1> QED BY <1>1, <1>2 DEF ProperPlan, PlanWhole

\* A step of a command edits nothing.
LEMMA WatchStep ==
    ASSUME RecordsWhole, NEW p \in Process, CommandStep(p), Watch
    PROVE  touched' = touched \ Found
<1>1. spent'.edits = spent.edits /\ spent.edits \in Nat
  BY StepCounts DEF RecordsWhole
<1>2. Edited = {}
  BY <1>1 DEF Edited
<1> QED BY <1>2 DEF Watch

\* The steps of a command that a client can see.
LEMMA VisibleSteps ==
    ASSUME ClientsInv, NEW p \in Process, CommandStep(p), Watch
    PROVE  \/ /\ engine'.tx = engine.tx /\ engine'.decided = engine.decided
              /\ UNCHANGED <<file, touched>>
           \/ /\ Archive(p) /\ engine.tx # NoTx /\ engine.decided # "none"
              /\ engine' = NoEngine /\ UNCHANGED <<file, touched>>
           \/ /\ Decides(p) /\ UNCHANGED touched
           \/ /\ Journal(p) /\ engine' # engine /\ engine.tx = NoTx
              /\ engine' = [NoEngine EXCEPT !.tx = run[p].tx]
              /\ Approved(run[p].tx) /\ AllBefore(run[p].tx)
              /\ Work(p, "forward", Changed(run[p].tx))
              /\ touched' = touched \ Target[run[p].tx.client] /\ UNCHANGED file
<1>0. /\ RecordsWhole /\ DecisionKnown /\ CommandInv(p)
      /\ touched' = touched \ Found
  BY WatchStep DEF ClientsInv
<1>1. CASE Archive(p)
  <2>1. engine.tx # NoTx /\ engine.decided # "none" /\ engine' = NoEngine /\ UNCHANGED file
    BY <1>0, <1>1 DEF Archive, CommandInv, Works, Knows, Holding
  <2>2. Found = {}
    BY <2>1 DEF Found
  <2> QED BY <1>0, <1>1, <2>1, <2>2
<1>2. CASE Decides(p)
  <2>1. engine'.tx = engine.tx
    BY <1>0, <1>2, DecisionKnows
  <2>2. Found = {}
    BY <2>1 DEF Found
  <2> QED BY <1>0, <1>2, <2>2
<1>3. CASE Journal(p) /\ engine' # engine
  <2>1. /\ run[p].pc = "engine" /\ ~Pending /\ engine' = [NoEngine EXCEPT !.tx = run[p].tx]
        /\ AllBefore(run[p].tx) /\ UNCHANGED file
        /\ Work(p, "forward", Changed(run[p].tx))
    BY <1>3 DEF Journal, Untouched
  <2>2. engine.tx = NoTx
    BY <2>1 DEF Pending
  <2>3. engine'.tx = run[p].tx
    BY <2>1 DEF NoEngine
  <2>4. Approved(run[p].tx)
    BY <1>0, <2>1 DEF CommandInv, Asks, Asking
  <2>5. run[p].tx # NoTx
    BY <2>4 DEF ClientsInv, PlansKnown, ProperPlan, Approved, NoTx, Client
  <2>6. Found = Target[run[p].tx.client]
    BY <2>2, <2>3, <2>5 DEF Found
  <2> QED BY <1>0, <1>3, <2>1, <2>2, <2>4, <2>6
<1>4. CASE ~Archive(p) /\ ~Decides(p) /\ ~(Journal(p) /\ engine' # engine)
  <2>1. UNCHANGED file
    BY <1>4, OnlyDecisionsMove
  <2>2. engine'.tx = engine.tx /\ engine'.decided = engine.decided
    <3>1. CASE WriteReady(p) \/ Retreat(p)
      BY <1>0, <3>1 DEF WriteReady, Retreat, RecordsWhole
    <3>2. CASE Recover(p)
      BY <1>0, <3>2 DEF Recover, RecoverTerminal, RecoverActive, Untouched, RecordsWhole
    <3>3. CASE UNCHANGED engine
      BY <3>3
    <3> QED
      BY <1>4, <3>1, <3>2, <3>3
         DEF CommandStep, Decides, StartApply, StartRecover, Start, Replan, ReplayApplied,
             Compact, GiveUp, Write, Signal, Restore, Crash, Die, Untouched
  <2>3. Found = {}
    BY <2>2 DEF Found
  <2> QED BY <1>0, <2>1, <2>2, <2>3
<1> QED BY <1>1, <1>2, <1>3, <1>4

\* A decision takes every target that was not edited to its image.
LEMMA DecisionAccounts ==
    ASSUME WatchedInv, NEW p \in Process, Decides(p), UNCHANGED touched
    PROVE  FilesAccounted'
<1>1. PICK outcome \in {"applied", "rolled_back"} :
         /\ Settle(p, outcome)
         /\ \/ run[p].pc = "forward" /\ outcome = "applied"
            \/ run[p].pc = "retreat" /\ outcome = "rolled_back"
            \/ run[p].pc = "recovering" /\ outcome = Outcome(run[p].op)
  BY DecisionMoves
<1>2. /\ engine.tx # NoTx /\ run[p].todo \subseteq Changed(engine.tx)
      /\ engine.decided = "none" /\ Remains(p) /\ RecordsWhole
  BY <1>1 DEF WatchedInv, Remains, ClientsInv, CommandInv, Works, Holding, Moving
<1>3. engine'.tx = engine.tx /\ engine'.decided = outcome
  BY <1>1, <1>2 DEF Settle, RecordsWhole
<1> DEFINE targets == Target[engine.tx.client]
<1>4. /\ engine.tx.client \in Client
      /\ engine.tx.before \in [targets -> Contents]
      /\ engine.tx.after \in [targets -> Contents]
  BY <1>2, OpenIsPlanned
<1>5. file \in Files /\ \A i \in targets \ touched : file[i] = engine.tx.before[i]
  BY <1>2 DEF WatchedInv, FilesAccounted, Image
<1>6. targets \subseteq UNION {Target[c] : c \in Client}
  BY <1>4
<1>7. \A i \in UNION {Target[c] : c \in Client} :
         file'[i] = IF i \in run[p].todo THEN To(outcome)[i] ELSE file[i]
  BY <1>1, <1>5 DEF Settle, Files
<1>8. file' \in Files
  <2>1. file' = [i \in UNION {Target[c] : c \in Client} |->
                    IF i \in run[p].todo THEN To(outcome)[i] ELSE file[i]]
    BY <1>1, <1>5 DEF Settle, Files
  <2>2. \A i \in run[p].todo : To(outcome)[i] \in Contents
    BY <1>2, <1>4 DEF To, Changed
  <2> QED BY <1>5, <2>1, <2>2 DEF Files
<1>9. ASSUME NEW i \in targets, i \notin touched
      PROVE  file'[i] = IF outcome = "applied" THEN engine.tx.after[i] ELSE engine.tx.before[i]
  <2>1. file'[i] = IF i \in run[p].todo THEN To(outcome)[i] ELSE file[i]
    BY <1>6, <1>7, <1>9
  <2>2. file[i] = engine.tx.before[i]
    BY <1>5, <1>9
  <2>3. CASE i \in run[p].todo \/ outcome = "rolled_back"
    BY <2>1, <2>2, <2>3 DEF To
  <2>4. CASE i \notin run[p].todo /\ outcome = "applied"
    <3>1. i \notin Changed(engine.tx)
      BY <1>1, <1>2, <1>9, <2>4 DEF Remains
    <3> QED BY <2>1, <2>2, <2>4, <3>1 DEF Changed
  <2> QED BY <2>3, <2>4
<1> QED BY <1>3, <1>8, <1>9 DEF FilesAccounted, Image

LEMMA CommandAccounts ==
    ASSUME WatchedInv, NEW p \in Process, CommandStep(p), Watch
    PROVE  FilesAccounted'
<1>1. CASE /\ engine'.tx = engine.tx /\ engine'.decided = engine.decided
           /\ UNCHANGED <<file, touched>>
  BY <1>1 DEF WatchedInv, FilesAccounted, Image
<1>2. CASE engine' = NoEngine /\ UNCHANGED <<file, touched>>
  BY <1>2 DEF WatchedInv, FilesAccounted, NoEngine
<1>3. CASE Decides(p) /\ UNCHANGED touched
  BY <1>3, DecisionAccounts
<1>4. CASE /\ engine' = [NoEngine EXCEPT !.tx = run[p].tx] /\ AllBefore(run[p].tx)
           /\ UNCHANGED file
  <2>1. engine'.tx = run[p].tx /\ engine'.decided = "none"
    BY <1>4 DEF NoEngine
  <2> QED BY <1>4, <2>1 DEF WatchedInv, FilesAccounted, Image, AllBefore
<1> QED BY <1>1, <1>2, <1>3, <1>4, VisibleSteps DEF WatchedInv

\* What the recovery of an open transaction is left to move.
LEMMA RecoveryRemains ==
    ASSUME WatchedInv, NEW p \in Process, Recover(p), engine'.tx = engine.tx,
           engine'.decided = engine.decided, UNCHANGED touched
    PROVE  Remains(p)'
<1>1. RecordsWhole /\ RunWhole(p) /\ run[p].pc = "recover" /\ run[p].pc \in Asking
  BY DEF Recover, WatchedInv, ClientsInv, CommandInv, Asking
<1>2. CASE \E state, reason, tx : Reply(p, state, reason, tx)
  <2>1. PICK state, reason, tx : Reply(p, state, reason, tx)
    BY <1>2
  <2>2. run'[p] = [pc |-> "write", state |-> state, reason |-> reason, tx |-> tx]
    BY <1>1, <2>1, RepliesRun
  <2> QED BY <2>2 DEF Remains, Moving
<1>3. CASE Goto(p, "compact")
  <2>1. run'[p].pc = "compact"
    BY <1>1, <1>3, GoesRun
  <2> QED BY <2>1 DEF Remains, Moving
<1>4. CASE /\ engine.tx # NoTx
           /\ Work(p, IF engine.decided = "none" THEN "recovering" ELSE "archive",
                      IF run[p].op = "resume" THEN Changed(engine.tx) \ Published(engine.tx)
                      ELSE Published(engine.tx))
  <2>1. run'[p] = [pc |-> IF engine.decided = "none" THEN "recovering" ELSE "archive",
                   kind |-> run[p].kind, op |-> run[p].op, tx |-> run[p].tx,
                   todo |-> IF run[p].op = "resume"
                            THEN Changed(engine.tx) \ Published(engine.tx)
                            ELSE Published(engine.tx)]
    <3> DEFINE pc == IF engine.decided = "none" THEN "recovering" ELSE "archive"
               targets == IF run[p].op = "resume"
                          THEN Changed(engine.tx) \ Published(engine.tx)
                          ELSE Published(engine.tx)
    <3>1. Work(p, pc, targets)
      BY <1>4
    <3> HIDE DEF pc, targets
    <3>2. run'[p] = [pc |-> pc, kind |-> run[p].kind, op |-> run[p].op,
                     tx |-> run[p].tx, todo |-> targets]
      BY <1>1, <3>1, WorksRun
    <3> QED BY <3>2 DEF pc, targets
  <2>2. CASE engine.decided # "none"
    BY <2>1, <2>2 DEF Remains, Moving
  <2>3. CASE engine.decided = "none"
    <3>1. Published(engine.tx) \subseteq touched
      BY <1>4, <2>3 DEF Published, Changed, WatchedInv, FilesAccounted, Image
    <3>2. Changed(engine'.tx) = Changed(engine.tx)
      BY DEF Changed
    <3> QED BY <2>1, <2>3, <3>1, <3>2 DEF Remains, Moving, Outcome
  <2> QED BY <2>2, <2>3
<1> QED BY <1>2, <1>3, <1>4 DEF Recover, RecoverTerminal, RecoverActive

LEMMA OwnRemains ==
    ASSUME WatchedInv, NEW p \in Process, CommandStep(p), Watch
    PROVE  Remains(p)'
<1>0. RecordsWhole /\ CommandInv(p) /\ RunWhole(p) /\ Remains(p) /\ ClientsInv
  BY DEF WatchedInv, ClientsInv, CommandInv
<1>1. CASE run'[p].pc \notin Moving
  BY <1>1 DEF Remains, Moving
<1>2. CASE Journal(p) /\ engine' # engine
  <2>1. /\ engine' = [NoEngine EXCEPT !.tx = run[p].tx]
        /\ Work(p, "forward", Changed(run[p].tx))
    BY <1>2 DEF Journal, Untouched
  <2>2. engine'.tx = run[p].tx /\ engine'.decided = "none"
    BY <2>1 DEF NoEngine
  <2>3. run'[p] = [pc |-> "forward", kind |-> run[p].kind, op |-> run[p].op,
                   tx |-> run[p].tx, todo |-> Changed(run[p].tx)]
    BY <1>0, <2>1, WorksRun
  <2> QED BY <2>2, <2>3 DEF Remains, Changed
<1>3. CASE ~Archive(p) /\ ~Decides(p) /\ ~(Journal(p) /\ engine' # engine)
  <2>1. engine'.tx = engine.tx /\ engine'.decided = engine.decided /\ UNCHANGED touched
    BY <1>0, <1>3, VisibleSteps
  <2>2. CASE UNCHANGED run
    BY <1>0, <2>1, <2>2 DEF Remains, Changed
  <2>3. CASE Retreat(p)
    <3>1. run'[p] = [pc |-> "retreat", kind |-> run[p].kind, op |-> run[p].op,
                     tx |-> run[p].tx, todo |-> Published(engine.tx)]
      BY <1>0, <2>3, WorksRun DEF Retreat
    <3>2. engine.decided = "none"
      BY <1>0, <2>3 DEF Retreat, Remains, Moving
    <3> QED BY <2>1, <3>1, <3>2 DEF Remains
  <2>4. CASE Recover(p)
    BY <2>1, <2>4, RecoveryRemains
  <2>5. CASE run' # run /\ ~Retreat(p) /\ ~Recover(p)
    <3>1. run'[p].pc \notin Moving
      <4>1. CASE StartApply(p) \/ StartRecover(p)
        <5>1. PICK pc \in {"replan", "recover"} : \E kind, op, tx :
                 run' = [run EXCEPT ![p] = [pc |-> pc, kind |-> kind, op |-> op, tx |-> tx]]
          BY <4>1 DEF StartApply, StartRecover, Start
        <5>2. PICK kind, op, tx :
                 run' = [run EXCEPT ![p] = [pc |-> pc, kind |-> kind, op |-> op, tx |-> tx]]
          BY <5>1
        <5>3. run'[p] = [pc |-> pc, kind |-> kind, op |-> op, tx |-> tx]
          BY <1>0, <5>2, RunUpdate
        <5> QED BY <5>3 DEF Moving
      <4>2. CASE \E state, reason, tx : Reply(p, state, reason, tx)
        <5>1. PICK state, reason, tx : Reply(p, state, reason, tx)
          BY <4>2
        <5>2. run'[p] = [pc |-> "write", state |-> state, reason |-> reason, tx |-> tx]
          BY <1>0, <5>1, RepliesRun
        <5> QED BY <5>2 DEF Moving
      <4>3. CASE Replan(p)
        <5>1. run[p].pc \in Asking
          BY <4>3 DEF Replan, Asking
        <5>2. CASE \E pc \in {"replay", "engine"} : Goto(p, pc)
          BY <1>0, <5>1, <5>2, GoesRun DEF Moving
        <5> QED BY <4>2, <4>3, <5>2, ReplanOutcomes
      <4>4. CASE End(p)
        BY <1>0, <4>4, EndsRun DEF Idle, Moving
      <4>5. CASE ReplayApplied(p) \/ Compact(p) \/ GiveUp(p)
        BY <4>2, <4>5 DEF ReplayApplied, Compact, GiveUp
      <4>6. CASE Journal(p)
        <5>1. engine = engine'
          BY <1>3, <4>6
        <5>2. CASE engine' = [NoEngine EXCEPT !.tx = run[p].tx] /\ ~Pending
          <6>1. engine'.tx = run[p].tx /\ engine.tx = NoTx
            BY <5>2 DEF NoEngine, Pending
          <6>2. Approved(run[p].tx)
            BY <1>0, <4>6 DEF Journal, CommandInv, Asks, Asking
          <6> QED
            BY <1>0, <5>1, <6>1, <6>2
               DEF ClientsInv, PlansKnown, ProperPlan, Approved, NoTx, Client
        <5> QED BY <4>2, <4>6, <5>2 DEF Journal
      <4>7. CASE WriteReady(p) \/ Write(p) \/ Signal(p) \/ Restore(p) \/ Crash(p)
        BY <2>5, <4>4, <4>7 DEF WriteReady, Write, Signal, Restore, Crash, Die
      <4> QED
        BY <1>3, <2>5, <4>1, <4>3, <4>5, <4>6, <4>7 DEF CommandStep, Decides
    <3> QED BY <1>1, <3>1
  <2> QED BY <2>2, <2>3, <2>4, <2>5
<1>4. CASE Archive(p) \/ Decides(p)
  <2>1. \E pc \in {"archive", "compact"} : Goto(p, pc)
    BY <1>4, DecisionMoves DEF Settle, Archive
  <2>2. run[p].pc \in Asking \cup Holding
    BY <1>4 DEF Decides, Commit, RollBack, Recovered, Archive, Holding, Moving
  <2>3. run'[p].pc \in {"archive", "compact"}
    BY <1>0, <2>1, <2>2, GoesRun
  <2> QED BY <1>1, <2>3 DEF Moving
<1> QED BY <1>2, <1>3, <1>4

LEMMA OthersRemain ==
    ASSUME WatchedInv, NEW p \in Process, CommandStep(p), Watch,
           NEW q \in Process, q # p
    PROVE  Remains(q)'
<1>1. RecordsWhole /\ CommandInv(p) /\ CommandInv(q) /\ Remains(q)
  BY DEF WatchedInv, ClientsInv
<1>2. run'[q] = run[q]
  BY <1>1, OwnRunOnly DEF CommandInv, OnlyRunOf
<1>3. CASE run[q].pc \notin Moving
  BY <1>2, <1>3 DEF Remains, Moving
<1>4. CASE run[q].pc \in Moving
  <2>1. holder = q /\ q # Nobody
    BY <1>1, <1>4, ClientsAssumption DEF CommandInv, Works, Holding
  <2>2. UNCHANGED engine
    BY <1>1, <2>1, StepFrames DEF CommandInv
  <2>3. touched' = touched
    BY <1>1, <2>2, WatchStep DEF Found
  <2> QED BY <1>1, <1>2, <2>2, <2>3 DEF Remains, Changed
<1> QED BY <1>3, <1>4

LEMMA WatchedCommand ==
    ASSUME WatchedInv, NEW p \in Process, CommandStep(p), Watch
    PROVE  WatchedInv'
<1>1. ClientsInv'
  BY CommandKeeps DEF WatchedInv
<1>2. \A q \in Process : Remains(q)'
  BY OwnRemains, OthersRemain
<1>3. UNCHANGED reviewed
  BY StepFrames DEF WatchedInv, ClientsInv, CommandInv
<1>4. \A plan \in reviewed' : PlanWhole(plan)
  BY <1>3 DEF WatchedInv
<1> QED BY <1>1, <1>2, <1>4, CommandAccounts DEF WatchedInv, PlanWhole

LEMMA WatchedReview ==
    ASSUME WatchedInv, NEW client \in Client, NEW v \in Version, NEW op \in Operation[client],
           Review(client, op, v), Watch
    PROVE  WatchedInv' /\ UNCHANGED <<file, engine, touched>>
<1> DEFINE tx == PlanTransaction(client, op, v, file)
           plan == [op |-> op, tx |-> tx]
<1>1. /\ UNCHANGED <<file, engine, run, spent>>
      /\ reviewed' = reviewed \cup {plan}
  BY DEF Review, Untouched
<1>2. UNCHANGED touched
  BY <1>1 DEF Watch, Edited, Found
<1>3. ClientsInv'
  BY ReviewKeeps DEF WatchedInv
<1>4. PlanWhole(plan)
  <2>1. \A i \in Target[client] : file[i] \in Contents
    BY DEF WatchedInv, FilesAccounted, Files
  <2>2. {v, "absent"} \subseteq Contents
    BY DEF Contents
  <2> QED BY <2>1, <2>2 DEF PlanWhole, PlanTransaction
<1>5. \A other \in reviewed' : PlanWhole(other)
  BY <1>1, <1>4 DEF WatchedInv
<1>6. FilesAccounted'
  BY <1>1, <1>2 DEF WatchedInv, FilesAccounted, Image
<1>7. \A q \in Process : Remains(q)'
  BY <1>1, <1>2 DEF WatchedInv, Remains, Changed
<1> QED BY <1>1, <1>2, <1>3, <1>5, <1>6, <1>7 DEF WatchedInv, PlanWhole

LEMMA WatchedEdit ==
    ASSUME WatchedInv, NEW i \in DOMAIN file, NEW content \in Contents, Edit(i, content), Watch
    PROVE  /\ WatchedInv' /\ touched' = touched \cup {i} /\ UNCHANGED engine
           /\ \A j \in DOMAIN file : j # i => file'[j] = file[j]
<1>1. /\ file' = [file EXCEPT ![i] = content] /\ file[i] # content
      /\ UNCHANGED <<engine, run, reviewed>> /\ Spend("edits")
  BY DEF Edit, Trouble, Quiet
<1>2. RecordsWhole
  BY DEF WatchedInv, ClientsInv
<1>3. spent'.edits > spent.edits
  <2>1. spent'.edits = spent.edits + 1 /\ spent.edits \in Nat
    BY <1>1, <1>2, SpendCounts DEF RecordsWhole
  <2> QED BY <2>1
<1>4. touched' = touched \cup {i}
  <2>1. Edited = {i}
    BY <1>1, <1>3 DEF Edited
  <2>2. Found = {}
    BY <1>1 DEF Found
  <2> QED BY <2>1, <2>2 DEF Watch
<1>5. ClientsInv'
  BY EditKeeps DEF WatchedInv
<1>6. FilesAccounted'
  <2>1. file' \in Files
    BY <1>1 DEF WatchedInv, FilesAccounted, Files
  <2>2. engine.tx # NoTx => \A j \in Target[engine.tx.client] \ touched' : file'[j] = file[j]
    <3>1. engine.tx # NoTx => Target[engine.tx.client] \subseteq DOMAIN file
      BY OpenIsPlanned DEF WatchedInv, FilesAccounted, Files
    <3> QED BY <1>1, <1>4, <3>1
  <2> QED BY <1>1, <1>4, <2>1, <2>2 DEF WatchedInv, FilesAccounted, Image
<1>7. \A q \in Process : Remains(q)'
  BY <1>1, <1>4 DEF WatchedInv, Remains, Changed
<1> QED BY <1>1, <1>4, <1>5, <1>6, <1>7 DEF WatchedInv, PlanWhole

LEMMA WatchedStart == ClientsInit /\ touched = {} => WatchedInv
<1> SUFFICES ASSUME ClientsInit, touched = {} PROVE WatchedInv
  OBVIOUS
<1>1. ClientsInv
  BY ClientsStart
<1>2. file \in Files /\ engine.tx = NoTx
  BY DEF ClientsInit, Files, Contents, NoEngine
<1>3. \A p \in Process : run[p].pc = "idle"
  BY DEF ClientsInit, Idle
<1>4. \A p \in Process : Remains(p)
  BY <1>3 DEF Remains, Moving
<1>5. reviewed = {}
  BY DEF ClientsInit
<1> QED BY <1>1, <1>2, <1>4, <1>5 DEF WatchedInv, FilesAccounted

LEMMA WatchedKeeps ==
    WatchedInv /\ [ClientsNext /\ Watch]_watchedVars => WatchedInv'
<1> SUFFICES ASSUME WatchedInv, [ClientsNext /\ Watch]_watchedVars PROVE WatchedInv'
  OBVIOUS
<1>1. CASE UNCHANGED watchedVars
  <2>1. ClientsInv'
    BY <1>1, ClientsKeep DEF WatchedInv, watchedVars
  <2>2. UNCHANGED <<file, engine, run, reviewed, touched>>
    BY <1>1 DEF watchedVars, clientVars
  <2> QED BY <2>1, <2>2 DEF WatchedInv, FilesAccounted, Image, PlanWhole, Remains, Changed
<1>2. CASE ClientsNext /\ Watch
  BY <1>2, WatchedReview, WatchedCommand, WatchedEdit DEF ClientsNext
<1> QED BY <1>1, <1>2

LEMMA WatchedAlways == WatchedSpec => []WatchedInv
BY WatchedStart, WatchedKeeps, PTL DEF WatchedSpec

-----------------------------------------------------------------------------
(* Every step is one that the client's view allows, or none it sees.       *)

LEMMA ViewStutters ==
    ASSUME NEW client \in Client, engine'.tx = engine.tx, engine'.decided = engine.decided,
           \A i \in Target[client] : /\ i \in touched' <=> i \in touched
                                     /\ ~Seen(client) => file'[i] = file[i]
    PROVE  UNCHANGED View(client)!vars
<1>1. UNCHANGED <<SeenOpen(client), SeenDecided(client), SeenValue(client)>>
  BY DEF SeenOpen, SeenDecided, SeenValue, Seen
<1> QED BY <1>1 DEF View!vars

LEMMA JournalBegins ==
    ASSUME WatchedInv, NEW client \in Client, NEW p \in Process, engine.tx = NoTx,
           engine' = [NoEngine EXCEPT !.tx = run[p].tx], Approved(run[p].tx),
           AllBefore(run[p].tx), touched' = touched \ Target[run[p].tx.client], UNCHANGED file
    PROVE  [View(client)!Next]_(View(client)!vars)
<1>1. engine'.tx = run[p].tx /\ engine'.decided = "none"
  BY DEF NoEngine
<1>2. PICK plan \in reviewed : plan.tx = run[p].tx
  BY DEF Approved
<1>3. ProperPlan(plan) /\ PlanWhole(plan)
  BY DEF WatchedInv, ClientsInv, PlansKnown
<1>4. engine'.tx # NoTx /\ run[p].tx.client \in Client
  BY <1>1, <1>2, <1>3 DEF ProperPlan, NoTx, Client
<1>5. ~Seen(client) /\ engine.decided = "none"
  BY DEF Seen, WatchedInv, ClientsInv, DecisionKnown
<1>6. CASE run[p].tx.client # client
  <2>1. ~Seen(client)'
    BY <1>1, <1>6 DEF Seen
  <2>2. Target[client] \cap Target[run[p].tx.client] = {}
    BY <1>4, <1>6, TargetsDisjoint
  <2>3. UNCHANGED <<SeenOpen(client), SeenDecided(client), SeenValue(client)>>
    BY <1>5, <2>1, <2>2 DEF SeenOpen, SeenDecided, SeenValue
  <2> QED BY <2>3 DEF View!vars
<1>7. CASE run[p].tx.client = client
  <2> DEFINE before == run[p].tx.before
             after == run[p].tx.after
  <2>1. before \in [Target[client] -> Contents] /\ after \in [Target[client] -> Contents]
    BY <1>2, <1>3, <1>7 DEF PlanWhole
  <2>2. Seen(client)'
    BY <1>1, <1>4, <1>7 DEF Seen
  <2>3. SeenOpen(client) = NoTx /\ SeenOpen(client)' = [before |-> before, after |-> after]
    BY <1>1, <1>5, <2>2 DEF SeenOpen
  <2>4. SeenDecided(client)' = "none"
    BY <1>1 DEF SeenDecided
  <2>5. \A i \in Target[client] : SeenValue(client)[i] \in {before[i], "foreign"}
    BY <1>5, <1>7 DEF SeenValue, AllBefore
  <2>6. SeenValue(client)' = [i \in Target[client] |-> IF i \in {} THEN "foreign" ELSE before[i]]
    BY <1>1, <1>7, <2>2 DEF SeenValue
  <2>7. SeenValue(client)' \in {[i \in Target[client] |-> IF i \in F THEN "foreign" ELSE before[i]] :
                                    F \in SUBSET Target[client]}
    <3> DEFINE Observed(F) == [i \in Target[client] |-> IF i \in F THEN "foreign" ELSE before[i]]
    <3>1. SeenValue(client)' = Observed({})
      BY <2>6
    <3> HIDE DEF Observed
    <3>2. SeenValue(client)' \in {Observed(F) : F \in SUBSET Target[client]}
      BY <3>1
    <3> QED BY <3>2 DEF Observed
  <2>8. View(client)!Begin(before, after)
    BY <2>3, <2>4, <2>5, <2>7 DEF View!Begin
  <2> QED BY <2>1, <2>8 DEF View!Next, View!Vector
<1> QED BY <1>6, <1>7

LEMMA DecisionDecides ==
    ASSUME WatchedInv, NEW client \in Client, NEW p \in Process, Decides(p), UNCHANGED touched
    PROVE  [View(client)!Next]_(View(client)!vars)
<1>1. PICK outcome \in {"applied", "rolled_back"} :
         Settle(p, outcome) /\ run[p].pc \in Moving
  BY DecisionMoves DEF Moving
<1>2. /\ engine.tx # NoTx /\ run[p].todo \subseteq Changed(engine.tx)
      /\ engine.decided = "none" /\ RecordsWhole
  BY <1>1 DEF WatchedInv, Remains, ClientsInv, CommandInv, Works, Holding, Moving
<1>3. engine'.tx = engine.tx /\ engine'.decided = outcome
  BY <1>1, <1>2 DEF Settle, RecordsWhole
<1>4. CASE Seen(client)
  <2>1. Seen(client)'
    BY <1>3, <1>4 DEF Seen
  <2>2. UNCHANGED <<SeenOpen(client), SeenValue(client)>>
    BY <1>3, <1>4, <2>1 DEF SeenOpen, SeenValue
  <2>3. /\ SeenOpen(client) # NoTx
        /\ SeenDecided(client) = "none" /\ SeenDecided(client)' = outcome
    BY <1>2, <1>3, <1>4, <2>1 DEF SeenOpen, SeenDecided, NoTx
  <2> QED BY <2>2, <2>3 DEF View!Next, View!Decide
<1>5. CASE ~Seen(client)
  <2>1. engine.tx.client \in Client /\ engine.tx.client # client
    BY <1>2, <1>5, OpenIsPlanned DEF Seen
  <2>2. run[p].todo \cap Target[client] = {}
    BY <1>2, <2>1, TargetsDisjoint DEF Changed
  <2>3. ~Seen(client)'
    BY <1>3, <1>5 DEF Seen
  <2>4. Target[client] \subseteq DOMAIN file
    BY DEF WatchedInv, FilesAccounted, Files
  <2>5. \A i \in Target[client] : file'[i] = file[i]
    BY <1>1, <2>2, <2>4 DEF Settle
  <2>6. UNCHANGED <<SeenOpen(client), SeenDecided(client), SeenValue(client)>>
    BY <1>5, <2>3, <2>5 DEF SeenOpen, SeenDecided, SeenValue
  <2> QED BY <2>6 DEF View!vars
<1> QED BY <1>4, <1>5

LEMMA ArchiveCloses ==
    ASSUME WatchedInv, NEW client \in Client, engine.tx # NoTx, engine.decided # "none",
           engine' = NoEngine, UNCHANGED <<file, touched>>
    PROVE  [View(client)!Next]_(View(client)!vars)
<1>1. engine'.tx = NoTx /\ ~Seen(client)'
  BY DEF NoEngine, Seen
<1>2. SeenOpen(client)' = NoTx /\ SeenDecided(client)' = "none"
  BY <1>1 DEF SeenOpen, SeenDecided
<1>3. SeenValue(client)' = [i \in Target[client] |-> IF i \in touched THEN "foreign" ELSE file[i]]
  BY <1>1 DEF SeenValue
<1>4. CASE ~Seen(client)
  <2>1. UNCHANGED <<SeenOpen(client), SeenDecided(client), SeenValue(client)>>
    BY <1>2, <1>3, <1>4 DEF SeenOpen, SeenDecided, SeenValue
  <2> QED BY <2>1 DEF View!vars
<1>5. CASE Seen(client)
  <2>1. SeenOpen(client) = [before |-> engine.tx.before, after |-> engine.tx.after]
    BY <1>5 DEF SeenOpen
  <2>2. SeenOpen(client) # NoTx /\ SeenDecided(client) = engine.decided
    BY <1>5, <2>1 DEF SeenDecided, NoTx
  <2>3. \A i \in Target[client] : engine.tx.before[i] # "foreign"
    BY <1>5, OpenIsPlanned DEF Seen
  <2>4. \A i \in Target[client] : SeenValue(client)[i] = "foreign" <=> i \in touched
    BY <1>5, <2>3 DEF SeenValue
  <2>5. \A i \in Target[client] : View(client)!Result(i) = Image(i)
    BY <2>1, <2>2 DEF View!Result, Image
  <2>6. \A i \in Target[client] \ touched : file[i] = Image(i)
    BY <1>5 DEF Seen, WatchedInv, FilesAccounted
  <2>7. SeenValue(client)' = [i \in Target[client] |-> IF SeenValue(client)[i] = "foreign"
                                                       THEN "foreign" ELSE View(client)!Result(i)]
    BY <1>3, <2>4, <2>5, <2>6
  <2>8. View(client)!Close
    BY <1>2, <2>2, <2>7 DEF View!Close
  <2> QED BY <2>8 DEF View!Next
<1> QED BY <1>4, <1>5

LEMMA EditIsSeen ==
    ASSUME WatchedInv, NEW client \in Client, NEW i \in DOMAIN file, NEW content \in Contents,
           Edit(i, content), Watch
    PROVE  [View(client)!Next]_(View(client)!vars)
<1>1. /\ touched' = touched \cup {i} /\ UNCHANGED engine
      /\ \A j \in DOMAIN file : j # i => file'[j] = file[j]
  BY WatchedEdit
<1>2. Target[client] \subseteq DOMAIN file
  BY DEF WatchedInv, FilesAccounted, Files
<1>3. CASE i \notin Target[client]
  BY <1>1, <1>2, <1>3, ViewStutters
<1>4. CASE i \in Target[client]
  <2>1. UNCHANGED <<SeenOpen(client), SeenDecided(client)>>
    BY <1>1 DEF SeenOpen, SeenDecided, Seen
  <2>2. SeenValue(client)' = [SeenValue(client) EXCEPT ![i] = "foreign"]
    BY <1>1, <1>2, <1>4 DEF SeenValue, Seen
  <2>3. View(client)!Edit(i)
    BY <2>1, <2>2 DEF View!Edit
  <2> QED BY <1>4, <2>3 DEF View!Next
<1> QED BY <1>3, <1>4

\* Each client finds its own transactions atomic, as the engine promises them: whatever
\* the other client does with the engine it shares, whoever applies, retries, recovers,
\* edits or is interrupted.
THEOREM ClientsSeeAtomicity ==
    ASSUME NEW client \in Client
    PROVE  WatchedSpec => View(client)!Spec
<1>1. ClientsInit /\ touched = {} => View(client)!Init
  <2> SUFFICES ASSUME ClientsInit, touched = {} PROVE View(client)!Init
    OBVIOUS
  <2>1. ~Seen(client) /\ file \in Files
    BY WatchedStart DEF ClientsInit, NoEngine, Seen, WatchedInv, FilesAccounted
  <2>2. SeenValue(client) \in [Target[client] -> Contents]
    BY <2>1 DEF SeenValue, Files
  <2>3. SeenOpen(client) = NoTx /\ SeenDecided(client) = "none"
    BY <2>1 DEF SeenOpen, SeenDecided
  <2> QED BY <2>2, <2>3 DEF View!Init, View!Vector
<1>2. WatchedInv /\ [ClientsNext /\ Watch]_watchedVars =>
         [View(client)!Next]_(View(client)!vars)
  <2> SUFFICES ASSUME WatchedInv, [ClientsNext /\ Watch]_watchedVars
               PROVE  [View(client)!Next]_(View(client)!vars)
    OBVIOUS
  <2>1. CASE UNCHANGED <<engine, file, touched>>
    BY <2>1, ViewStutters
  <2>2. CASE UNCHANGED watchedVars
    BY <2>1, <2>2 DEF watchedVars, clientVars
  <2>3. ASSUME NEW other \in Client, NEW v \in Version, NEW op \in Operation[other],
               Review(other, op, v), Watch
        PROVE  UNCHANGED <<engine, file, touched>>
    BY <2>3, WatchedReview
  <2>4. ASSUME NEW p \in Process, CommandStep(p), Watch
        PROVE  [View(client)!Next]_(View(client)!vars)
    <3>1. CASE /\ engine'.tx = engine.tx /\ engine'.decided = engine.decided
               /\ UNCHANGED <<file, touched>>
      BY <3>1, ViewStutters
    <3> QED BY <2>4, <3>1, VisibleSteps, ArchiveCloses, DecisionDecides, JournalBegins
            DEF WatchedInv
  <2>5. ASSUME NEW i \in DOMAIN file, NEW content \in Contents, Edit(i, content), Watch
        PROVE  [View(client)!Next]_(View(client)!vars)
    BY <2>5, EditIsSeen
  <2> QED BY <2>1, <2>2, <2>3, <2>4, <2>5 DEF ClientsNext
<1> QED BY <1>1, <1>2, WatchedAlways, PTL DEF WatchedSpec, View!Spec
=============================================================================

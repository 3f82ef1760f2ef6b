--------------------------- MODULE PreparationResidue ---------------------------
(***************************************************************************)
(* The quarantine of preparation residue: an active directory that is empty *)
(* or holds an unreadable journal has no transaction identity and blocks    *)
(* the engine.  An operator inspects it, obtains an observation, and later  *)
(* asks to move exactly what was observed to a destination named after the  *)
(* observation.  The call may fail, be cancelled or crash at every step,    *)
(* the operator may ask again, and somebody without the lock may change     *)
(* either directory at any time.                                            *)
(***************************************************************************)
EXTENDS Integers

CONSTANTS
    Operator,
    NoNode,     \* nothing at a path
    Nobody,     \* nobody holds the lock
    MaxNodes,   \* bound: directories ever made
    MaxForeign  \* bound: foreign changes

ASSUME ResidueAssumption ==
    MaxNodes \in Nat \ {0} /\ MaxForeign \in Nat /\ Nobody \notin Operator

\* A directory is known by its inode and what is in it: nothing, a journal.tmp
\* that is not a journal, or a journal that can be admitted.
Body == {"empty", "torn", "admitted"}
Node == [id : 1 .. MaxNodes, body : Body]

ASSUME NoNodeAssumption == NoNode \notin Node

VARIABLES
    active,     \* the directory at the active path
    dest,       \* the directory at the destination of each observation
    nodes,      \* directories made so far
    foreign,    \* foreign changes so far
    known,      \* observations that inspections returned
    lock,       \* holder of the exclusive lock
    stage,      \* "idle", "check", "confirm", "rename", "sync" or "verify"
    expected,   \* the observation the call was given
    published,  \* the rename was done
    result,     \* of the last call
    moved,      \* history: the last call moved a directory
    retry,      \* history: the destination existed when it began
    disturbed,  \* history: a foreign change fell into it
    touched     \* history: what foreign changes took away or altered

residueVars == <<active, dest, nodes, foreign, known, lock, stage, expected,
                 published, result, moved, retry, disturbed, touched>>
tree == <<active, dest, nodes, foreign, touched>>

Eligible(n) == n # NoNode /\ n.body # "admitted"

Observation == {n \in Node : n.body # "admitted"}

NoCall == [id |-> 0, body |-> "empty"]

Plain == {"present", "absent", "ineligible", "changed", "failed"}
Result == Plain \cup {"none", "quarantined", "unverified"}

-----------------------------------------------------------------------------
(* The call *)

\* inspectPreparationResidue: nothing but residue has an observation.
Inspect(p) ==
    /\ stage[p] = "idle"
    /\ lock = Nobody
    /\ known' = known \cup {n \in {active} : Eligible(n)}
    /\ UNCHANGED <<tree, lock, stage, expected, published, result, moved, retry, disturbed>>

Quarantine(p, e) ==
    /\ stage[p] = "idle"
    /\ lock = Nobody
    /\ e \in known
    /\ lock' = p
    /\ stage' = [stage EXCEPT ![p] = "check"]
    /\ expected' = [expected EXCEPT ![p] = e]
    /\ published' = [published EXCEPT ![p] = FALSE]
    /\ result' = [result EXCEPT ![p] = "none"]
    /\ moved' = [moved EXCEPT ![p] = FALSE]
    /\ retry' = [retry EXCEPT ![p] = dest[e] # NoNode]
    /\ disturbed' = [disturbed EXCEPT ![p] = FALSE]
    /\ UNCHANGED <<tree, known>>

\* The end of a call: once the move is published no error is an ordinary one.
ForgetPublicationVariant(p, r) == r
Reported(p, r) == IF published[p] /\ r # "quarantined" THEN "unverified" ELSE r

End(p, r) ==
    /\ lock' = Nobody
    /\ stage' = [stage EXCEPT ![p] = "idle"]
    /\ result' = [result EXCEPT ![p] = Reported(p, r)]
    /\ UNCHANGED <<tree, known, expected, published, moved, retry, disturbed>>

Continue(p, c) ==
    /\ stage' = [stage EXCEPT ![p] = c]
    /\ UNCHANGED <<tree, known, lock, expected, published, result, moved, retry, disturbed>>

DestinationAbsent(e) == dest[e] = NoNode

AnyResidueVariant(n, e) == Eligible(n)
SameDirectoryVariant(n, e) == n # NoNode /\ n.id = e.id
Matches(n, e) == n = e

\* Why the observation of the active directory ends the call.
Mismatch(p) ==
    CASE active = NoNode -> "absent"
      [] active # NoNode /\ ~Eligible(active) -> "ineligible"
      [] OTHER -> "changed"

\* Why a call is refused at once: the destination comes first, before even the
\* active directory is looked at.
ActiveFirstVariant(p) ==
    IF ~Matches(active, expected[p]) THEN Mismatch(p) ELSE "present"

FirstRefusal(p) ==
    IF ~DestinationAbsent(expected[p]) THEN "present" ELSE Mismatch(p)

Check(p) ==
    /\ stage[p] = "check"
    /\ IF DestinationAbsent(expected[p]) /\ Matches(active, expected[p])
         THEN Continue(p, "confirm")
         ELSE End(p, FirstRefusal(p))

\* Everything is looked at again after the parent of the destination was made.
Confirm(p) ==
    /\ stage[p] = "confirm"
    /\ CASE ~Matches(active, expected[p]) ->
                End(p, IF Mismatch(p) = "ineligible" THEN "ineligible" ELSE "changed")
         [] Matches(active, expected[p]) /\ ~DestinationAbsent(expected[p]) ->
                End(p, "present")
         [] OTHER -> Continue(p, "rename")

\* A rename of a directory needs a source, and replaces an empty directory.
Renames(p) ==
    /\ active # NoNode
    /\ LET d == dest[expected[p]] IN d # NoNode => d.body = "empty"

Rename(p) ==
    /\ stage[p] = "rename"
    /\ Renames(p)
    /\ dest' = [dest EXCEPT ![expected[p]] = active]
    /\ active' = NoNode
    /\ published' = [published EXCEPT ![p] = TRUE]
    /\ moved' = [moved EXCEPT ![p] = TRUE]
    /\ stage' = [stage EXCEPT ![p] = "sync"]
    /\ UNCHANGED <<nodes, foreign, touched, known, lock, expected, result, retry, disturbed>>

RenameFails(p) ==
    /\ stage[p] = "rename"
    /\ ~Renames(p)
    /\ End(p, "failed")

Sync(p) == stage[p] = "sync" /\ Continue(p, "verify")

\* What was moved is observed at the destination.
MovedAsExpected(p) == active = NoNode /\ Matches(dest[expected[p]], expected[p])

Verify(p) ==
    /\ stage[p] = "verify"
    /\ End(p, IF MovedAsExpected(p) THEN "quarantined" ELSE "changed")

\* Any step can fail or find the context cancelled: a sync, a lookup, a lock
\* that cannot be released.
Fail(p) == stage[p] # "idle" /\ End(p, "failed")

\* The process dies: the lock is free, and nobody hears of the call.
Crash(p) ==
    /\ stage[p] # "idle"
    /\ lock' = Nobody
    /\ stage' = [stage EXCEPT ![p] = "idle"]
    /\ result' = [result EXCEPT ![p] = "none"]
    /\ UNCHANGED <<tree, known, expected, published, moved, retry, disturbed>>

-----------------------------------------------------------------------------
(* The surroundings *)

Fresh(b) == [id |-> nodes + 1, body |-> b]

\* The engine publishes a journal under the lock and removes it in the end; an
\* earlier version of it made the active directory first and filled it later.
EngineWorks ==
    /\ lock = Nobody
    /\ \/ /\ active = NoNode /\ nodes < MaxNodes
          /\ nodes' = nodes + 1
          /\ \E b \in Body : active' = Fresh(b)
       \/ /\ active # NoNode /\ active.body = "admitted"
          /\ active' = NoNode
          /\ UNCHANGED nodes
    /\ UNCHANGED <<dest, foreign, touched, known, lock, stage, expected, published, result,
                   moved, retry, disturbed>>

\* Somebody without the lock replaces, fills, empties or removes a directory.
Disturbance(n, m) ==
    \/ m = NoNode /\ nodes' = nodes
    \/ nodes < MaxNodes /\ (\E b \in Body : m = Fresh(b)) /\ nodes' = nodes + 1
    \/ n # NoNode /\ (\E b \in Body : m = [n EXCEPT !.body = b]) /\ nodes' = nodes

Disturb ==
    /\ foreign < MaxForeign
    /\ foreign' = foreign + 1
    /\ \/ \E m \in Node \cup {NoNode} :
            /\ Disturbance(active, m) /\ active' = m /\ UNCHANGED dest
            /\ touched' = touched \cup {active}
       \/ \E e \in known : \E m \in Node \cup {NoNode} :
            /\ Disturbance(dest[e], m) /\ dest' = [dest EXCEPT ![e] = m] /\ UNCHANGED active
            /\ touched' = touched \cup {dest[e]}
    /\ disturbed' = [p \in Operator |-> disturbed[p] \/ stage[p] # "idle"]
    /\ UNCHANGED <<known, lock, stage, expected, published, result, moved, retry>>

-----------------------------------------------------------------------------
ResidueInit ==
    /\ \E b \in Body : active = [id |-> 1, body |-> b]
    /\ dest = [e \in Observation |-> NoNode]
    /\ nodes = 1
    /\ foreign = 0
    /\ known = {}
    /\ lock = Nobody
    /\ stage = [p \in Operator |-> "idle"]
    /\ expected = [p \in Operator |-> NoCall]
    /\ published = [p \in Operator |-> FALSE]
    /\ result = [p \in Operator |-> "none"]
    /\ moved = [p \in Operator |-> FALSE]
    /\ retry = [p \in Operator |-> FALSE]
    /\ disturbed = [p \in Operator |-> FALSE]
    /\ touched = {}

Call(p) ==
    \/ Inspect(p)
    \/ \E e \in known : Quarantine(p, e)
    \/ Check(p) \/ Confirm(p) \/ Rename(p) \/ RenameFails(p) \/ Sync(p) \/ Verify(p)
    \/ Fail(p) \/ Crash(p)

ResidueNext == (\E p \in Operator : Call(p)) \/ EngineWorks \/ Disturb

ResidueSpec == ResidueInit /\ [][ResidueNext]_residueVars

-----------------------------------------------------------------------------
(* Properties *)

\* Residue that was observed is still where it was, or in the directory named after
\* its observation, with the content it had: no mixture of failed, repeated, dead and
\* competing calls loses it or files it under another name.  Only who changes the
\* directories without the lock can (residue.go, 151-229).
ResidueIsKept == \A e \in known : e \in touched \/ active = e \/ dest[e] = e

\* The outcome of a call that answers tells whether it moved anything: an
\* ordinary error means that it did not, an unverified outcome that it did
\* (residue.go, 140-149 and 203-225).
OutcomeIsHonest ==
    \A p \in Operator :
      stage[p] = "idle" =>
        /\ result[p] \in Plain => ~moved[p]
        /\ result[p] \in {"quarantined", "unverified"} => moved[p]

MovesResidueOnly ==
    \A p \in Operator :
      /\ moved[p] = FALSE
      /\ moved'[p]
      /\ ~disturbed[p]
      => Eligible(active) /\ dest[expected[p]] = NoNode

\* Unless somebody interferes during the call, what it moves is residue, never
\* a journal that recovery could still use, and it replaces nothing (residue.go,
\* 159-200).
JournalStaysPut == [][MovesResidueOnly]_residueVars

\* A call repeated after its answer was lost says that the destination is
\* there, whatever has become of the active directory since (residue.go,
\* 159-163).
RetryIsRecognised ==
    \A p \in Operator :
      stage[p] = "idle" /\ retry[p] /\ ~disturbed[p] =>
        result[p] \in {"none", "present", "failed"}

=============================================================================

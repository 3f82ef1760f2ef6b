-------------------------- MODULE SchedulerConflicts --------------------------
(***************************************************************************)
(* The interference check of a witness scheduler plan: the failures that    *)
(* parallelConflictCauses reports for one parallel group.  It visits the    *)
(* policies of the group's commands in the order of their ids, remembering  *)
(* which locks, reads and writes were seen, and then sweeps the selectors   *)
(* of the group in lexical order with a stack of nested prefixes, so that   *)
(* no pair of commands is ever compared.  The properties compare the        *)
(* answer with the comparison of all pairs.                                 *)
(*                                                                          *)
(* A selector is represented by its selectorPrefix; what the sweep uses of  *)
(* strings is the order of strings.Compare and strings.HasPrefix, which are *)
(* the relations Lexical and PrefixOf.                                      *)
(***************************************************************************)
EXTENDS Integers, Sequences, FiniteSets

CONSTANTS
    N,          \* the commands of the group are 1 .. N, in the order of ids
    Prefix,     \* the prefixes selectors are cut to
    Lexical,    \* {<<p, q>> : strings.Compare(p, q) <= 0}
    PrefixOf,   \* {<<p, q>> : strings.HasPrefix(q, p)}
    Name,       \* names of locks and resources
    Policy,     \* the admitted policies
    NoPolicy    \* a command without a policy: another check rejects the plan

ASSUME GroupAssumption == N \in Nat

ASSUME PolicyAssumption ==
    /\ NoPolicy \notin Policy
    /\ Policy \subseteq
         [locks : SUBSET Name, reads : SUBSET Name, writes : SUBSET Name,
          inputs : SUBSET Prefix, outputs : SUBSET Prefix, destructive : BOOLEAN]

\* What is true of strings: a total order in which the extensions of a prefix
\* are an interval that the prefix itself opens.
ASSUME OrderAssumption ==
    /\ \A p \in Prefix : <<p, p>> \in PrefixOf
    /\ \A p, q \in Prefix : <<p, q>> \in PrefixOf => <<p, q>> \in Lexical
    /\ \A p, q \in Prefix : <<p, q>> \in Lexical \/ <<q, p>> \in Lexical
    /\ \A p, q \in Prefix : <<p, q>> \in Lexical /\ <<q, p>> \in Lexical => p = q
    /\ \A p, q, r \in Prefix :
         <<p, q>> \in Lexical /\ <<q, r>> \in Lexical => <<p, r>> \in Lexical
    /\ \A p, q, r \in Prefix :
         <<p, q>> \in PrefixOf /\ <<q, r>> \in PrefixOf => <<p, r>> \in PrefixOf
    /\ \A p, q, r \in Prefix :
         /\ <<p, r>> \in PrefixOf
         /\ <<p, q>> \in Lexical
         /\ <<q, r>> \in Lexical
         => <<p, q>> \in PrefixOf

VARIABLES
    policies,       \* the policies by command
    phase,          \* "visit", "sweep" or "done"
    index,          \* the next command to visit
    seen,           \* the maps locks, reads and writes of the loop
    destructive,
    hasOutputs,
    count,          \* policies visited
    causes,
    pending,        \* the scopes the sweep has not reached, a sorted list
    stack,
    outputOverlap,
    mixedOverlap

vars == <<policies, phase, index, seen, destructive, hasOutputs, count, causes,
          pending, stack, outputOverlap, mixedOverlap>>

scan == <<index, seen, destructive, hasOutputs, count>>
sweep == <<pending, stack, outputOverlap, mixedOverlap>>

Command == 1 .. N
HasPolicy(c) == policies[c] # NoPolicy

Scope == [prefix : Prefix, command : Command, output : BOOLEAN]
Owners == [first : 0 .. N, multiple : BOOLEAN]
Frame == [prefix : Prefix, inputs : Owners, outputs : Owners]

-----------------------------------------------------------------------------
(* The visit of the policies *)

\* Two commands can meet only where two have policies.
Shared == count > 1

CollisionsVariant(p, s) ==
    ({"lock"} \X (p.locks \cap s.locks))
    \cup ({"write/read"} \X (p.reads \cap s.writes))
    \cup ({"read/write"} \X (p.writes \cap (s.reads \cup p.reads)))
    \cup ({"write/write"} \X (p.writes \cap s.writes))

\* The causes that the policy of one command adds to what was seen before it.
Collisions(p, s) ==
    ({"lock"} \X (p.locks \cap s.locks))
    \cup ({"write/read"} \X (p.reads \cap s.writes))
    \cup ({"read/write"} \X (p.writes \cap s.reads))
    \cup ({"write/write"} \X (p.writes \cap s.writes))

SkipCommand ==
    /\ phase = "visit"
    /\ index \in Command
    /\ ~HasPolicy(index)
    /\ index' = index + 1
    /\ UNCHANGED <<policies, phase, seen, destructive, hasOutputs, count, causes, sweep>>

VisitCommand ==
    /\ phase = "visit"
    /\ index \in Command
    /\ HasPolicy(index)
    /\ LET p == policies[index] IN
         /\ causes' = causes \cup Collisions(p, seen)
         /\ seen' = [locks |-> seen.locks \cup p.locks,
                     reads |-> seen.reads \cup p.reads,
                     writes |-> seen.writes \cup p.writes]
         /\ destructive' = (destructive \/ p.destructive)
         /\ hasOutputs' = (hasOutputs \/ p.outputs # {})
    /\ count' = count + 1
    /\ index' = index + 1
    /\ UNCHANGED <<policies, phase, sweep>>

\* parallelSelectorConflicts lists the scopes of every command.
Scopes ==
    UNION {[prefix : policies[c].inputs, command : {c}, output : {FALSE}]
           \cup [prefix : policies[c].outputs, command : {c}, output : {TRUE}] :
             c \in {d \in Command : HasPolicy(d)}}

Sweeps == hasOutputs /\ Shared

EndVisit ==
    /\ phase = "visit"
    /\ index \notin Command
    /\ causes' = IF destructive /\ Shared
                   THEN causes \cup {<<"destructive", "">>} ELSE causes
    /\ phase' = IF Sweeps THEN "sweep" ELSE "done"
    /\ pending' = IF Sweeps THEN Scopes ELSE {}
    /\ UNCHANGED <<policies, scan, stack, outputOverlap, mixedOverlap>>

-----------------------------------------------------------------------------
(* The sweep of the selectors *)

NoOwners == [first |-> 0, multiple |-> FALSE]

AddOwner(o, c) ==
    IF o.first = 0 THEN [o EXCEPT !.first = c]
    ELSE [o EXCEPT !.multiple = o.multiple \/ o.first # c]

HasOther(o, c) == o.multiple \/ (o.first # 0 /\ o.first # c)

\* How much of the stack survives: everything up to the highest frame whose
\* prefix the scope extends.
Survives(n, s) ==
    /\ n \in 0 .. Len(stack)
    /\ n # 0 => <<stack[n].prefix, s.prefix>> \in PrefixOf
    /\ \A i \in n + 1 .. Len(stack) : <<stack[i].prefix, s.prefix>> \notin PrefixOf

AncestorVariant(n, s) ==
    IF n # 0 /\ stack[n].prefix = s.prefix THEN stack[n]
    ELSE [prefix |-> s.prefix, inputs |-> NoOwners, outputs |-> NoOwners]

\* The frame the scope is added to starts with the owners of its surviving
\* ancestor, or of the frame with the same prefix, which it replaces.
Ancestor(n, s) ==
    IF n = 0 THEN [prefix |-> s.prefix, inputs |-> NoOwners, outputs |-> NoOwners]
    ELSE [stack[n] EXCEPT !.prefix = s.prefix]

Base(n, s) ==
    IF n # 0 /\ stack[n].prefix = s.prefix THEN n - 1 ELSE n

Extend(frame, s) ==
    IF s.output THEN [frame EXCEPT !.outputs = AddOwner(frame.outputs, s.command)]
    ELSE [frame EXCEPT !.inputs = AddOwner(frame.inputs, s.command)]

\* The sort is not stable: any scope with the smallest prefix may come next.
Lowest(s) ==
    /\ s \in pending
    /\ \A t \in pending : <<s.prefix, t.prefix>> \in Lexical

SweepScope(s) ==
    /\ phase = "sweep"
    /\ ~(outputOverlap /\ mixedOverlap)
    /\ Lowest(s)
    /\ \E n \in 0 .. Len(stack) :
         /\ Survives(n, s)
         /\ LET frame == Ancestor(n, s) IN
              /\ outputOverlap' =
                   (outputOverlap \/ (s.output /\ HasOther(frame.outputs, s.command)))
              /\ mixedOverlap' =
                   (mixedOverlap \/ HasOther(IF s.output THEN frame.inputs ELSE frame.outputs,
                                             s.command))
              /\ stack' = Append(SubSeq(stack, 1, Base(n, s)), Extend(frame, s))
    /\ pending' = pending \ {s}
    /\ UNCHANGED <<policies, phase, scan, causes>>

EndSweep ==
    /\ phase = "sweep"
    /\ pending = {} \/ (outputOverlap /\ mixedOverlap)
    /\ causes' = causes
         \cup (IF outputOverlap THEN {<<"outputs", "">>} ELSE {})
         \cup (IF mixedOverlap THEN {<<"inputs/outputs", "">>} ELSE {})
    /\ phase' = "done"
    /\ UNCHANGED <<policies, scan, sweep>>

-----------------------------------------------------------------------------
Init ==
    /\ policies \in [Command -> Policy \cup {NoPolicy}]
    /\ phase = "visit"
    /\ index = 1
    /\ seen = [locks |-> {}, reads |-> {}, writes |-> {}]
    /\ destructive = FALSE
    /\ hasOutputs = FALSE
    /\ count = 0
    /\ causes = {}
    /\ pending = {}
    /\ stack = << >>
    /\ outputOverlap = FALSE
    /\ mixedOverlap = FALSE

Next ==
    \/ SkipCommand
    \/ VisitCommand
    \/ EndVisit
    \/ \E s \in pending : SweepScope(s)
    \/ EndSweep

Spec == Init /\ [][Next]_vars

-----------------------------------------------------------------------------
(* The reference: all pairs of commands *)

Pair == {cd \in Command \X Command :
           cd[1] < cd[2] /\ HasPolicy(cd[1]) /\ HasPolicy(cd[2])}

Overlap(P, Q) ==
    \E p \in P, q \in Q : <<p, q>> \in PrefixOf \/ <<q, p>> \in PrefixOf

OutputsOverlap ==
    \E cd \in Pair : Overlap(policies[cd[1]].outputs, policies[cd[2]].outputs)

InputsOverlapOutputs ==
    \E cd \in Pair :
      \/ Overlap(policies[cd[1]].inputs, policies[cd[2]].outputs)
      \/ Overlap(policies[cd[1]].outputs, policies[cd[2]].inputs)

\* "write/read" is a write of an earlier command read by a later one.
ResourceConflicts ==
    UNION {LET p == policies[cd[1]] q == policies[cd[2]] IN
             ({"lock"} \X (p.locks \cap q.locks))
             \cup ({"write/read"} \X (p.writes \cap q.reads))
             \cup ({"read/write"} \X (p.reads \cap q.writes))
             \cup ({"write/write"} \X (p.writes \cap q.writes)) :
           cd \in Pair}

DestructiveNotAlone ==
    \E cd \in Pair : policies[cd[1]].destructive \/ policies[cd[2]].destructive

-----------------------------------------------------------------------------
(* Properties *)

\* The loop over the policies names exactly the locks and resources on which
\* two commands of the group collide, and in which order they do
\* (parallelConflictCauses, 29-57).
ResourceCausesAreExact ==
    phase # "visit" =>
      \A kind \in {"lock", "write/read", "read/write", "write/write"} : \A n \in Name :
        <<kind, n>> \in causes <=> <<kind, n>> \in ResourceConflicts

\* A destructive command is reported exactly when it shares its group
\* (parallelConflictCauses, 58-60).
DestructiveCauseIsExact ==
    phase # "visit" => (<<"destructive", "">> \in causes <=> DestructiveNotAlone)

\* The loop over the policies reports what comparing all pairs reports: no
\* collision and no destructive neighbour is lost or invented
\* (parallelConflictCauses, 29-61).
PolicyReportIsExact == ResourceCausesAreExact /\ DestructiveCauseIsExact

\* The one-pass sweep reports overlapping selectors exactly when some pair of
\* different commands has them, whatever order equal prefixes come in and
\* although the sweep is skipped or ends early (parallelSelectorConflicts,
\* 101-144).
SelectorCausesAreExact ==
    phase = "done" =>
      /\ <<"outputs", "">> \in causes <=> OutputsOverlap
      /\ <<"inputs/outputs", "">> \in causes <=> InputsOverlapOutputs

\* The sweep only speaks of an overlap that exists, at every moment: the
\* owners aggregated in a frame are those of real ancestors, so the early
\* break cannot be taken in error (parallelSelectorConflicts, 137-139).
OverlapIsReal ==
    /\ outputOverlap => OutputsOverlap
    /\ mixedOverlap => InputsOverlapOutputs

\* The sweep reports what comparing all pairs reports, and is right at every
\* moment on its way there (parallelSelectorConflicts, 101-144).
SelectorReportIsExact == SelectorCausesAreExact /\ OverlapIsReal

=============================================================================

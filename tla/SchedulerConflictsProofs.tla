----------------------- MODULE SchedulerConflictsProofs -----------------------
(***************************************************************************)
(* The interference check is exact: for every group of commands, every set  *)
(* of policies and every order of prefixes that behaves like the strings,   *)
(* the one pass over the policies and the one pass over the selectors find  *)
(* what comparing all pairs of commands finds.                              *)
(***************************************************************************)
EXTENDS SchedulerConflicts, TLAPS

Kind == {"lock", "write/read", "read/write", "write/write"}

\* The policies of an earlier and a later command collide on the name n.
Collides(kind, p, q, n) ==
    \/ kind = "lock" /\ n \in p.locks /\ n \in q.locks
    \/ kind = "write/read" /\ n \in p.writes /\ n \in q.reads
    \/ kind = "read/write" /\ n \in p.reads /\ n \in q.writes
    \/ kind = "write/write" /\ n \in p.writes /\ n \in q.writes

-----------------------------------------------------------------------------
(* The visit of the policies *)

Visited(c) == c \in Command /\ c < index /\ HasPolicy(c)

ShapeInv ==
    /\ policies \in [Command -> Policy \cup {NoPolicy}]
    /\ index \in 1 .. N + 1
    /\ seen \in [locks : SUBSET Name, reads : SUBSET Name, writes : SUBSET Name]
    /\ count \in Nat

\* The maps of the loop hold what the visited policies declare.
SeenInv ==
    \A n \in Name :
      /\ n \in seen.locks <=> \E c \in Command : Visited(c) /\ n \in policies[c].locks
      /\ n \in seen.reads <=> \E c \in Command : Visited(c) /\ n \in policies[c].reads
      /\ n \in seen.writes <=> \E c \in Command : Visited(c) /\ n \in policies[c].writes

FlagsInv ==
    /\ destructive <=> \E c \in Command : Visited(c) /\ policies[c].destructive
    /\ hasOutputs <=> \E c \in Command : Visited(c) /\ policies[c].outputs # {}

\* The count tells whether two policies were visited.
CountInv ==
    /\ count = 0 => \A c \in Command : ~Visited(c)
    /\ count # 0 => \E c \in Command : Visited(c)
    /\ count = 1 => \A c, d \in Command : Visited(c) /\ Visited(d) => c = d
    /\ count > 1 => \E c, d \in Command : Visited(c) /\ Visited(d) /\ c < d

VisitCausesInv ==
    \A kind \in Kind : \A n \in Name :
      <<kind, n>> \in causes <=>
        \E c, d \in Command :
          c < d /\ Visited(c) /\ Visited(d) /\ Collides(kind, policies[c], policies[d], n)

VisitInv ==
    phase = "visit" => SeenInv /\ FlagsInv /\ CountInv /\ VisitCausesInv

\* The verdicts that later phases add are absent before them.
VerdictsInv ==
    /\ phase = "visit" => <<"destructive", "">> \notin causes
    /\ phase # "done" => <<"outputs", "">> \notin causes /\ <<"inputs/outputs", "">> \notin causes

-----------------------------------------------------------------------------
(* The sweep of the selectors *)

Swept == Scopes \ pending

Comparable(p, q) == <<p, q>> \in PrefixOf \/ <<q, p>> \in PrefixOf

\* The scopes of one kind that were swept at the prefix p or above it.
Above(s, kind, p) == s \in Swept /\ s.output = kind /\ <<s.prefix, p>> \in PrefixOf

\* The owners aggregate the commands of the swept scopes above a prefix.
Aggregates(o, kind, p) ==
    /\ o.multiple => \E s, t \in Scopes : /\ Above(s, kind, p)
                                          /\ Above(t, kind, p)
                                          /\ s.command # t.command
    /\ ~o.multiple => \A s \in Scopes : Above(s, kind, p) => s.command = o.first
    /\ o.first # 0 => \E s \in Scopes : Above(s, kind, p) /\ s.command = o.first

SortedInv ==
    \A s \in Swept, t \in pending : <<s.prefix, t.prefix>> \in Lexical

ChainInv ==
    \A i, j \in 1 .. Len(stack) :
      i < j => /\ <<stack[i].prefix, stack[j].prefix>> \in PrefixOf
               /\ stack[i].prefix # stack[j].prefix

FramesInv ==
    \A i \in 1 .. Len(stack) :
      /\ Aggregates(stack[i].inputs, FALSE, stack[i].prefix)
      /\ Aggregates(stack[i].outputs, TRUE, stack[i].prefix)

\* A swept prefix that still matters to a pending scope is on the stack.
OnStackInv ==
    \A q \in Swept, t \in pending :
      <<q.prefix, t.prefix>> \in PrefixOf =>
        \E i \in 1 .. Len(stack) : stack[i].prefix = q.prefix

\* Two swept scopes of different commands overlap.
Found(kind1, kind2) ==
    \E s, t \in Swept : /\ s.output = kind1
                        /\ t.output = kind2
                        /\ s.command # t.command
                        /\ Comparable(s.prefix, t.prefix)

VerdictInv ==
    /\ outputOverlap \in BOOLEAN
    /\ mixedOverlap \in BOOLEAN
    /\ outputOverlap <=> Found(TRUE, TRUE)
    /\ mixedOverlap <=> Found(FALSE, TRUE)

SweepInv ==
    /\ phase # "sweep" => stack = << >> \/ phase = "done"
    /\ phase = "visit" => outputOverlap = FALSE /\ mixedOverlap = FALSE
    /\ phase = "sweep" =>
         /\ pending \subseteq Scopes
         /\ stack \in Seq(Frame)
         /\ SortedInv
         /\ ChainInv
         /\ FramesInv
         /\ OnStackInv
         /\ VerdictInv

PhaseInv == phase \in {"visit", "sweep", "done"}

ExactInv ==
    /\ ShapeInv
    /\ PhaseInv
    /\ VisitInv
    /\ VerdictsInv
    /\ ResourceCausesAreExact
    /\ DestructiveCauseIsExact
    /\ SweepInv
    /\ OverlapIsReal
    /\ SelectorCausesAreExact

-----------------------------------------------------------------------------
(* Lemmas about the operators of the visit *)

\* The policy of a command that has one is a record of sets of names and
\* prefixes.
LEMMA PolicyShape ==
    ASSUME ShapeInv, NEW c \in Command, HasPolicy(c)
    PROVE  /\ policies[c] \in Policy
           /\ policies[c].locks \subseteq Name
           /\ policies[c].reads \subseteq Name
           /\ policies[c].writes \subseteq Name
           /\ policies[c].inputs \subseteq Prefix
           /\ policies[c].outputs \subseteq Prefix
           /\ policies[c].destructive \in BOOLEAN
<1>1. policies[c] \in Policy
  BY DEF ShapeInv, HasPolicy
<1>2. policies[c] \in [locks : SUBSET Name, reads : SUBSET Name, writes : SUBSET Name,
                       inputs : SUBSET Prefix, outputs : SUBSET Prefix, destructive : BOOLEAN]
  BY <1>1, PolicyAssumption
<1> QED
  BY <1>1, <1>2

\* The causes a visit adds are the collisions of the visited policy with what
\* was seen, each under its kind.
LEMMA CollisionsByKind ==
    ASSUME NEW p, NEW s, NEW kind \in Kind, NEW n
    PROVE  <<kind, n>> \in Collisions(p, s) <=>
             \/ kind = "lock" /\ n \in p.locks /\ n \in s.locks
             \/ kind = "write/read" /\ n \in p.reads /\ n \in s.writes
             \/ kind = "read/write" /\ n \in p.writes /\ n \in s.reads
             \/ kind = "write/write" /\ n \in p.writes /\ n \in s.writes
BY DEF Collisions, Kind

\* A visit adds no verdict of the later phases.
LEMMA CollisionsAreNotVerdicts ==
    ASSUME NEW p, NEW s, NEW verdict \in {"destructive", "outputs", "inputs/outputs"}
    PROVE  <<verdict, "">> \notin Collisions(p, s)
BY DEF Collisions

\* Every collision of a kind is a collision of two policies of the group.
LEMMA ConflictsByPair ==
    ASSUME NEW kind \in Kind, NEW n
    PROVE  <<kind, n>> \in ResourceConflicts <=>
             \E c, d \in Command :
               c < d /\ HasPolicy(c) /\ HasPolicy(d)
               /\ Collides(kind, policies[c], policies[d], n)
<1> DEFINE Of(p, q) == ({"lock"} \X (p.locks \cap q.locks))
             \cup ({"write/read"} \X (p.writes \cap q.reads))
             \cup ({"read/write"} \X (p.reads \cap q.writes))
             \cup ({"write/write"} \X (p.writes \cap q.writes))
<1>1. \A p, q : <<kind, n>> \in Of(p, q) <=> Collides(kind, p, q, n)
  BY DEF Collides, Kind
<1>2. <<kind, n>> \in ResourceConflicts <=>
        \E cd \in Pair : <<kind, n>> \in Of(policies[cd[1]], policies[cd[2]])
  BY DEF ResourceConflicts
<1>3. \A cd \in Pair : /\ cd[1] \in Command /\ cd[2] \in Command /\ cd[1] < cd[2]
                       /\ HasPolicy(cd[1]) /\ HasPolicy(cd[2])
  BY DEF Pair
<1>4. \A c, d \in Command : c < d /\ HasPolicy(c) /\ HasPolicy(d) =>
        /\ <<c, d>> \in Pair
        /\ <<c, d>>[1] = c /\ <<c, d>>[2] = d
  BY DEF Pair
<1> HIDE DEF Of
<1>5. ASSUME <<kind, n>> \in ResourceConflicts
      PROVE  \E c, d \in Command :
               c < d /\ HasPolicy(c) /\ HasPolicy(d)
               /\ Collides(kind, policies[c], policies[d], n)
  BY <1>5, <1>1, <1>2, <1>3
<1>6. ASSUME NEW c \in Command, NEW d \in Command, c < d, HasPolicy(c), HasPolicy(d),
             Collides(kind, policies[c], policies[d], n)
      PROVE  <<kind, n>> \in ResourceConflicts
  <2>1. <<c, d>> \in Pair /\ <<c, d>>[1] = c /\ <<c, d>>[2] = d
    BY <1>4, <1>6
  <2> QED
    BY <2>1, <1>1, <1>2, <1>6
<1> QED
  BY <1>5, <1>6

-----------------------------------------------------------------------------
(* The visit keeps its part of the invariant *)

\* A command without a policy changes nothing that was seen.
LEMMA SkipKeepsVisit ==
    ASSUME ShapeInv, VisitInv, SkipCommand
    PROVE  ShapeInv' /\ VisitInv'
<1>1. ShapeInv'
  BY GroupAssumption DEF ShapeInv, SkipCommand, Command, sweep
<1>2. \A c \in Command : Visited(c)' <=> Visited(c)
  BY GroupAssumption DEF Visited, HasPolicy, SkipCommand, Command, ShapeInv
<1>3. SeenInv /\ FlagsInv /\ CountInv /\ VisitCausesInv
  BY DEF VisitInv, SkipCommand
<1>4. SeenInv'
  BY <1>2, <1>3 DEF SeenInv, SkipCommand
<1>5. FlagsInv'
  BY <1>2, <1>3 DEF FlagsInv, SkipCommand
<1>6. CountInv'
  BY <1>2, <1>3 DEF CountInv, SkipCommand
<1>7. VisitCausesInv'
  BY <1>2, <1>3 DEF VisitCausesInv, SkipCommand
<1> QED
  BY <1>1, <1>4, <1>5, <1>6, <1>7 DEF VisitInv

\* The visit of a command adds its policy to what was seen, and its collisions
\* with the earlier policies to the causes.
LEMMA VisitKeepsVisit ==
    ASSUME ShapeInv, VisitInv, VisitCommand
    PROVE  ShapeInv' /\ VisitInv'
<1> DEFINE p == policies[index]
<1>1. /\ index \in Command /\ HasPolicy(index) /\ phase = "visit" /\ phase' = "visit"
      /\ policies' = policies /\ index' = index + 1 /\ count' = count + 1
      /\ causes' = causes \cup Collisions(p, seen)
      /\ seen' = [locks |-> seen.locks \cup p.locks,
                  reads |-> seen.reads \cup p.reads,
                  writes |-> seen.writes \cup p.writes]
      /\ destructive' = (destructive \/ p.destructive)
      /\ hasOutputs' = (hasOutputs \/ p.outputs # {})
  BY DEF VisitCommand
<1>2. /\ p.locks \subseteq Name /\ p.reads \subseteq Name /\ p.writes \subseteq Name
      /\ p.destructive \in BOOLEAN
  BY <1>1, PolicyShape
<1>3. ShapeInv'
  <2>1. seen' \in [locks : SUBSET Name, reads : SUBSET Name, writes : SUBSET Name]
    BY <1>1, <1>2 DEF ShapeInv
  <2>2. index' \in 1 .. N + 1 /\ count' \in Nat
    BY <1>1, GroupAssumption DEF ShapeInv, Command
  <2> QED
    BY <1>1, <2>1, <2>2 DEF ShapeInv
<1>4. /\ ~Visited(index)
      /\ \A c \in Command : Visited(c)' <=> Visited(c) \/ c = index
      /\ \A c \in Command : Visited(c) => c < index
  BY <1>1, GroupAssumption DEF Visited, HasPolicy, Command, ShapeInv
<1>5. SeenInv /\ FlagsInv /\ CountInv /\ VisitCausesInv
  BY <1>1 DEF VisitInv
<1>6. SeenInv'
  <2> SUFFICES ASSUME NEW n \in Name
               PROVE  /\ n \in seen'.locks <=>
                           \E c \in Command : Visited(c)' /\ n \in policies[c].locks
                      /\ n \in seen'.reads <=>
                           \E c \in Command : Visited(c)' /\ n \in policies[c].reads
                      /\ n \in seen'.writes <=>
                           \E c \in Command : Visited(c)' /\ n \in policies[c].writes
    BY <1>1 DEF SeenInv
  <2>1. /\ n \in seen'.locks <=> n \in seen.locks \/ n \in p.locks
        /\ n \in seen'.reads <=> n \in seen.reads \/ n \in p.reads
        /\ n \in seen'.writes <=> n \in seen.writes \/ n \in p.writes
    BY <1>1
  <2> QED
    BY <1>1, <1>4, <1>5, <2>1 DEF SeenInv
<1>7. FlagsInv'
  <2>1. destructive' <=> \E c \in Command : Visited(c)' /\ policies[c].destructive
    BY <1>1, <1>4, <1>5 DEF FlagsInv
  <2>2. hasOutputs' <=> \E c \in Command : Visited(c)' /\ policies[c].outputs # {}
    BY <1>1, <1>4, <1>5 DEF FlagsInv
  <2> QED
    BY <1>1, <2>1, <2>2 DEF FlagsInv
<1>8. CountInv'
  <2>1. count \in Nat
    BY DEF ShapeInv
  <2>2. count' = 1 => \A c, d \in Command : Visited(c)' /\ Visited(d)' => c = d
    BY <2>1, <1>1, <1>4, <1>5 DEF CountInv
  <2>3. count' > 1 => \E c, d \in Command : Visited(c)' /\ Visited(d)' /\ c < d
    BY <2>1, <1>1, <1>4, <1>5 DEF CountInv
  <2>4. count' # 0 /\ \E c \in Command : Visited(c)'
    BY <2>1, <1>1, <1>4
  <2> QED
    BY <2>2, <2>3, <2>4 DEF CountInv
<1>9. VisitCausesInv'
  <2> SUFFICES ASSUME NEW kind \in Kind, NEW n \in Name
               PROVE  <<kind, n>> \in causes' <=>
                        \E c, d \in Command :
                          /\ c < d /\ Visited(c)' /\ Visited(d)'
                          /\ Collides(kind, policies[c], policies[d], n)
    <3>1. \A kind \in Kind : \A n \in Name : \A c, d \in Command :
            Collides(kind, policies[c], policies[d], n)'
              <=> Collides(kind, policies[c], policies[d], n)
      BY <1>1 DEF Collides
    <3> QED
      BY <3>1 DEF VisitCausesInv
  <2>1. <<kind, n>> \in Collisions(p, seen) <=>
          \E c \in Command : Visited(c) /\ Collides(kind, policies[c], p, n)
    BY <1>5, CollisionsByKind DEF SeenInv, Collides
  <2>2. <<kind, n>> \in causes <=>
          \E c, d \in Command :
            /\ c < d /\ Visited(c) /\ Visited(d)
            /\ Collides(kind, policies[c], policies[d], n)
    BY <1>5 DEF VisitCausesInv
  <2>3. \A c, d \in Command : c < d /\ Visited(c)' /\ Visited(d)' <=>
          \/ c < d /\ Visited(c) /\ Visited(d)
          \/ Visited(c) /\ d = index
    BY <1>1, <1>4 DEF Command
  <2>4. <<kind, n>> \in causes' <=>
          <<kind, n>> \in causes \/ <<kind, n>> \in Collisions(p, seen)
    BY <1>1
  <2> HIDE DEF p
  <2>5. p = policies[index] /\ index \in Command
    BY <1>1 DEF p
  <2> QED
    BY <2>1, <2>2, <2>3, <2>4, <2>5
<1> QED
  BY <1>3, <1>6, <1>7, <1>8, <1>9 DEF VisitInv

\* When the loop is over, every command with a policy was visited.
LEMMA AllVisited ==
    ASSUME ShapeInv, index \notin Command, NEW c \in Command
    PROVE  Visited(c) <=> HasPolicy(c)
BY GroupAssumption DEF ShapeInv, Visited, Command

\* The causes the visit leaves are those of all pairs.
LEMMA VisitIsExact ==
    ASSUME ShapeInv, PhaseInv, VisitInv, VerdictsInv, EndVisit
    PROVE  ResourceCausesAreExact' /\ DestructiveCauseIsExact'
<1>1. /\ phase = "visit" /\ policies' = policies /\ index \notin Command
      /\ SeenInv /\ FlagsInv /\ CountInv /\ VisitCausesInv
  BY DEF EndVisit, VisitInv
<1>2. \A c \in Command : Visited(c) <=> HasPolicy(c)
  BY <1>1, AllVisited
<1>3. causes' = IF destructive /\ count > 1
                  THEN causes \cup {<<"destructive", "">>} ELSE causes
  BY DEF EndVisit, Shared
<1>4. ResourceCausesAreExact'
  <2>1. ResourceConflicts' = ResourceConflicts
    BY <1>1 DEF ResourceConflicts, Pair, HasPolicy
  <2> SUFFICES ASSUME NEW kind \in Kind, NEW n \in Name
               PROVE  <<kind, n>> \in causes' <=> <<kind, n>> \in ResourceConflicts
    BY <2>1 DEF ResourceCausesAreExact, Kind
  <2>2. <<kind, n>> \in causes' <=> <<kind, n>> \in causes
    BY <1>3 DEF Kind
  <2>3. <<kind, n>> \in causes <=>
          \E c, d \in Command :
            /\ c < d /\ HasPolicy(c) /\ HasPolicy(d)
            /\ Collides(kind, policies[c], policies[d], n)
    BY <1>1, <1>2 DEF VisitCausesInv
  <2> QED
    BY <2>2, <2>3, ConflictsByPair
<1>5. DestructiveCauseIsExact'
  <2> DEFINE D(c) == policies[c].destructive
             Meet(c, d) == c < d /\ HasPolicy(c) /\ HasPolicy(d)
  <2>1. DestructiveNotAlone' <=> DestructiveNotAlone
    BY <1>1 DEF DestructiveNotAlone, Pair, HasPolicy
  <2>2. \A c, d \in Command : Meet(c, d) =>
          <<c, d>> \in Pair /\ <<c, d>>[1] = c /\ <<c, d>>[2] = d
    BY DEF Pair
  <2>3. \A cd \in Pair : cd[1] \in Command /\ cd[2] \in Command /\ Meet(cd[1], cd[2])
    BY DEF Pair
  <2>4. DestructiveNotAlone <=> \E cd \in Pair : D(cd[1]) \/ D(cd[2])
    BY DEF DestructiveNotAlone
  <2>5. destructive <=> \E c \in Command : HasPolicy(c) /\ D(c)
    BY <1>1, <1>2 DEF FlagsInv
  <2>6. \A c, d \in Command : Meet(c, d) => HasPolicy(c) /\ HasPolicy(d) /\ c # d
    BY GroupAssumption DEF Command
  <2>7. \A c, d \in Command : c = d \/ c < d \/ d < c
    BY GroupAssumption DEF Command
  <2>8. \A c, d \in Command : c < d /\ HasPolicy(c) /\ HasPolicy(d) => Meet(c, d)
    OBVIOUS
  <2>9. count > 1 => \E c, d \in Command : Meet(c, d)
    BY <1>1, <1>2 DEF CountInv
  <2>10. ASSUME NEW c \in Command, NEW d \in Command, Meet(c, d)
         PROVE  count > 1
    <3>1. count \in Nat /\ c # d /\ Visited(c) /\ Visited(d)
      BY <1>2, <2>6, <2>10 DEF ShapeInv
    <3>2. count # 0 /\ count # 1
      BY <1>1, <3>1 DEF CountInv
    <3> QED
      BY <3>1, <3>2
  <2> HIDE DEF D, Meet
  <2>11. ASSUME destructive, count > 1
         PROVE  DestructiveNotAlone
    <3>1. PICK c \in Command : HasPolicy(c) /\ D(c)
      BY <2>5, <2>11, Zenon
    <3>2. PICK d \in Command : Meet(c, d) \/ Meet(d, c)
      <4>1. PICK e, g \in Command : Meet(e, g)
        BY <2>9, <2>11
      <4>2. HasPolicy(e) /\ HasPolicy(g) /\ e # g
        BY <2>6, <4>1
      <4> QED
        BY <2>7, <2>8, <3>1, <4>1, <4>2
    <3>3. CASE Meet(c, d)
      BY <2>2, <2>4, <3>1, <3>3, Zenon
    <3>4. CASE Meet(d, c)
      BY <2>2, <2>4, <3>1, <3>4, Zenon
    <3> QED
      BY <3>2, <3>3, <3>4
  <2>12. ASSUME DestructiveNotAlone
         PROVE  destructive /\ count > 1
    <3>1. PICK cd \in Pair : D(cd[1]) \/ D(cd[2])
      BY <2>4, <2>12, Zenon
    <3>2. cd[1] \in Command /\ cd[2] \in Command /\ Meet(cd[1], cd[2])
      BY <2>3
    <3>3. count > 1
      BY <2>10, <3>2
    <3>4. destructive
      BY <2>5, <2>6, <3>1, <3>2, Zenon
    <3> QED
      BY <3>3, <3>4
  <2>13. <<"destructive", "">> \in causes' <=> destructive /\ count > 1
    BY <1>1, <1>3 DEF VerdictsInv
  <2>14. destructive /\ count > 1 <=> DestructiveNotAlone
    BY <2>11, <2>12, Zenon
  <2>15. phase' # "visit"
    BY DEF EndVisit
  <2> QED
    BY <2>1, <2>13, <2>14, <2>15, Zenon DEF DestructiveCauseIsExact
<1> QED
  BY <1>4, <1>5

-----------------------------------------------------------------------------
(* Lemmas about the sweep *)

\* A scope of the group has a prefix, a command and a kind.
LEMMA ScopeShape ==
    ASSUME ShapeInv
    PROVE  /\ Scopes \subseteq Scope
           /\ \A s \in Scopes : s.prefix \in Prefix /\ s.command \in Command
                                /\ s.output \in BOOLEAN
           /\ \A c \in Command : \A p, kind :
                [prefix |-> p, command |-> c, output |-> kind] \in Scopes <=>
                  /\ HasPolicy(c)
                  /\ \/ kind = FALSE /\ p \in policies[c].inputs
                     \/ kind = TRUE /\ p \in policies[c].outputs
           /\ \A s \in Scopes :
                /\ HasPolicy(s.command)
                /\ s.output = FALSE => s.prefix \in policies[s.command].inputs
                /\ s.output = TRUE => s.prefix \in policies[s.command].outputs
<1> DEFINE Ins(c) == [prefix : policies[c].inputs, command : {c}, output : {FALSE}]
           Outs(c) == [prefix : policies[c].outputs, command : {c}, output : {TRUE}]
           With == {d \in Command : HasPolicy(d)}
<1>1. Scopes = UNION {Ins(c) \cup Outs(c) : c \in With}
  BY DEF Scopes
<1>2. \A s : s \in Scopes <=> \E c \in With : s \in Ins(c) \/ s \in Outs(c)
  <2> HIDE DEF Ins, Outs
  <2> QED
    BY <1>1
<1>3. \A c \in With : policies[c].inputs \subseteq Prefix /\ policies[c].outputs \subseteq Prefix
  BY PolicyShape
<1>4. ASSUME NEW s \in Scopes
      PROVE  /\ s \in Scope
             /\ HasPolicy(s.command)
             /\ s.output = FALSE => s.prefix \in policies[s.command].inputs
             /\ s.output = TRUE => s.prefix \in policies[s.command].outputs
  <2>1. PICK c \in With : s \in Ins(c) \/ s \in Outs(c)
    BY <1>2
  <2>2. CASE s \in Ins(c)
    BY <2>1, <2>2, <1>3 DEF Scope
  <2>3. CASE s \in Outs(c)
    BY <2>1, <2>3, <1>3 DEF Scope
  <2> QED
    BY <2>1, <2>2, <2>3
<1>5. ASSUME NEW c \in Command, NEW p, NEW kind
      PROVE  [prefix |-> p, command |-> c, output |-> kind] \in Scopes <=>
               /\ HasPolicy(c)
               /\ \/ kind = FALSE /\ p \in policies[c].inputs
                  \/ kind = TRUE /\ p \in policies[c].outputs
  <2> DEFINE s == [prefix |-> p, command |-> c, output |-> kind]
  <2>1. \A d : s \in Ins(d) <=> p \in policies[d].inputs /\ c = d /\ kind = FALSE
    OBVIOUS
  <2>2. \A d : s \in Outs(d) <=> p \in policies[d].outputs /\ c = d /\ kind = TRUE
    OBVIOUS
  <2> HIDE DEF s, Ins, Outs
  <2> QED
    BY <1>2, <2>1, <2>2 DEF s
<1> QED
  BY <1>4, <1>5 DEF Scope

\* The owners of a prefix know whether another command is above it.
LEMMA HasOtherIsExact ==
    ASSUME ShapeInv, NEW o \in Owners, NEW kind, NEW p, NEW c \in Command,
           Aggregates(o, kind, p)
    PROVE  HasOther(o, c) <=> \E s \in Scopes : Above(s, kind, p) /\ s.command # c
<1>1. \A s \in Scopes : s.command \in 1 .. N
  BY ScopeShape DEF Command
<1>2. o.first \in 0 .. N /\ o.multiple \in BOOLEAN
  BY DEF Owners
<1>3. ASSUME HasOther(o, c)
      PROVE  \E s \in Scopes : Above(s, kind, p) /\ s.command # c
  <2>1. CASE o.multiple
    <3>1. PICK s, t \in Scopes : Above(s, kind, p) /\ Above(t, kind, p) /\ s.command # t.command
      BY <2>1 DEF Aggregates
    <3> QED
      BY <3>1
  <2>2. CASE o.first # 0 /\ o.first # c
    BY <2>2 DEF Aggregates
  <2> QED
    BY <1>3, <2>1, <2>2 DEF HasOther
<1>4. ASSUME NEW s \in Scopes, Above(s, kind, p), s.command # c, ~o.multiple
      PROVE  o.first # 0 /\ o.first # c
  BY <1>1, <1>2, <1>4, GroupAssumption DEF Aggregates
<1> QED
  BY <1>2, <1>3, <1>4 DEF HasOther

-----------------------------------------------------------------------------
(* A step of the sweep keeps its invariant *)

LEMMA SweepScopeKeepsSweep ==
    ASSUME ShapeInv, SweepInv, NEW s \in pending, SweepScope(s)
    PROVE  SweepInv'
<1>1. /\ phase = "sweep" /\ phase' = "sweep" /\ policies' = policies
      /\ pending' = pending \ {s}
      /\ \A t \in pending : <<s.prefix, t.prefix>> \in Lexical
  BY DEF SweepScope, Lowest
<1>2. PICK n \in 0 .. Len(stack) :
        /\ Survives(n, s)
        /\ outputOverlap' =
             (outputOverlap \/ (s.output /\ HasOther(Ancestor(n, s).outputs, s.command)))
        /\ mixedOverlap' =
             (mixedOverlap \/ HasOther(IF s.output THEN Ancestor(n, s).inputs
                                      ELSE Ancestor(n, s).outputs, s.command))
        /\ stack' = Append(SubSeq(stack, 1, Base(n, s)), Extend(Ancestor(n, s), s))
  BY DEF SweepScope
<1> DEFINE frame == Ancestor(n, s)
           base == Base(n, s)
           top == Extend(frame, s)
<1>3. /\ pending \subseteq Scopes /\ stack \in Seq(Frame)
      /\ SortedInv /\ ChainInv /\ FramesInv /\ OnStackInv /\ VerdictInv
      /\ Len(stack) \in Nat
  BY <1>1 DEF SweepInv
<1>4. /\ Scopes' = Scopes
      /\ s \in Scopes /\ s \notin Swept /\ s.prefix \in Prefix /\ s.command \in Command
      /\ s.output \in BOOLEAN
      /\ Swept' = Swept \cup {s}
      /\ \A t \in Scopes : t.prefix \in Prefix /\ t.command \in Command /\ t.output \in BOOLEAN
  <2>1. Scopes' = Scopes
    BY <1>1 DEF Scopes, HasPolicy
  <2>2. s \in Scopes
    BY <1>3
  <2>3. Swept' = Swept \cup {s}
    BY <1>1, <2>1, <2>2 DEF Swept
  <2> QED
    BY <2>1, <2>2, <2>3, ScopeShape DEF Swept
<1>5. \A i \in 1 .. Len(stack) :
        /\ stack[i] \in Frame /\ stack[i].prefix \in Prefix
        /\ stack[i].inputs \in Owners /\ stack[i].outputs \in Owners
  <2>1. \A i \in 1 .. Len(stack) : stack[i] \in Frame
    BY <1>3
  <2> QED
    BY <2>1 DEF Frame
<1>6. \A i \in 1 .. n : <<stack[i].prefix, s.prefix>> \in PrefixOf
  <2> SUFFICES ASSUME NEW i \in 1 .. n
               PROVE  <<stack[i].prefix, s.prefix>> \in PrefixOf
    OBVIOUS
  <2>1. <<stack[n].prefix, s.prefix>> \in PrefixOf /\ n \in 1 .. Len(stack) /\ i \in 1 .. Len(stack)
    BY <1>2 DEF Survives
  <2>2. i = n \/ <<stack[i].prefix, stack[n].prefix>> \in PrefixOf
    BY <1>3, <2>1 DEF ChainInv
  <2> QED
    BY <1>4, <1>5, <2>1, <2>2, OrderAssumption
<1>7. /\ base \in 0 .. n /\ base \in 0 .. Len(stack)
      /\ \A i \in 1 .. base : stack[i].prefix # s.prefix
      /\ \A i \in 1 .. n : i > base => stack[i].prefix = s.prefix
  <2>1. CASE n # 0 /\ stack[n].prefix = s.prefix
    <3>1. base = n - 1
      BY <2>1 DEF Base
    <3>2. \A i \in 1 .. n - 1 : stack[i].prefix # stack[n].prefix
      <4>1. \A i \in 1 .. n - 1 : i \in 1 .. Len(stack) /\ n \in 1 .. Len(stack) /\ i < n
        BY <1>2, <1>3, <2>1
      <4> QED
        BY <1>3, <4>1 DEF ChainInv
    <3> QED
      BY <1>2, <2>1, <3>1, <3>2
  <2>2. CASE ~(n # 0 /\ stack[n].prefix = s.prefix)
    <3>1. base = n
      BY <2>2 DEF Base
    <3>2. ASSUME NEW i \in 1 .. n, stack[i].prefix = s.prefix, i # n
          PROVE  FALSE
      <4>1. i \in 1 .. Len(stack) /\ n \in 1 .. Len(stack) /\ i < n
        BY <1>2, <3>2
      <4>2. /\ <<stack[i].prefix, stack[n].prefix>> \in PrefixOf
            /\ stack[i].prefix # stack[n].prefix
        BY <1>3, <4>1 DEF ChainInv
      <4>3. <<stack[n].prefix, stack[i].prefix>> \in PrefixOf
        BY <1>6, <3>2, <4>1
      <4> QED
        BY <1>5, <4>1, <4>2, <4>3, OrderAssumption
    <3> QED
      BY <1>2, <2>2, <3>1, <3>2
  <2> QED
    BY <2>1, <2>2
<1>8. /\ frame \in Frame /\ frame.prefix = s.prefix
      /\ n = 0 => frame.inputs = NoOwners /\ frame.outputs = NoOwners
      /\ n # 0 => frame.inputs = stack[n].inputs /\ frame.outputs = stack[n].outputs
  <2>1. NoOwners \in Owners
    BY GroupAssumption DEF NoOwners, Owners
  <2>2. CASE n = 0
    BY <1>4, <2>1, <2>2 DEF Ancestor, Frame
  <2>3. CASE n # 0
    <3>1. stack[n] \in Frame
      BY <1>2, <1>5, <2>3
    <3>2. frame = [stack[n] EXCEPT !.prefix = s.prefix]
      BY <2>3 DEF Ancestor
    <3> QED
      BY <1>4, <2>3, <3>1, <3>2 DEF Frame
  <2> QED
    BY <2>2, <2>3
<1>9. /\ top \in Frame /\ top.prefix = s.prefix
      /\ top.inputs = IF s.output THEN frame.inputs ELSE AddOwner(frame.inputs, s.command)
      /\ top.outputs = IF s.output THEN AddOwner(frame.outputs, s.command) ELSE frame.outputs
  <2>1. \A o \in Owners : AddOwner(o, s.command) \in Owners
    <3> SUFFICES ASSUME NEW o \in Owners
                 PROVE  AddOwner(o, s.command) \in Owners
      OBVIOUS
    <3>1. s.command \in 0 .. N
      BY <1>4, GroupAssumption DEF Command
    <3>2. /\ [o EXCEPT !.first = s.command] \in Owners
          /\ [o EXCEPT !.multiple = o.multiple \/ o.first # s.command] \in Owners
      BY <3>1 DEF Owners
    <3> QED
      BY <3>2 DEF AddOwner
  <2>2. frame.inputs \in Owners /\ frame.outputs \in Owners
    BY <1>8 DEF Frame
  <2>3. /\ AddOwner(frame.inputs, s.command) \in Owners
        /\ AddOwner(frame.outputs, s.command) \in Owners
    BY <2>1, <2>2
  <2> HIDE DEF frame
  <2>4. CASE s.output = TRUE
    BY <1>8, <2>3, <2>4 DEF Extend, Frame
  <2>5. CASE s.output = FALSE
    BY <1>8, <2>3, <2>5 DEF Extend, Frame
  <2> QED
    BY <1>4, <2>4, <2>5
<1>10. /\ stack' \in Seq(Frame) /\ Len(stack') = base + 1
       /\ \A i \in 1 .. base : stack'[i] = stack[i]
       /\ stack'[base + 1] = top
  <2>1. /\ SubSeq(stack, 1, base) \in Seq(Frame)
        /\ Len(SubSeq(stack, 1, base)) = base
        /\ \A i \in 1 .. base : SubSeq(stack, 1, base)[i] = stack[i]
    BY <1>3, <1>7
  <2>2. stack' = Append(SubSeq(stack, 1, base), top)
    BY <1>2
  <2> HIDE DEF base, top
  <2> QED
    BY <1>7, <1>9, <2>1, <2>2
<1> HIDE DEF frame, base, top
<1>11. SortedInv'
  BY <1>1, <1>3, <1>4 DEF SortedInv
<1>12. \A i \in 1 .. base : /\ i \in 1 .. Len(stack)
                            /\ <<stack[i].prefix, s.prefix>> \in PrefixOf
                            /\ <<s.prefix, stack[i].prefix>> \notin PrefixOf
  <2> SUFFICES ASSUME NEW i \in 1 .. base
               PROVE  /\ i \in 1 .. Len(stack)
                      /\ <<stack[i].prefix, s.prefix>> \in PrefixOf
                      /\ <<s.prefix, stack[i].prefix>> \notin PrefixOf
    OBVIOUS
  <2>1. i \in 1 .. n /\ i \in 1 .. Len(stack) /\ stack[i].prefix # s.prefix
    BY <1>2, <1>3, <1>7
  <2> QED
    BY <1>4, <1>5, <1>6, <2>1, OrderAssumption
<1>13. ChainInv'
  <2> SUFFICES ASSUME NEW i \in 1 .. base + 1, NEW j \in 1 .. base + 1, i < j
               PROVE  /\ <<stack'[i].prefix, stack'[j].prefix>> \in PrefixOf
                      /\ stack'[i].prefix # stack'[j].prefix
    BY <1>10 DEF ChainInv
  <2>1. i \in 1 .. base /\ stack'[i] = stack[i]
    BY <1>7, <1>10
  <2>2. CASE j = base + 1
    BY <1>7, <1>9, <1>10, <1>12, <2>1, <2>2
  <2>3. CASE j # base + 1
    <3>1. j \in 1 .. base /\ stack'[j] = stack[j]
      BY <1>7, <1>10, <2>3
    <3> QED
      BY <1>3, <1>12, <2>1, <3>1 DEF ChainInv
  <2> QED
    BY <2>2, <2>3
<1>14. \A t, kind, p : Above(t, kind, p)' <=>
         Above(t, kind, p) \/ (t = s /\ s.output = kind /\ <<s.prefix, p>> \in PrefixOf)
  BY <1>4 DEF Above
\* Everything swept above the new prefix is above the surviving frame.
<1>15. ASSUME NEW t \in Scopes, NEW kind
       PROVE  Above(t, kind, s.prefix) <=>
                n # 0 /\ Above(t, kind, stack[n].prefix)
  <2>1. ASSUME Above(t, kind, s.prefix)
        PROVE  n # 0 /\ Above(t, kind, stack[n].prefix)
    <3>1. t \in Swept /\ t.output = kind /\ <<t.prefix, s.prefix>> \in PrefixOf
      BY <2>1 DEF Above
    <3>2. PICK i \in 1 .. Len(stack) : stack[i].prefix = t.prefix
      BY <1>3, <3>1 DEF OnStackInv
    <3>3. i <= n
      BY <1>2, <1>3, <3>1, <3>2 DEF Survives
    <3>4. n \in 1 .. Len(stack) /\ (i = n \/ i < n)
      BY <1>2, <1>3, <3>3
    <3>5. <<t.prefix, stack[n].prefix>> \in PrefixOf
      <4>1. CASE i = n
        BY <1>5, <3>2, <3>4, <4>1, OrderAssumption
      <4>2. CASE i < n
        BY <1>3, <3>2, <3>4, <4>2 DEF ChainInv
      <4> QED
        BY <3>4, <4>1, <4>2
    <3> QED
      BY <3>1, <3>4, <3>5 DEF Above
  <2>2. ASSUME n # 0, Above(t, kind, stack[n].prefix)
        PROVE  Above(t, kind, s.prefix)
    <3>1. n \in 1 .. Len(stack) /\ <<stack[n].prefix, s.prefix>> \in PrefixOf
      BY <1>2, <1>3, <1>6, <2>2
    <3>2. <<t.prefix, stack[n].prefix>> \in PrefixOf
      BY <2>2 DEF Above
    <3>3. <<t.prefix, s.prefix>> \in PrefixOf
      BY <1>4, <1>5, <3>1, <3>2, OrderAssumption
    <3> QED
      BY <2>2, <3>3 DEF Above
  <2> QED
    BY <2>1, <2>2
<1>16. /\ Aggregates(frame.inputs, FALSE, s.prefix)
       /\ Aggregates(frame.outputs, TRUE, s.prefix)
  <2>1. CASE n = 0
    <3>1. \A t \in Scopes, kind \in BOOLEAN : ~Above(t, kind, s.prefix)
      BY <1>15, <2>1
    <3>2. /\ frame.inputs.first = 0 /\ frame.inputs.multiple = FALSE
          /\ frame.outputs.first = 0 /\ frame.outputs.multiple = FALSE
      BY <1>8, <2>1 DEF NoOwners
    <3> QED
      BY <3>1, <3>2 DEF Aggregates
  <2>2. CASE n # 0
    <3>1. n \in 1 .. Len(stack)
      BY <1>2, <1>3, <2>2
    <3>2. /\ Aggregates(stack[n].inputs, FALSE, stack[n].prefix)
          /\ Aggregates(stack[n].outputs, TRUE, stack[n].prefix)
      BY <1>3, <3>1 DEF FramesInv
    <3>3. \A t \in Scopes, kind \in BOOLEAN :
            Above(t, kind, s.prefix) <=> Above(t, kind, stack[n].prefix)
      BY <1>15, <2>2
    <3> QED
      BY <1>8, <2>2, <3>2, <3>3 DEF Aggregates
  <2> QED
    BY <2>1, <2>2
<1>17. <<s.prefix, s.prefix>> \in PrefixOf
  BY <1>4, OrderAssumption
<1> DEFINE After(o, kind) ==
             /\ o.multiple => \E t, u \in Scopes : /\ Above(t, kind, s.prefix)'
                                                  /\ Above(u, kind, s.prefix)'
                                                  /\ t.command # u.command
             /\ ~o.multiple => \A t \in Scopes : Above(t, kind, s.prefix)' => t.command = o.first
             /\ o.first # 0 => \E t \in Scopes : Above(t, kind, s.prefix)' /\ t.command = o.first
<1>18. ASSUME NEW o \in Owners, NEW kind, s.output = kind, Aggregates(o, kind, s.prefix)
       PROVE  After(AddOwner(o, s.command), kind)
  <2> DEFINE c == s.command
             q == AddOwner(o, c)
  <2>1. \A t \in Scopes : Above(t, kind, s.prefix)' <=> Above(t, kind, s.prefix) \/ t = s
    BY <1>14, <1>17, <1>18
  <2>2. c \in 1 .. N /\ o.first \in 0 .. N /\ o.multiple \in BOOLEAN
    BY <1>4 DEF Command, Owners
  <2>3. /\ q.first = IF o.first = 0 THEN c ELSE o.first
        /\ q.multiple = IF o.first = 0 THEN o.multiple ELSE (o.multiple \/ o.first # c)
    BY <1>18 DEF AddOwner, Owners
  <2> HIDE DEF c, q
  <2>4. c = s.command
    BY DEF c
  <2>5. q.multiple => \E t, u \in Scopes : /\ Above(t, kind, s.prefix)'
                                          /\ Above(u, kind, s.prefix)'
                                          /\ t.command # u.command
    <3>1. CASE o.multiple
      BY <1>18, <2>1, <3>1 DEF Aggregates
    <3>2. CASE ~o.multiple
      <4> SUFFICES ASSUME q.multiple
                   PROVE  \E t, u \in Scopes : /\ Above(t, kind, s.prefix)'
                                              /\ Above(u, kind, s.prefix)'
                                              /\ t.command # u.command
        OBVIOUS
      <4>1. o.first # 0 /\ o.first # c
        BY <2>2, <2>3, <3>2
      <4>2. PICK t \in Scopes : Above(t, kind, s.prefix) /\ t.command = o.first
        BY <1>18, <4>1 DEF Aggregates
      <4> QED
        BY <1>4, <2>1, <2>4, <4>1, <4>2
    <3> QED
      BY <3>1, <3>2
  <2>6. ASSUME ~q.multiple, NEW t \in Scopes, Above(t, kind, s.prefix)'
        PROVE  t.command = q.first
    <3>1. ~o.multiple /\ (o.first = 0 \/ o.first = c)
      BY <2>2, <2>3, <2>6
    <3>2. Above(t, kind, s.prefix) => t.command = o.first
      BY <1>18, <3>1 DEF Aggregates
    <3>3. t.command \in 1 .. N
      BY <1>4 DEF Command
    <3> QED
      BY <2>1, <2>2, <2>3, <2>4, <2>6, <3>1, <3>2, <3>3, GroupAssumption
  <2>7. q.first # 0 => \E t \in Scopes : Above(t, kind, s.prefix)' /\ t.command = q.first
    <3>1. CASE o.first = 0
      BY <1>4, <2>1, <2>3, <2>4, <3>1
    <3>2. CASE o.first # 0
      BY <1>18, <2>1, <2>3, <3>2 DEF Aggregates
    <3> QED
      BY <3>1, <3>2
  <2> QED
    BY <2>5, <2>6, <2>7 DEF q, c
<1>19. FramesInv'
  <2> SUFFICES ASSUME NEW i \in 1 .. base + 1
               PROVE  /\ Aggregates(stack[i].inputs, FALSE, stack[i].prefix)'
                      /\ Aggregates(stack[i].outputs, TRUE, stack[i].prefix)'
    BY <1>10 DEF FramesInv
  <2>1. CASE i \in 1 .. base
    <3>1. stack'[i] = stack[i] /\ i \in 1 .. Len(stack)
      BY <1>10, <1>12, <2>1
    <3>2. /\ Aggregates(stack[i].inputs, FALSE, stack[i].prefix)
          /\ Aggregates(stack[i].outputs, TRUE, stack[i].prefix)
      BY <1>3, <3>1 DEF FramesInv
    <3>3. \A t \in Scopes, kind \in BOOLEAN :
            Above(t, kind, stack[i].prefix)' <=> Above(t, kind, stack[i].prefix)
      BY <1>12, <1>14, <2>1, <3>1
    <3> QED
      BY <1>4, <3>1, <3>2, <3>3 DEF Aggregates
  <2>2. CASE i = base + 1
    <3>1. stack'[i] = top /\ stack'[i].prefix = s.prefix
      BY <1>9, <1>10, <2>2
    <3>2. frame.inputs \in Owners /\ frame.outputs \in Owners
      BY <1>8 DEF Frame
    <3>3. ASSUME NEW o, NEW kind, s.output # kind, Aggregates(o, kind, s.prefix)
          PROVE  After(o, kind)
      <4>1. \A t \in Scopes : Above(t, kind, s.prefix)' <=> Above(t, kind, s.prefix)
        BY <1>14, <3>3
      <4> QED
        BY <3>3, <4>1 DEF Aggregates
    <3>4. CASE s.output = TRUE
      <4>1. top.inputs = frame.inputs /\ top.outputs = AddOwner(frame.outputs, s.command)
        BY <1>9, <3>4
      <4>2. After(AddOwner(frame.outputs, s.command), TRUE)
        BY <1>16, <1>18, <3>2, <3>4
      <4>3. After(frame.inputs, FALSE)
        <5>1. s.output # FALSE
          BY <3>4
        <5> HIDE DEF After
        <5> QED
          BY <1>16, <3>3, <5>1
      <4> HIDE DEF After
      <4>4. After(top.inputs, FALSE) /\ After(top.outputs, TRUE)
        BY <4>1, <4>2, <4>3
      <4>5. After(stack'[i].inputs, FALSE) /\ After(stack'[i].outputs, TRUE)
        BY <3>1, <4>4
      <4> QED
        BY <1>4, <3>1, <4>5 DEF Aggregates, After
    <3>5. CASE s.output = FALSE
      <4>1. top.inputs = AddOwner(frame.inputs, s.command) /\ top.outputs = frame.outputs
        BY <1>9, <3>5
      <4>2. After(AddOwner(frame.inputs, s.command), FALSE)
        BY <1>16, <1>18, <3>2, <3>5
      <4>3. After(frame.outputs, TRUE)
        <5>1. s.output # TRUE
          BY <3>5
        <5> HIDE DEF After
        <5> QED
          BY <1>16, <3>3, <5>1
      <4> HIDE DEF After
      <4>4. After(top.inputs, FALSE) /\ After(top.outputs, TRUE)
        BY <4>1, <4>2, <4>3
      <4>5. After(stack'[i].inputs, FALSE) /\ After(stack'[i].outputs, TRUE)
        BY <3>1, <4>4
      <4> QED
        BY <1>4, <3>1, <4>5 DEF Aggregates, After
    <3> QED
      BY <1>4, <3>4, <3>5
  <2>3. i \in 1 .. base \/ i = base + 1
    BY <1>7
  <2> HIDE DEF After
  <2> QED
    BY <2>1, <2>2, <2>3, Zenon
<1>20. OnStackInv'
  <2> SUFFICES ASSUME NEW q \in Swept', NEW t \in pending', <<q.prefix, t.prefix>> \in PrefixOf
               PROVE  \E i \in 1 .. base + 1 : stack'[i].prefix = q.prefix
    <3>1. 1 .. Len(stack') = 1 .. base + 1
      BY <1>10
    <3> QED
      BY <3>1 DEF OnStackInv
  <2>1. base + 1 \in 1 .. base + 1 /\ stack'[base + 1].prefix = s.prefix
    BY <1>7, <1>9, <1>10
  <2>2. CASE q.prefix = s.prefix
    BY <2>1, <2>2
  <2>3. CASE q.prefix # s.prefix
    <3>1. q \in Swept /\ q \in Scopes /\ t \in pending /\ t \in Scopes
      BY <1>1, <1>3, <1>4, <2>3 DEF Swept
    <3>2. PICK i \in 1 .. Len(stack) : stack[i].prefix = q.prefix
      BY <1>3, <3>1 DEF OnStackInv
    <3>3. <<q.prefix, s.prefix>> \in PrefixOf
      <4>1. <<q.prefix, s.prefix>> \in Lexical
        BY <1>3, <3>1 DEF SortedInv
      <4>2. <<s.prefix, t.prefix>> \in Lexical
        BY <1>1, <3>1
      <4> QED
        BY <1>4, <3>1, <4>1, <4>2, OrderAssumption
    <3>4. i \in 1 .. n
      BY <1>2, <1>3, <3>2, <3>3 DEF Survives
    <3>5. i \in 1 .. base
      BY <1>7, <2>3, <3>2, <3>4
    <3> QED
      BY <1>7, <1>10, <3>2, <3>5
  <2> QED
    BY <2>2, <2>3
\* Swept scopes come before the new one, so overlapping it means being above it.
<1>21. \A t \in Swept : Comparable(t.prefix, s.prefix) <=> <<t.prefix, s.prefix>> \in PrefixOf
  <2> SUFFICES ASSUME NEW t \in Swept, <<s.prefix, t.prefix>> \in PrefixOf
               PROVE  <<t.prefix, s.prefix>> \in PrefixOf
    BY DEF Comparable
  <2>1. <<t.prefix, s.prefix>> \in Lexical /\ t.prefix \in Prefix
    BY <1>3, <1>4 DEF SortedInv, Swept
  <2> QED
    BY <1>4, <2>1, OrderAssumption
<1>22. ASSUME NEW kind \in BOOLEAN, NEW o \in Owners, Aggregates(o, kind, s.prefix)
       PROVE  HasOther(o, s.command) <=>
                \E t \in Swept : /\ t.output = kind /\ t.command # s.command
                                /\ Comparable(t.prefix, s.prefix)
  <2>1. HasOther(o, s.command) <=>
          \E t \in Scopes : Above(t, kind, s.prefix) /\ t.command # s.command
    BY <1>4, <1>22, HasOtherIsExact
  <2>2. \A t : Above(t, kind, s.prefix) <=>
          t \in Swept /\ t.output = kind /\ Comparable(t.prefix, s.prefix)
    BY <1>21 DEF Above
  <2>3. Swept \subseteq Scopes
    BY DEF Swept
  <2> QED
    BY <2>1, <2>2, <2>3
\* A new overlap is one of the new scope with a swept one.
<1>23. ASSUME NEW kind1 \in BOOLEAN, NEW kind2 \in BOOLEAN
       PROVE  Found(kind1, kind2)' <=>
                \/ Found(kind1, kind2)
                \/ /\ s.output = kind1
                   /\ \E t \in Swept : /\ t.output = kind2 /\ t.command # s.command
                                       /\ Comparable(t.prefix, s.prefix)
                \/ /\ s.output = kind2
                   /\ \E t \in Swept : /\ t.output = kind1 /\ t.command # s.command
                                       /\ Comparable(t.prefix, s.prefix)
  <2>1. \A p, q : Comparable(p, q) <=> Comparable(q, p)
    BY DEF Comparable
  <2>2. Found(kind1, kind2)' <=>
          \E t, u \in Swept \cup {s} : /\ t.output = kind1 /\ u.output = kind2
                                      /\ t.command # u.command
                                      /\ Comparable(t.prefix, u.prefix)
    BY <1>4 DEF Found, Comparable
  <2> QED
    BY <2>1, <2>2 DEF Found
<1>24. VerdictInv'
  <2>1. frame.inputs \in Owners /\ frame.outputs \in Owners
    BY <1>8 DEF Frame
  <2>2. /\ outputOverlap' = (outputOverlap \/ (s.output /\ HasOther(frame.outputs, s.command)))
        /\ mixedOverlap' = (mixedOverlap \/ HasOther(IF s.output THEN frame.inputs
                                                    ELSE frame.outputs, s.command))
    BY <1>2 DEF frame
  <2>3. /\ outputOverlap \in BOOLEAN /\ mixedOverlap \in BOOLEAN
        /\ outputOverlap <=> Found(TRUE, TRUE)
        /\ mixedOverlap <=> Found(FALSE, TRUE)
    BY <1>3 DEF VerdictInv
  <2> DEFINE Other(kind) == \E t \in Swept : /\ t.output = kind /\ t.command # s.command
                                            /\ Comparable(t.prefix, s.prefix)
  <2>4. /\ HasOther(frame.outputs, s.command) <=> Other(TRUE)
        /\ HasOther(frame.inputs, s.command) <=> Other(FALSE)
    BY <1>16, <1>22, <2>1
  <2>5. /\ Found(TRUE, TRUE)' <=> Found(TRUE, TRUE) \/ (s.output = TRUE /\ Other(TRUE))
        /\ Found(FALSE, TRUE)' <=> \/ Found(FALSE, TRUE)
                                   \/ s.output = FALSE /\ Other(TRUE)
                                   \/ s.output = TRUE /\ Other(FALSE)
    BY <1>23
  <2> HIDE DEF Other
  <2>6. CASE s.output = TRUE
    <3>1. /\ outputOverlap' = (outputOverlap \/ HasOther(frame.outputs, s.command))
          /\ mixedOverlap' = (mixedOverlap \/ HasOther(frame.inputs, s.command))
      BY <2>2, <2>6
    <3>2. /\ Found(TRUE, TRUE)' <=> Found(TRUE, TRUE) \/ Other(TRUE)
          /\ Found(FALSE, TRUE)' <=> Found(FALSE, TRUE) \/ Other(FALSE)
      BY <2>5, <2>6
    <3> QED
      BY <2>3, <2>4, <3>1, <3>2, Zenon DEF VerdictInv
  <2>7. CASE s.output = FALSE
    <3>1. /\ outputOverlap' = outputOverlap
          /\ mixedOverlap' = (mixedOverlap \/ HasOther(frame.outputs, s.command))
      BY <2>2, <2>3, <2>7
    <3>2. /\ Found(TRUE, TRUE)' <=> Found(TRUE, TRUE)
          /\ Found(FALSE, TRUE)' <=> Found(FALSE, TRUE) \/ Other(TRUE)
      BY <2>5, <2>7
    <3> QED
      BY <2>3, <2>4, <3>1, <3>2, Zenon DEF VerdictInv
  <2> QED
    BY <1>4, <2>6, <2>7
<1>25. pending' \subseteq Scopes'
  BY <1>1, <1>3, <1>4
<1> QED
  BY <1>1, <1>10, <1>11, <1>13, <1>19, <1>20, <1>24, <1>25 DEF SweepInv

-----------------------------------------------------------------------------
(* From scopes to pairs of commands *)

\* Two scopes of different commands overlap exactly when two policies do.
LEMMA ScopesAreSelectors ==
    ASSUME ShapeInv
    PROVE  /\ OutputsOverlap <=>
                \E s, t \in Scopes : /\ s.output = TRUE /\ t.output = TRUE
                                    /\ s.command # t.command /\ Comparable(s.prefix, t.prefix)
           /\ InputsOverlapOutputs <=>
                \E s, t \in Scopes : /\ s.output = FALSE /\ t.output = TRUE
                                    /\ s.command # t.command /\ Comparable(s.prefix, t.prefix)
<1> DEFINE Meet(c, d) == c < d /\ HasPolicy(c) /\ HasPolicy(d)
           Ins(c) == policies[c].inputs
           Outs(c) == policies[c].outputs
           In(c, p) == [prefix |-> p, command |-> c, output |-> FALSE]
           Out(c, p) == [prefix |-> p, command |-> c, output |-> TRUE]
<1>1. \A c, d \in Command : Meet(c, d) => /\ <<c, d>> \in Pair /\ c # d
                                         /\ <<c, d>>[1] = c /\ <<c, d>>[2] = d
  BY GroupAssumption DEF Pair, Command
<1>2. \A cd \in Pair : cd[1] \in Command /\ cd[2] \in Command /\ Meet(cd[1], cd[2])
  BY DEF Pair
<1>3. \A c, d \in Command : HasPolicy(c) /\ HasPolicy(d) /\ c # d => Meet(c, d) \/ Meet(d, c)
  BY GroupAssumption DEF Command
<1>4. \A P, Q : Overlap(P, Q) <=> \E p \in P, q \in Q : Comparable(p, q)
  BY DEF Overlap, Comparable
<1>5. \A p, q : Comparable(p, q) <=> Comparable(q, p)
  BY DEF Comparable
<1>6. /\ OutputsOverlap <=> \E cd \in Pair : Overlap(Outs(cd[1]), Outs(cd[2]))
      /\ InputsOverlapOutputs <=> \E cd \in Pair : \/ Overlap(Ins(cd[1]), Outs(cd[2]))
                                                   \/ Overlap(Outs(cd[1]), Ins(cd[2]))
  BY DEF OutputsOverlap, InputsOverlapOutputs
<1>7. \A s \in Scopes : /\ s.command \in Command /\ HasPolicy(s.command)
                        /\ s.output = FALSE => s.prefix \in Ins(s.command)
                        /\ s.output = TRUE => s.prefix \in Outs(s.command)
  BY ScopeShape
<1>8. \A c \in Command : \A p : HasPolicy(c) =>
        /\ p \in Ins(c) => In(c, p) \in Scopes
        /\ p \in Outs(c) => Out(c, p) \in Scopes
  BY ScopeShape
<1>9. \A c, p : /\ In(c, p).prefix = p /\ In(c, p).command = c /\ In(c, p).output = FALSE
                /\ Out(c, p).prefix = p /\ Out(c, p).command = c /\ Out(c, p).output = TRUE
  OBVIOUS
<1>10. \A c, d \in Command : Meet(c, d) => HasPolicy(c) /\ HasPolicy(d)
  OBVIOUS
<1> HIDE DEF Meet, Ins, Outs, In, Out
<1>11. ASSUME OutputsOverlap
       PROVE  \E s, t \in Scopes : /\ s.output = TRUE /\ t.output = TRUE
                                  /\ s.command # t.command /\ Comparable(s.prefix, t.prefix)
  <2>1. PICK cd \in Pair : Overlap(Outs(cd[1]), Outs(cd[2]))
    BY <1>6, <1>11
  <2>2. PICK p \in Outs(cd[1]), q \in Outs(cd[2]) : Comparable(p, q)
    BY <1>4, <2>1
  <2>3. /\ cd[1] \in Command /\ cd[2] \in Command /\ cd[1] # cd[2]
        /\ HasPolicy(cd[1]) /\ HasPolicy(cd[2])
    BY <1>1, <1>2, <1>10
  <2>4. Out(cd[1], p) \in Scopes /\ Out(cd[2], q) \in Scopes
    BY <1>8, <2>2, <2>3
  <2>5. /\ Out(cd[1], p).output = TRUE /\ Out(cd[2], q).output = TRUE
        /\ Out(cd[1], p).command # Out(cd[2], q).command
        /\ Comparable(Out(cd[1], p).prefix, Out(cd[2], q).prefix)
    BY <1>9, <2>2, <2>3
  <2> QED
    BY <2>4, <2>5, Zenon
<1>12. ASSUME NEW s \in Scopes, NEW t \in Scopes, s.output = TRUE, t.output = TRUE,
              s.command # t.command, Comparable(s.prefix, t.prefix)
       PROVE  OutputsOverlap
  <2> DEFINE c == s.command
             d == t.command
  <2>0. /\ c \in Command /\ d \in Command
        /\ s.prefix \in Outs(c) /\ t.prefix \in Outs(d)
        /\ Meet(c, d) \/ Meet(d, c)
    <3>1. /\ c \in Command /\ d \in Command
          /\ HasPolicy(c) /\ HasPolicy(d) /\ c # d
          /\ s.prefix \in Outs(c) /\ t.prefix \in Outs(d)
      BY <1>7, <1>12, Zenon
    <3> HIDE DEF c, d
    <3> QED
      BY <1>3, <3>1
  <2>1. Overlap(Outs(c), Outs(d)) /\ Overlap(Outs(d), Outs(c))
    BY <1>4, <1>5, <1>12, <2>0
  <2>2. CASE Meet(c, d)
    <3>1. <<c, d>> \in Pair /\ <<c, d>>[1] = c /\ <<c, d>>[2] = d
      BY <1>1, <2>0, <2>2
    <3> QED
      BY <1>6, <2>1, <3>1
  <2>3. CASE Meet(d, c)
    <3>1. <<d, c>> \in Pair /\ <<d, c>>[1] = d /\ <<d, c>>[2] = c
      BY <1>1, <2>0, <2>3
    <3> QED
      BY <1>6, <2>1, <3>1
  <2> QED
    BY <2>0, <2>2, <2>3
<1>13. ASSUME InputsOverlapOutputs
       PROVE  \E s, t \in Scopes : /\ s.output = FALSE /\ t.output = TRUE
                                  /\ s.command # t.command /\ Comparable(s.prefix, t.prefix)
  <2>1. PICK cd \in Pair : \/ Overlap(Ins(cd[1]), Outs(cd[2]))
                           \/ Overlap(Outs(cd[1]), Ins(cd[2]))
    BY <1>6, <1>13
  <2>2. PICK c \in Command, d \in Command : /\ c # d /\ HasPolicy(c) /\ HasPolicy(d)
                                            /\ Overlap(Ins(c), Outs(d))
    <3>1. /\ cd[1] \in Command /\ cd[2] \in Command /\ cd[1] # cd[2]
          /\ HasPolicy(cd[1]) /\ HasPolicy(cd[2])
      BY <1>1, <1>2, <1>10
    <3>2. Overlap(Outs(cd[1]), Ins(cd[2])) => Overlap(Ins(cd[2]), Outs(cd[1]))
      BY <1>4, <1>5
    <3> QED
      BY <2>1, <3>1, <3>2
  <2>3. PICK p \in Ins(c), q \in Outs(d) : Comparable(p, q)
    BY <1>4, <2>2
  <2>4. In(c, p) \in Scopes /\ Out(d, q) \in Scopes
    BY <1>8, <2>2, <2>3
  <2>5. /\ In(c, p).output = FALSE /\ Out(d, q).output = TRUE
        /\ In(c, p).command # Out(d, q).command
        /\ Comparable(In(c, p).prefix, Out(d, q).prefix)
    BY <1>9, <2>2, <2>3
  <2> QED
    BY <2>4, <2>5, Zenon
<1>14. ASSUME NEW s \in Scopes, NEW t \in Scopes, s.output = FALSE, t.output = TRUE,
              s.command # t.command, Comparable(s.prefix, t.prefix)
       PROVE  InputsOverlapOutputs
  <2> DEFINE c == s.command
             d == t.command
  <2>0. /\ c \in Command /\ d \in Command
        /\ s.prefix \in Ins(c) /\ t.prefix \in Outs(d)
        /\ Meet(c, d) \/ Meet(d, c)
    BY <1>3, <1>7, <1>14
  <2>1. Overlap(Ins(c), Outs(d)) /\ Overlap(Outs(d), Ins(c))
    BY <1>4, <1>5, <1>14, <2>0
  <2>2. CASE Meet(c, d)
    <3>1. <<c, d>> \in Pair /\ <<c, d>>[1] = c /\ <<c, d>>[2] = d
      BY <1>1, <2>0, <2>2
    <3> QED
      BY <1>6, <2>1, <3>1
  <2>3. CASE Meet(d, c)
    <3>1. <<d, c>> \in Pair /\ <<d, c>>[1] = d /\ <<d, c>>[2] = c
      BY <1>1, <2>0, <2>3
    <3> QED
      BY <1>6, <2>1, <3>1
  <2> QED
    BY <2>0, <2>2, <2>3
<1> QED
  BY <1>11, <1>12, <1>13, <1>14

\* What was found is an overlap of selectors, and all of them once nothing is
\* pending.
LEMMA FoundIsOverlap ==
    ASSUME ShapeInv
    PROVE  /\ Found(TRUE, TRUE) => OutputsOverlap
           /\ Found(FALSE, TRUE) => InputsOverlapOutputs
           /\ pending = {} => /\ OutputsOverlap => Found(TRUE, TRUE)
                              /\ InputsOverlapOutputs => Found(FALSE, TRUE)
BY ScopesAreSelectors DEF Found, Swept

\* A group in which fewer than two policies or no outputs were seen has no
\* overlap: the sweep may be skipped.
LEMMA SkippingIsSound ==
    ASSUME ShapeInv, FlagsInv, CountInv, index \notin Command,
           OutputsOverlap \/ InputsOverlapOutputs
    PROVE  Sweeps
<1>1. PICK s, t \in Scopes : t.output = TRUE /\ s.command # t.command
  BY ScopesAreSelectors
<1>2. /\ s.command \in Command /\ t.command \in Command
      /\ HasPolicy(s.command) /\ HasPolicy(t.command)
      /\ t.prefix \in policies[t.command].outputs
  BY <1>1, ScopeShape
<1>3. Visited(s.command) /\ Visited(t.command)
  BY <1>2, AllVisited
<1>4. hasOutputs
  BY <1>2, <1>3 DEF FlagsInv
<1>5. count \in Nat /\ count # 0 /\ count # 1
  BY <1>1, <1>2, <1>3 DEF CountInv, ShapeInv
<1> QED
  BY <1>4, <1>5 DEF Sweeps, Shared

-----------------------------------------------------------------------------
(* The theorems *)

\* While the sweep runs, what it found is real; when it is over, it found all.
LEMMA VerdictMeansOverlap ==
    ASSUME ShapeInv, VerdictInv
    PROVE  /\ outputOverlap => OutputsOverlap
           /\ mixedOverlap => InputsOverlapOutputs
           /\ pending = {} \/ (outputOverlap /\ mixedOverlap) =>
                /\ outputOverlap <=> OutputsOverlap
                /\ mixedOverlap <=> InputsOverlapOutputs
<1>1. /\ outputOverlap <=> Found(TRUE, TRUE)
      /\ mixedOverlap <=> Found(FALSE, TRUE)
  BY DEF VerdictInv
<1>2. /\ Found(TRUE, TRUE) => OutputsOverlap
      /\ Found(FALSE, TRUE) => InputsOverlapOutputs
      /\ pending = {} => (OutputsOverlap => Found(TRUE, TRUE))
      /\ pending = {} => (InputsOverlapOutputs => Found(FALSE, TRUE))
  BY FoundIsOverlap, Zenon
<1> QED
  BY <1>1, <1>2, Zenon

\* The references depend on the policies alone.
LEMMA ReferencesStay ==
    ASSUME policies' = policies
    PROVE  /\ OutputsOverlap' <=> OutputsOverlap
           /\ InputsOverlapOutputs' <=> InputsOverlapOutputs
           /\ DestructiveNotAlone' <=> DestructiveNotAlone
           /\ ResourceConflicts' = ResourceConflicts
<1>1. Pair' = Pair
  BY DEF Pair, HasPolicy
<1>2. OutputsOverlap' <=> OutputsOverlap
  BY <1>1 DEF OutputsOverlap
<1>3. InputsOverlapOutputs' <=> InputsOverlapOutputs
  BY <1>1 DEF InputsOverlapOutputs
<1>4. DestructiveNotAlone' <=> DestructiveNotAlone
  BY <1>1 DEF DestructiveNotAlone
<1>5. ResourceConflicts' = ResourceConflicts
  BY <1>1 DEF ResourceConflicts
<1> QED
  BY <1>2, <1>3, <1>4, <1>5

LEMMA InitExact == Init => ExactInv
<1> SUFFICES ASSUME Init
             PROVE  ExactInv
  OBVIOUS
<1> USE DEF Init
<1>1. ShapeInv
  <2>1. index \in 1 .. N + 1
    BY GroupAssumption
  <2> QED
    BY <2>1 DEF ShapeInv
<1>2. PhaseInv /\ VerdictsInv
  BY DEF PhaseInv, VerdictsInv
<1>3. VisitInv
  <2>1. \A c \in Command : ~Visited(c)
    BY DEF Visited, Command
  <2> QED
    BY <2>1 DEF VisitInv, SeenInv, FlagsInv, CountInv, VisitCausesInv
<1>4. SweepInv /\ OverlapIsReal
  BY DEF SweepInv, OverlapIsReal
<1>5. ResourceCausesAreExact /\ DestructiveCauseIsExact /\ SelectorCausesAreExact
  BY DEF ResourceCausesAreExact, DestructiveCauseIsExact, SelectorCausesAreExact
<1> QED
  BY <1>1, <1>2, <1>3, <1>4, <1>5 DEF ExactInv

\* After the visit the causes of its kinds stay as they are.
LEMMA ExactCausesStay ==
    ASSUME ResourceCausesAreExact, DestructiveCauseIsExact, policies' = policies,
           phase # "visit",
           \A kind \in Kind \cup {"destructive"} : \A n :
             <<kind, n>> \in causes' <=> <<kind, n>> \in causes
    PROVE  ResourceCausesAreExact' /\ DestructiveCauseIsExact'
<1>1. \A kind \in Kind : \A n \in Name :
        <<kind, n>> \in causes' <=> <<kind, n>> \in ResourceConflicts'
  BY ReferencesStay DEF ResourceCausesAreExact, Kind
<1>2. <<"destructive", "">> \in causes' <=> DestructiveNotAlone'
  BY ReferencesStay DEF DestructiveCauseIsExact
<1> QED
  BY <1>1, <1>2 DEF ResourceCausesAreExact, DestructiveCauseIsExact, Kind

LEMMA NextExact == ExactInv /\ [Next]_vars => ExactInv'
<1> SUFFICES ASSUME ExactInv, [Next]_vars
             PROVE  ExactInv'
  OBVIOUS
<1>0. /\ ShapeInv /\ PhaseInv /\ VisitInv /\ VerdictsInv /\ ResourceCausesAreExact
      /\ DestructiveCauseIsExact /\ SweepInv /\ OverlapIsReal /\ SelectorCausesAreExact
  BY DEF ExactInv
<1>1. CASE SkipCommand \/ VisitCommand
  <2>1. /\ phase = "visit" /\ phase' = "visit" /\ policies' = policies
        /\ outputOverlap' = outputOverlap /\ mixedOverlap' = mixedOverlap
        /\ stack' = stack /\ pending' = pending
    BY <1>1 DEF SkipCommand, VisitCommand, sweep
  <2>2. ShapeInv' /\ VisitInv'
    BY <1>0, <1>1, SkipKeepsVisit, VisitKeepsVisit
  <2>3. VerdictsInv'
    <3>1. CASE SkipCommand
      BY <1>0, <2>1, <3>1 DEF VerdictsInv, SkipCommand
    <3>2. CASE VisitCommand
      BY <1>0, <2>1, <3>2, CollisionsAreNotVerdicts DEF VerdictsInv, VisitCommand
    <3> QED
      BY <1>1, <3>1, <3>2
  <2>4. SweepInv' /\ OverlapIsReal'
    BY <1>0, <2>1 DEF SweepInv, OverlapIsReal
  <2>5. PhaseInv' /\ ResourceCausesAreExact' /\ DestructiveCauseIsExact' /\ SelectorCausesAreExact'
    BY <2>1 DEF PhaseInv, ResourceCausesAreExact, DestructiveCauseIsExact, SelectorCausesAreExact
  <2> QED
    BY <2>2, <2>3, <2>4, <2>5 DEF ExactInv
<1>2. CASE EndVisit
  <2>1. /\ phase = "visit" /\ policies' = policies /\ index \notin Command
        /\ index' = index /\ seen' = seen /\ count' = count
        /\ stack' = stack /\ outputOverlap' = outputOverlap /\ mixedOverlap' = mixedOverlap
        /\ phase' = (IF Sweeps THEN "sweep" ELSE "done")
        /\ pending' = (IF Sweeps THEN Scopes ELSE {})
        /\ stack = << >> /\ outputOverlap = FALSE /\ mixedOverlap = FALSE
    BY <1>0, <1>2 DEF EndVisit, scan, SweepInv
  <2>2. ShapeInv' /\ PhaseInv' /\ VisitInv'
    BY <1>0, <2>1 DEF ShapeInv, PhaseInv, VisitInv
  <2>3. ResourceCausesAreExact' /\ DestructiveCauseIsExact'
    BY <1>0, <1>2, VisitIsExact
  <2>4. OverlapIsReal'
    BY <2>1 DEF OverlapIsReal
  <2>5. /\ <<"outputs", "">> \notin causes' /\ <<"inputs/outputs", "">> \notin causes'
    BY <1>0, <1>2 DEF EndVisit, VerdictsInv
  <2>6. VerdictsInv'
    BY <2>1, <2>5 DEF VerdictsInv
  <2>7. SelectorCausesAreExact'
    <3>1. CASE Sweeps
      BY <2>1, <3>1 DEF SelectorCausesAreExact
    <3>2. CASE ~Sweeps
      <4>1. ~OutputsOverlap /\ ~InputsOverlapOutputs
        BY <1>0, <2>1, <3>2, SkippingIsSound DEF VisitInv
      <4>2. ~OutputsOverlap' /\ ~InputsOverlapOutputs'
        BY <2>1, <4>1, ReferencesStay
      <4> QED
        BY <2>5, <4>2 DEF SelectorCausesAreExact
    <3> QED
      BY <3>1, <3>2
  <2>8. SweepInv'
    <3>1. CASE ~Sweeps
      BY <2>1, <3>1 DEF SweepInv
    <3>2. CASE Sweeps
      <4>1. Scopes' = Scopes
        BY <2>1 DEF Scopes, HasPolicy
      <4>2. pending' = Scopes' /\ Swept' = {} /\ stack' = << >> /\ phase' = "sweep"
        BY <2>1, <3>2, <4>1 DEF Swept
      <4>3. SortedInv' /\ ChainInv' /\ FramesInv' /\ OnStackInv'
        BY <4>2 DEF SortedInv, ChainInv, FramesInv, OnStackInv
      <4>4. VerdictInv'
        <5>1. ~Found(TRUE, TRUE)' /\ ~Found(FALSE, TRUE)'
          BY <4>2 DEF Found
        <5>2. outputOverlap' = FALSE /\ mixedOverlap' = FALSE
          BY <2>1
        <5> QED
          BY <5>1, <5>2 DEF VerdictInv
      <4>5. stack' \in Seq(Frame)
        BY <4>2
      <4> QED
        BY <2>1, <4>2, <4>3, <4>4, <4>5 DEF SweepInv
    <3> QED
      BY <3>1, <3>2
  <2> QED
    BY <2>2, <2>3, <2>4, <2>6, <2>7, <2>8 DEF ExactInv
<1>3. ASSUME NEW s \in pending, SweepScope(s)
      PROVE  ExactInv'
  <2>1. /\ phase = "sweep" /\ phase' = "sweep" /\ policies' = policies
        /\ index' = index /\ seen' = seen /\ count' = count /\ causes' = causes
    BY <1>3 DEF SweepScope, scan
  <2>2. ShapeInv' /\ PhaseInv' /\ VisitInv' /\ VerdictsInv'
    BY <1>0, <2>1 DEF ShapeInv, PhaseInv, VisitInv, VerdictsInv
  <2>3. ResourceCausesAreExact' /\ DestructiveCauseIsExact'
    BY <1>0, <2>1, ExactCausesStay
  <2>4. SweepInv'
    BY <1>0, <1>3, SweepScopeKeepsSweep
  <2>5. OverlapIsReal'
    <3>1. VerdictInv'
      BY <2>1, <2>4 DEF SweepInv
    <3>2. /\ outputOverlap' <=> Found(TRUE, TRUE)'
          /\ mixedOverlap' <=> Found(FALSE, TRUE)'
      BY <3>1 DEF VerdictInv
    <3>3. /\ Found(TRUE, TRUE)' => OutputsOverlap'
          /\ Found(FALSE, TRUE)' => InputsOverlapOutputs'
      <4>1. (ShapeInv => (Found(TRUE, TRUE) => OutputsOverlap))'
        BY FoundIsOverlap, PTL
      <4>2. (ShapeInv => (Found(FALSE, TRUE) => InputsOverlapOutputs))'
        BY FoundIsOverlap, PTL
      <4> QED
        BY <2>2, <4>1, <4>2
    <3> QED
      BY <3>2, <3>3, Zenon DEF OverlapIsReal
  <2>6. SelectorCausesAreExact'
    BY <2>1 DEF SelectorCausesAreExact
  <2> QED
    BY <2>2, <2>3, <2>4, <2>5, <2>6 DEF ExactInv
<1>4. CASE EndSweep
  <2>1. /\ phase = "sweep" /\ phase' = "done" /\ policies' = policies
        /\ index' = index /\ seen' = seen /\ count' = count
        /\ outputOverlap' = outputOverlap /\ mixedOverlap' = mixedOverlap
        /\ pending = {} \/ (outputOverlap /\ mixedOverlap)
        /\ causes' = causes
             \cup (IF outputOverlap THEN {<<"outputs", "">>} ELSE {})
             \cup (IF mixedOverlap THEN {<<"inputs/outputs", "">>} ELSE {})
    BY <1>4 DEF EndSweep, scan, sweep
  <2>2. ShapeInv' /\ PhaseInv' /\ VisitInv' /\ VerdictsInv' /\ SweepInv'
    BY <1>0, <2>1 DEF ShapeInv, PhaseInv, VisitInv, VerdictsInv, SweepInv
  <2>3. ResourceCausesAreExact' /\ DestructiveCauseIsExact'
    <3>1. \A kind \in Kind \cup {"destructive"} : \A n :
            <<kind, n>> \in causes' <=> <<kind, n>> \in causes
      BY <2>1 DEF Kind
    <3> QED
      BY <1>0, <2>1, <3>1, ExactCausesStay
  <2>4. OverlapIsReal'
    BY <1>0, <2>1, ReferencesStay, Zenon DEF OverlapIsReal
  <2>5. SelectorCausesAreExact'
    <3>1. VerdictInv
      BY <1>0, <2>1 DEF SweepInv
    <3>2. /\ outputOverlap <=> OutputsOverlap
          /\ mixedOverlap <=> InputsOverlapOutputs
      BY <1>0, <2>1, <3>1, VerdictMeansOverlap, Zenon
    <3>3. /\ <<"outputs", "">> \in causes' <=> outputOverlap
          /\ <<"inputs/outputs", "">> \in causes' <=> mixedOverlap
      <4>1. /\ <<"outputs", "">> \notin causes
            /\ <<"inputs/outputs", "">> \notin causes
        BY <1>0, <2>1 DEF VerdictsInv
      <4> QED
        BY <2>1, <4>1
    <3> QED
      BY <2>1, <3>2, <3>3, ReferencesStay, Zenon DEF SelectorCausesAreExact
  <2> QED
    BY <2>2, <2>3, <2>4, <2>5 DEF ExactInv
<1>5. CASE UNCHANGED vars
  <2>1. /\ policies' = policies /\ phase' = phase /\ index' = index /\ seen' = seen
        /\ destructive' = destructive /\ hasOutputs' = hasOutputs /\ count' = count
        /\ causes' = causes /\ pending' = pending /\ stack' = stack
        /\ outputOverlap' = outputOverlap /\ mixedOverlap' = mixedOverlap
    BY <1>5 DEF vars
  <2>2. ShapeInv' /\ PhaseInv' /\ VerdictsInv'
    BY <1>0, <2>1 DEF ShapeInv, PhaseInv, VerdictsInv
  <2>3. VisitInv'
    <3>1. SeenInv' = SeenInv
      BY <2>1 DEF SeenInv, Visited, HasPolicy
    <3>2. FlagsInv' = FlagsInv
      BY <2>1 DEF FlagsInv, Visited, HasPolicy
    <3>3. CountInv' = CountInv
      BY <2>1 DEF CountInv, Visited, HasPolicy
    <3>4. VisitCausesInv' = VisitCausesInv
      BY <2>1 DEF VisitCausesInv, Visited, HasPolicy, Collides
    <3> QED
      BY <1>0, <2>1, <3>1, <3>2, <3>3, <3>4 DEF VisitInv
  <2>4. SweepInv'
    <3>1. Scopes' = Scopes /\ Swept' = Swept
      BY <2>1 DEF Scopes, Swept, HasPolicy
    <3>2. SortedInv' = SortedInv /\ ChainInv' = ChainInv /\ OnStackInv' = OnStackInv
      BY <2>1, <3>1 DEF SortedInv, ChainInv, OnStackInv
    <3>3. FramesInv' = FramesInv
      BY <2>1, <3>1 DEF FramesInv, Aggregates, Above
    <3>4. Found(TRUE, TRUE)' = Found(TRUE, TRUE) /\ Found(FALSE, TRUE)' = Found(FALSE, TRUE)
      BY <3>1 DEF Found, Comparable
    <3>5. VerdictInv => VerdictInv'
      BY <2>1, <3>4 DEF VerdictInv
    <3> QED
      BY <1>0, <2>1, <3>1, <3>2, <3>3, <3>5 DEF SweepInv
  <2>5. OverlapIsReal' /\ SelectorCausesAreExact' /\ ResourceCausesAreExact' /\ DestructiveCauseIsExact'
    <3>1. OverlapIsReal'
      BY <1>0, <2>1, ReferencesStay, Zenon DEF OverlapIsReal
    <3>2. SelectorCausesAreExact'
      BY <1>0, <2>1, ReferencesStay DEF SelectorCausesAreExact
    <3>3. ResourceCausesAreExact'
      BY <1>0, <2>1, ReferencesStay DEF ResourceCausesAreExact
    <3>4. DestructiveCauseIsExact'
      BY <1>0, <2>1, ReferencesStay DEF DestructiveCauseIsExact
    <3> QED
      BY <3>1, <3>2, <3>3, <3>4
  <2> QED
    BY <2>2, <2>3, <2>4, <2>5 DEF ExactInv
<1> QED
  BY <1>1, <1>2, <1>3, <1>4, <1>5 DEF Next

\* The invariant behind the exactness of the check holds in every state.
THEOREM ExactInvariant == Spec => []ExactInv
<1> QED
  BY InitExact, NextExact, PTL DEF Spec

\* The loop over the policies reports exactly what comparing all pairs of
\* commands reports (parallelConflictCauses), for any group and any policies.
THEOREM PolicyReportExact == Spec => []PolicyReportIsExact
<1>1. ExactInv => PolicyReportIsExact
  BY DEF ExactInv, PolicyReportIsExact
<1> QED
  BY <1>1, ExactInvariant, PTL

\* The stack sweep reports overlapping selectors exactly when two commands of
\* the group have them, and never believes in an overlap that does not exist,
\* so its early end is sound (parallelSelectorConflicts), for any selectors.
THEOREM SelectorReportExact == Spec => []SelectorReportIsExact
<1>1. ExactInv => SelectorReportIsExact
  BY DEF ExactInv, SelectorReportIsExact
<1> QED
  BY <1>1, ExactInvariant, PTL

=============================================================================

------------------------ MODULE MCSchedulerConflicts ------------------------
(***************************************************************************)
(* Instances of SchedulerConflicts: prefixes are the strings over two       *)
(* letters of length at most one and two that extend the first of them, the *)
(* empty prefix of the selector "*" included.                               *)
(***************************************************************************)
EXTENDS SchedulerConflicts

Strings == {<<>>, <<1>>, <<2>>, <<1, 1>>, <<1, 2>>}

MCPrefixOf == {<<p, q>> \in Strings \X Strings :
                 Len(p) <= Len(q) /\ SubSeq(q, 1, Len(p)) = p}

\* strings.Compare: the shorter first when one is a prefix of the other, else
\* the first difference decides.
MCLexical == {<<p, q>> \in Strings \X Strings :
                \/ <<p, q>> \in MCPrefixOf
                \/ \E i \in 1 .. 2 :
                     /\ i <= Len(p) /\ i <= Len(q)
                     /\ SubSeq(p, 1, i - 1) = SubSeq(q, 1, i - 1)
                     /\ p[i] < q[i]}

Selects(ins, outs) == [locks |-> {}, reads |-> {}, writes |-> {},
                       inputs |-> ins, outputs |-> outs, destructive |-> FALSE]

\* Policies with at most one input and at most one output, and with two
\* outputs, related or not.
AtMostOne == {{}} \cup {{p} : p \in Strings}
SelectorPolicies ==
    {Selects(i, o) : i \in AtMostOne, o \in AtMostOne}
    \cup {Selects({}, {<<1>>, q}) : q \in Strings \ {<<>>}}
    \cup {Selects({}, {<<1, 1>>, <<1, 2>>})}

Uses(l, r, w, outs, d) == [locks |-> l, reads |-> r, writes |-> w,
                           inputs |-> {}, outputs |-> outs, destructive |-> d]

\* Policies that differ in locks and resources, and destructive ones with an
\* output.
ResourcePolicies ==
    {Uses(l, r, w, {}, FALSE) :
       l \in SUBSET {"a"}, r \in SUBSET {"a"}, w \in SUBSET {"a"}}
    \cup {Uses({}, {"a", "b"}, {}, {}, FALSE), Uses({}, {"b"}, {"a"}, {}, FALSE),
          Uses({}, {}, {"a", "b"}, {}, FALSE)}
    \cup {Uses(l, {}, {"a"}, {<<1>>}, TRUE) : l \in SUBSET {"a"}}

Policies == SelectorPolicies \cup ResourcePolicies

=============================================================================

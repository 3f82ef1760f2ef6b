--------------------------- MODULE ProofGateProofs --------------------------
(***************************************************************************)
(* What the proof gate decides is backed, for any facts, producers, claims *)
(* and policy, any number of runs, edits and receipts, and any number of   *)
(* mistakes of whoever carries the records.                                *)
(*                                                                         *)
(* Only the decision itself fills `decided`, and nothing moves after it.   *)
(* So BackedInv needs, of the states before, only that a diagnostic        *)
(* compares what its run saw with what was there when it was made          *)
(* (EntriesHonest), and the rest follows from what the projection admits.  *)
(* WayInv follows the plan from the planner to the decision, VerdictInv    *)
(* says what a passing verdict rests on, and the three of them give that   *)
(* every change was checked.  Faultless says what runs and diagnostics     *)
(* are as long as nobody erred; with it the two reports agree.             *)
(***************************************************************************)
EXTENDS ProofGate, FiniteSetTheorems, TLAPS

\* Receipts name runs that happened.
FiledHonest == \A f \in filed : f.producer # None => \E r \in runs : r.id = f.producer

\* A diagnostic is about a run, and compares what it saw with what is seen.
About(e, all, now) ==
    \E r \in all : r.id = e.receipt /\ e.checks = {[recorded |-> r.digest, current |-> now]}

EntriesHonest == currentness # None => \A e \in currentness : About(e, runs, seen)

Undecided == stage # "decided" => DOMAIN decided = {}

BackedInv == FiledHonest /\ EntriesHonest /\ Undecided /\ DecisionIsBacked

---------------------------------------------------------------------------
(* The decision takes the worst state *)

RankedStates == {Ranked[i] : i \in DOMAIN Ranked}

\* The rank of a state is its place in the list.
LEMMA RankOf == \A i \in 1..12 : Rank(Ranked[i]) = i
<1> DOMAIN Ranked = 1..12
  BY DEF Ranked
<1>1. \A i, j \in 1..12 : Ranked[i] = Ranked[j] => i = j
  BY SMTT(60) DEF Ranked
<1> QED
  BY <1>1 DEF Rank

\* A set of states of the list has a worst one.
LEMMA WorstExists ==
    ASSUME NEW S \in SUBSET RankedStates, S # {}
    PROVE  \E s \in S : \A t \in S : Rank(s) <= Rank(t)
<1> DEFINE P(n) == \A i \in 1..n : Ranked[i] \notin S
<1>0. DOMAIN Ranked = 1..12
  BY DEF Ranked
<1>1. \A t \in S : \E i \in 1..12 : t = Ranked[i] /\ Rank(t) = i
  BY <1>0, RankOf DEF RankedStates
<1>2. ASSUME NEW n \in 1..12, P(n - 1), Ranked[n] \in S
      PROVE  \E s \in S : \A t \in S : Rank(s) <= Rank(t)
  <2> WITNESS Ranked[n] \in S
  <2> TAKE t \in S
  <2>1. PICK i \in 1..12 : t = Ranked[i] /\ Rank(t) = i
    BY <1>1
  <2>2. ~(i < n)
    BY <1>2, <2>1
  <2> QED
    BY <2>1, <2>2, RankOf
<1>3. CASE \E n \in 1..12 : P(n - 1) /\ Ranked[n] \in S
  BY <1>2, <1>3
<1>4. CASE \A n \in 1..12 : P(n - 1) => Ranked[n] \notin S
  <2> HIDE DEF P
  <2>0. P(0)
    BY DEF P
  <2>s. ASSUME NEW n \in 1..12, P(n - 1) PROVE P(n)
    <3>1. Ranked[n] \notin S
      BY <1>4, <2>s
    <3>2. \A i \in 1..n : i = n \/ i \in 1..(n - 1)
      OBVIOUS
    <3> QED
      BY <3>1, <3>2, <2>s DEF P
  <2>1. P(1) /\ P(2) /\ P(3) /\ P(4)
    BY <2>0, <2>s
  <2>2. P(5) /\ P(6) /\ P(7) /\ P(8)
    BY <2>1, <2>s
  <2>3. P(9) /\ P(10) /\ P(11) /\ P(12)
    BY <2>2, <2>s
  <2> QED
    BY <2>3, <1>1 DEF P
<1> QED
  BY <1>3, <1>4

\* If the worst of the states is satisfiable, all of them are.
LEMMA WorstOfAll ==
    ASSUME NEW S \in SUBSET RankedStates, S # {}, Decide(S) \in Satisfiable
    PROVE  S \subseteq Satisfiable
<1>0. DOMAIN Ranked = 1..12
  BY DEF Ranked
<1>1. Decide(S) \in S /\ \A t \in S : Rank(Decide(S)) <= Rank(t)
  BY WorstExists DEF Decide
<1>2. Ranked[11] = "not_applicable" /\ Ranked[12] = "satisfied"
  BY DEF Ranked
<1>3. Rank(Decide(S)) \in {11, 12}
  <2>1. Rank("not_applicable") = 11 /\ Rank("satisfied") = 12
    BY <1>2, RankOf
  <2> QED
    BY <2>1 DEF Satisfiable
<1>4. ASSUME NEW t \in S PROVE t \in Satisfiable
  <2>1. PICK i \in 1..12 : t = Ranked[i]
    BY <1>0 DEF RankedStates
  <2>2. Rank(t) = i /\ Rank(Decide(S)) <= Rank(t)
    BY <2>1, <1>1, RankOf
  <2>3. i \in {11, 12}
    BY <2>2, <1>3
  <2> QED
    BY <2>1, <2>3, <1>2 DEF Satisfiable
<1> QED
  BY <1>4

---------------------------------------------------------------------------
(* What a satisfied obligation rests on *)

LEMMA ListedStates ==
    RankedStates =
        {"invalid_producer", "invalid_receipt", "stale_receipt", "failed",
         "missing_receipt", "blocked_missing_precondition", "unavailable_live",
         "unknown_scope", "deferred_admitted", "advisory_skipped", "not_applicable",
         "satisfied"}
<1> DOMAIN Ranked = 1..12
  BY DEF Ranked
<1> QED
  BY SMTT(60) DEF RankedStates, Ranked

\* The candidates of an obligation are states of the list.
LEMMA CandidatesListed ==
    ASSUME NEW t
    PROVE  /\ CandidateStates(t, filed, currentness, Policy, trust) \in SUBSET RankedStates
           /\ CandidateStates(t, filed, currentness, Policy, trust) # {}
<1>1. SelectiveEvidenceState(Group(filed, t.key)) \in RankedStates
  BY ListedStates DEF SelectiveEvidenceState
<1>2. \A e : CurrentnessStates(e) \subseteq RankedStates
  BY ListedStates DEF CurrentnessStates, Stale, OutOfScope
<1>3. \A e : TrustStates(Policy, e) \subseteq RankedStates
  BY ListedStates DEF TrustStates
<1>4. "unknown_scope" \in RankedStates /\ "invalid_producer" \in RankedStates
  BY ListedStates
<1> HIDE DEF RankedStates
<1> QED
  BY <1>1, <1>2, <1>3, <1>4 DEF CandidateStates

\* A satisfied obligation has no candidate that is not.
LEMMA AllSatisfied ==
    ASSUME NEW t, StateOf(t) \in Satisfiable
    PROVE  CandidateStates(t, filed, currentness, Policy, trust) \subseteq Satisfiable
BY CandidatesListed, WorstOfAll DEF StateOf

\* It has diagnostics of both kinds, and they are about it.
LEMMA SatisfiedIsDiagnosed ==
    ASSUME NEW t, StateOf(t) \in Satisfiable
    PROVE  /\ currentness # None /\ trust # None
           /\ \E e \in currentness : e.obligation = t.obligation
           /\ \E e \in trust : e.obligation = t.obligation
           /\ \A e \in currentness : e.obligation = t.obligation => Stale(e) = {}
           /\ SelectiveEvidenceState(Group(filed, t.key)) \in Satisfiable
<1> DEFINE C == CandidateStates(t, filed, currentness, Policy, trust)
<1>1. C \subseteq Satisfiable
  BY AllSatisfied
<1>2. "unknown_scope" \notin C /\ "invalid_producer" \notin C /\ "stale_receipt" \notin C
  BY <1>1 DEF Satisfiable
<1>3. currentness # None /\ EntriesFor(currentness, t.obligation) # {}
  BY <1>2 DEF CandidateStates
<1>4. trust # None /\ EntriesFor(trust, t.obligation) # {}
  BY <1>2 DEF CandidateStates
<1>5. SelectiveEvidenceState(Group(filed, t.key)) \in Satisfiable
  BY <1>1 DEF CandidateStates
<1>6. ASSUME NEW e \in currentness, e.obligation = t.obligation PROVE Stale(e) = {}
  <2>1. e \in EntriesFor(currentness, t.obligation)
    BY <1>6 DEF EntriesFor
  <2>2. CurrentnessStates(e) \subseteq C
    BY <2>1, <1>3 DEF CandidateStates
  <2>3. "stale_receipt" \notin CurrentnessStates(e)
    BY <2>2, <1>2
  <2> QED
    BY <2>3 DEF CurrentnessStates, Stale
<1> QED
  BY <1>3, <1>4, <1>5, <1>6 DEF EntriesFor

\* Backed, and by a receipt of a planned command that names its run.
Rests(t, r, f) ==
    /\ Backs(r, f, t) /\ f.producer # None /\ f.key = t.key /\ t.key \in Planned(plan)

\* The receipt of a satisfied obligation is the one its trust diagnostic names.
LEMMA OneReceipt ==
    ASSUME NEW class, NEW adm, NEW chosen, NEW t \in chosen,
           Projected(class, adm, chosen), StateOf(t) \in Satisfiable
    PROVE  /\ adm # None
           /\ t.key \in Planned(plan)
           /\ \E f \in filed : Group(filed, t.key) = {f} /\ f.key = t.key /\ f.producer # None
<1>1. trust # None /\ \E e \in trust : e.obligation = t.obligation
  BY SatisfiedIsDiagnosed
<1>2. PICK e \in trust : e.obligation = t.obligation
  BY <1>1
<1>3. RoutesAdmitted(plan, chosen) /\ TrustAdmitted(Policy, trust, chosen, adm, filed)
  BY DEF Projected
<1>4. Anchored(e, chosen, filed) /\ TrustBound(e, adm, filed)
  BY <1>1, <1>3 DEF TrustAdmitted
<1>5. PICK r \in chosen, f \in filed :
          /\ r.obligation = e.obligation /\ Group(filed, r.key) = {f} /\ f.producer # None
  BY <1>4 DEF Anchored
<1>6. r = t
  BY <1>2, <1>3, <1>5 DEF RoutesAdmitted
<1>7. f.key = t.key
  BY <1>5, <1>6 DEF Group
<1>8. t.key \in Planned(plan)
  BY <1>3 DEF RoutesAdmitted
<1> QED
  BY <1>4, <1>5, <1>6, <1>7, <1>8 DEF TrustBound

\* A satisfied obligation rests on a run.
LEMMA SatisfiedRests ==
    ASSUME NEW class, NEW adm \in {Admission, None}, NEW chosen, NEW t \in chosen,
           Projected(class, adm, chosen), StateOf(t) \in Satisfiable, EntriesHonest
    PROVE  \E r \in runs, f \in filed : Rests(t, r, f)
<1>1. adm = Admission /\ t.key \in Planned(plan)
  BY OneReceipt
<1>2. PICK f \in filed : Group(filed, t.key) = {f} /\ f.key = t.key /\ f.producer # None
  BY OneReceipt
<1>3. AdmissionPasses(adm) /\ ReceiptsBound(adm, filed, Planned(plan))
  <2>1. Projectable(class, plan, adm, filed) /\ adm # None
    BY OneReceipt DEF Projected
  <2> QED
    BY <2>1 DEF Projectable, ProducersAgree
<1>4. PICK r \in runs : SameStory(f, r)
  BY <1>1, <1>2, <1>3 DEF ReceiptsBound, Admission
<1>5. f.status = "passed"
  <2>1. SelectiveEvidenceState({f}) \in Satisfiable
    BY <1>2, SatisfiedIsDiagnosed
  <2>2. Cardinality({f}) = 1
    BY FS_Singleton
  <2>3. (CHOOSE g \in {f} : TRUE) = f
    OBVIOUS
  <2>4. f.status \in Statuses
    BY <1>1, <1>3, <1>4 DEF AdmissionPasses, AdmissionReadable, SameStory, Admission
  <2> QED
    BY <2>1, <2>2, <2>3, <2>4 DEF SelectiveEvidenceState, Satisfiable, Statuses
<1>6. /\ r.id = f.producer /\ r.subject = t.key.id /\ r.status = "passed"
      /\ r.merge /\ r.provenance # None
  BY <1>2, <1>4, <1>5 DEF SameStory
<1>7. LevelOf(Admission, r) = "merge_satisfying"
  <2>1. PICK p \in Producers : p.id = r.producer /\ (r.merge => MergeClaimHolds(p, r))
    BY <1>1, <1>3 DEF AdmissionPasses, ReceiptAllowed, Admission
  <2>2. \A q \in Producers : q.id = r.producer => q = p
    BY <2>1, <1>1, <1>3 DEF AdmissionPasses, AdmissionReadable, Admission
  <2>3. (CHOOSE q \in Producers : q.id = r.producer) = p
    BY <2>1, <2>2
  <2>4. p.level = "merge_satisfying"
    BY <2>1, <1>6 DEF MergeClaimHolds
  <2> QED
    BY <2>3, <2>4 DEF LevelOf, Admission
<1>8. r.digest = seen
  <2>1. PICK e \in currentness : e.obligation = t.obligation
    BY SatisfiedIsDiagnosed
  <2>2. currentness # None /\ Stale(e) = {}
    BY <2>1, SatisfiedIsDiagnosed
  <2>3. RoutesAdmitted(plan, chosen) /\ Anchored(e, chosen, filed)
    BY <2>2, <2>1 DEF Projected, CurrentnessAdmitted
  <2>4. e.receipt = f.producer
    <3>1. PICK u \in chosen, g \in filed :
              u.obligation = e.obligation /\ Group(filed, u.key) = {g} /\ g.producer = e.receipt
      BY <2>3 DEF Anchored
    <3>2. u = t
      BY <3>1, <2>1, <2>3 DEF RoutesAdmitted
    <3> QED
      BY <3>1, <3>2, <1>2
  <2>5. PICK s \in runs :
            s.id = e.receipt /\ e.checks = {[recorded |-> s.digest, current |-> seen]}
    BY <2>1, <2>2 DEF EntriesHonest, About
  <2>6. s = r
    BY <2>4, <2>5, <1>6, <1>1, <1>3 DEF AdmissionPasses, AdmissionReadable, Admission
  <2>7. [recorded |-> s.digest, current |-> seen] \in e.checks
    BY <2>5
  <2>8. s.digest = seen
    <3>1. \A c \in e.checks : c.recorded = c.current
      BY <2>2 DEF Stale
    <3> QED
      BY <2>7, <3>1
  <2> QED
    BY <2>6, <2>8
<1> QED
  BY <1>1, <1>2, <1>5, <1>6, <1>7, <1>8 DEF Rests, Backs

\* No run carries two obligations of one decision.
LEMMA RunsNotShared ==
    ASSUME NEW class, NEW adm \in {Admission, None}, NEW chosen,
           Projected(class, adm, chosen),
           NEW t \in chosen, NEW u \in chosen, StateOf(t) \in Satisfiable, u # t,
           NEW r \in runs, NEW f \in filed, Rests(t, r, f), NEW g \in filed
    PROVE  ~Backs(r, g, u)
<1> SUFFICES ASSUME Backs(r, g, u) PROVE FALSE
  OBVIOUS
<1>1. Unshared(filed, Planned(plan)) /\ RoutesAdmitted(plan, chosen)
  <2>1. Projectable(class, plan, adm, filed) /\ adm # None
    BY OneReceipt DEF Projected
  <2> QED
    BY <2>1 DEF Projectable, ProducersAgree, ReceiptsBound, Projected
<1>2. u.key \in Planned(plan)
  BY <1>1 DEF RoutesAdmitted
<1>3. g.key = u.key /\ g.producer = r.id
  BY DEF Backs, Group
<1>4. f.key = t.key /\ f.producer = r.id /\ f.producer # None /\ t.key \in Planned(plan)
  BY DEF Rests, Backs
<1>5. t.key = u.key
  BY <1>1, <1>2, <1>3, <1>4 DEF Unshared
<1> QED
  BY <1>1, <1>5 DEF RoutesAdmitted

---------------------------------------------------------------------------
(* The invariant *)

LEMMA InitBacked == Init => BackedInv
<1> SUFFICES ASSUME Init PROVE BackedInv
  OBVIOUS
<1>1. FiledHonest /\ EntriesHonest
  BY DEF Init, FiledHonest, EntriesHonest
<1>2. DOMAIN decided = {}
  BY DEF Init
<1> QED
  BY <1>1, <1>2 DEF BackedInv, Undecided, DecisionIsBacked

\* What an About diagnostic is about stays among more runs.
LEMMA MoreRuns ==
    ASSUME EntriesHonest, runs \subseteq runs', UNCHANGED entryVars
    PROVE  EntriesHonest'
BY DEF EntriesHonest, About, entryVars

\* Nothing but the decision touches what is decided.
LEMMA DecidedStays ==
    ASSUME BackedInv, stage # "decided", stage' # "decided", UNCHANGED decided
    PROVE  Undecided' /\ DecisionIsBacked'
<1>1. DOMAIN decided' = {}
  BY DEF BackedInv, Undecided
<1> QED
  BY <1>1 DEF Undecided, DecisionIsBacked

LEMMA PlanningBacked ==
    ASSUME BackedInv, CollectPaths \/ PlanGate \/ LosePart \/ AdmitPlan
    PROVE  BackedInv'
<1>1. /\ stage # "decided" /\ stage' # "decided"
      /\ UNCHANGED <<runVars, entryVars, resultVars>>
  BY DEF CollectPaths, PlanGate, LosePart, AdmitPlan
<1>2. FiledHonest'
  BY <1>1 DEF BackedInv, FiledHonest, runVars
<1>3. EntriesHonest'
  BY <1>1, MoreRuns DEF BackedInv, runVars
<1> QED
  BY <1>1, <1>2, <1>3, DecidedStays DEF BackedInv, resultVars

LEMMA RunBacked ==
    ASSUME BackedInv, Runs \/ Edit
    PROVE  BackedInv'
<1>1. /\ stage # "decided" /\ stage' # "decided"
      /\ UNCHANGED <<filed, entryVars, resultVars>>
      /\ runs \subseteq runs'
  <2>1. CASE Edit
    BY <2>1 DEF Edit, Open, runVars
  <2>2. CASE Runs
    <3>1. PICK key, claim : Run(key, claim)
      BY <2>2 DEF Runs
    <3> QED
      BY <3>1 DEF Run, Open
  <2> QED
    BY <2>1, <2>2
<1>2. FiledHonest'
  BY <1>1 DEF BackedInv, FiledHonest
<1>3. EntriesHonest'
  BY <1>1, MoreRuns DEF BackedInv
<1> QED
  BY <1>1, <1>2, <1>3, DecidedStays DEF BackedInv, resultVars

LEMMA FileBacked ==
    ASSUME BackedInv, File \/ Misfile
    PROVE  BackedInv'
<1>1. PICK f : /\ Files(f)
               /\ f.producer # None => \E r \in runs : r.id = f.producer
  <2>1. CASE File
    <3>1. CASE \E r \in runs : Files(Receipt(r.command, r))
      BY <3>1 DEF Receipt
    <3>2. CASE \E key \in Planned(plan), status \in {"blocked", "not_run"} :
                   Files(Excuse(key, status))
      BY <3>2 DEF Excuse
    <3> QED
      BY <2>1, <3>1, <3>2 DEF File
  <2>2. CASE Misfile
    <3>1. CASE \E r \in runs, key \in Planned(plan) \cup {Foreign} :
                   key # r.command /\ Files(Receipt(key, r))
      BY <3>1 DEF Receipt
    <3>2. CASE \E r \in runs : r.status = "failed"
                   /\ Files([Receipt(r.command, r) EXCEPT !.status = "passed"])
      BY <3>2 DEF Receipt
    <3>3. CASE \E r \in runs : Files([Receipt(r.command, r) EXCEPT !.producer = None])
      BY <3>3 DEF Receipt
    <3>4. CASE \E r \in runs : Files([Receipt(r.command, r) EXCEPT !.evidence = None])
      BY <3>4 DEF Receipt
    <3> QED
      BY <2>2, <3>1, <3>2, <3>3, <3>4 DEF Misfile
  <2> QED
    BY <2>1, <2>2
<1>2. /\ stage # "decided" /\ stage' # "decided" /\ UNCHANGED <<runs, entryVars, resultVars>>
      /\ filed' = filed \cup {f}
  BY <1>1 DEF Files, Open
<1>3. FiledHonest'
  BY <1>1, <1>2 DEF BackedInv, FiledHonest
<1>4. EntriesHonest'
  BY <1>2, MoreRuns DEF BackedInv
<1> QED
  BY <1>2, <1>3, <1>4, DecidedStays DEF BackedInv, resultVars

\* A caller's entry compares what its own run saw, wherever the entry is moved.
LEMMA EntryIsAbout ==
    ASSUME FiledHonest, NEW f \in Single
    PROVE  /\ About(CurrentEntry(f), runs, content)
           /\ \A key : About(Moved(f, key), runs, content)
           /\ \A state : About(Rescoped(f, state), runs, content)
<1>1. \E r \in runs : r.id = f.producer
  BY DEF FiledHonest, Single
<1>2. RunOf(f) \in runs /\ RunOf(f).id = f.producer
  BY <1>1 DEF RunOf
<1>3. /\ CurrentEntry(f).receipt = f.producer
      /\ CurrentEntry(f).checks = {[recorded |-> RunOf(f).digest, current |-> content]}
  BY DEF CurrentEntry
<1>4. \A key :
          /\ Moved(f, key).receipt = CurrentEntry(f).receipt
          /\ Moved(f, key).checks = CurrentEntry(f).checks
  BY DEF CurrentEntry, Moved
<1>5. \A state :
          /\ Rescoped(f, state).receipt = CurrentEntry(f).receipt
          /\ Rescoped(f, state).checks = CurrentEntry(f).checks
  BY DEF CurrentEntry, Rescoped
<1> QED
  BY <1>2, <1>3, <1>4, <1>5 DEF About

LEMMA DiagnoseBacked ==
    ASSUME BackedInv, Diagnose
    PROVE  BackedInv'
<1>1. PICK current, trusted :
          /\ Diagnoses(current, trusted)
          /\ current = CurrentEntries \/ current \in OddCurrentEntries
  BY DEF Diagnose
<1>2. FiledHonest
  BY DEF BackedInv
<1>3. \A e \in CurrentEntries : About(e, runs, content)
  BY <1>2, EntryIsAbout DEF CurrentEntries
<1>4. \A e \in current : About(e, runs, content)
  <2>1. CASE current = CurrentEntries
    BY <2>1, <1>3
  <2>2. CASE current \in LostEntry
    BY <2>2, <1>3 DEF LostEntry
  <2>3. CASE current \in MovedEntry
    <3>1. PICK f \in Single, g \in Single :
              current = Exchanged(CurrentEntries, CurrentEntry(f), Moved(g, f.key))
      BY <2>3 DEF MovedEntry
    <3>2. About(Moved(g, f.key), runs, content)
      BY <1>2, EntryIsAbout
    <3> QED
      BY <3>1, <3>2, <1>3 DEF Exchanged
  <2>4. CASE current \in RescopedEntry
    <3>1. PICK f \in Single, state \in {"unknown_current_scope", "not_applicable"} :
              current = Exchanged(CurrentEntries, CurrentEntry(f), Rescoped(f, state))
      BY <2>4 DEF RescopedEntry
    <3>2. About(Rescoped(f, state), runs, content)
      BY <1>2, EntryIsAbout
    <3> QED
      BY <3>1, <3>2, <1>3 DEF Exchanged
  <2> QED
    BY <1>1, <2>1, <2>2, <2>3, <2>4 DEF OddCurrentEntries
<1>5. /\ currentness' = Given(current) /\ seen' = content /\ runs' = runs /\ filed' = filed
      /\ stage # "decided" /\ stage' # "decided" /\ UNCHANGED decided
  BY <1>1 DEF Diagnoses, Open, runVars, resultVars
<1>6. EntriesHonest'
  <2> SUFFICES ASSUME currentness' # None, NEW e \in currentness'
               PROVE  About(e, runs', seen')
    BY DEF EntriesHonest, About
  <2>1. e \in current
    BY <1>5 DEF Given
  <2> QED
    BY <2>1, <1>4, <1>5
<1>7. FiledHonest'
  BY <1>2, <1>5 DEF FiledHonest
<1> QED
  BY <1>5, <1>6, <1>7, DecidedStays DEF BackedInv

LEMMA DecisionBacked ==
    ASSUME BackedInv, Decision
    PROVE  BackedInv'
<1>1. PICK class, adm, chosen :
          adm \in {Admission, None} /\ DecideObligations(class, adm, chosen)
  <2>1. CASE \E waived : DecideObligations("merge_satisfying", Admission, Routing(waived))
    BY <2>1
  <2>2. CASE \E class \in Levels : DecideObligations(class, None, Routing({}))
    BY <2>2
  <2>3. CASE \E lost : DecideObligations("merge_satisfying", Admission, Routing({}) \ {lost})
    BY <2>3
  <2> QED
    BY <2>1, <2>2, <2>3 DEF Decision
<1>2. /\ stage # "decided" /\ stage' = "decided"
      /\ UNCHANGED <<plan, runs, filed, currentness, trust, seen>>
  BY <1>1 DEF DecideObligations, Open, planVars, runVars, entryVars
<1>3. FiledHonest' /\ EntriesHonest' /\ Undecided'
  BY <1>2 DEF BackedInv, FiledHonest, EntriesHonest, About, Undecided
<1>4. DecisionIsBacked'
  <2>1. CASE ~Projected(class, adm, chosen)
    <3>1. DOMAIN decided' = {}
      BY <2>1, <1>1, <1>2 DEF DecideObligations, BackedInv, Undecided
    <3> QED
      BY <3>1 DEF DecisionIsBacked
  <2>2. CASE Projected(class, adm, chosen)
    <3>1. decided' = [r \in chosen |-> StateOf(r)]
      BY <2>2, <1>1 DEF DecideObligations
    <3>2. \A t \in chosen : StateOf(t) \in Satisfiable =>
              \E r \in runs, f \in filed :
                  /\ Backs(r, f, t)
                  /\ \A u \in chosen, g \in filed : u # t => ~Backs(r, g, u)
      <4> SUFFICES ASSUME NEW t \in chosen, StateOf(t) \in Satisfiable
                   PROVE  \E r \in runs, f \in filed :
                              /\ Backs(r, f, t)
                              /\ \A u \in chosen, g \in filed : u # t => ~Backs(r, g, u)
        OBVIOUS
      <4>1. PICK r \in runs, f \in filed : Rests(t, r, f)
        BY <1>1, <2>2, SatisfiedRests DEF BackedInv
      <4> WITNESS r \in runs, f \in filed
      <4>2. Backs(r, f, t)
        BY <4>1 DEF Rests
      <4> QED
        BY <1>1, <4>1, <4>2, <2>2, RunsNotShared
    <3>3. \A r, f, t : Backs(r, f, t)' = Backs(r, f, t)
      BY <1>2 DEF Backs, Group, LevelOf, Admission
    <3> QED
      BY <3>1, <3>2, <3>3, <1>2 DEF DecisionIsBacked
  <2> QED
    BY <2>1, <2>2
<1> QED
  BY <1>3, <1>4 DEF BackedInv

LEMMA StutterBacked ==
    ASSUME BackedInv, UNCHANGED vars
    PROVE  BackedInv'
<1> USE DEF vars, planVars, runVars, entryVars, resultVars
<1>1. FiledHonest' /\ EntriesHonest' /\ Undecided'
  BY DEF BackedInv, FiledHonest, EntriesHonest, About, Undecided
<1>2. \A r, f, t : Backs(r, f, t)' = Backs(r, f, t)
  BY DEF Backs, Group, LevelOf, Admission
<1>3. DecisionIsBacked'
  BY <1>2 DEF BackedInv, DecisionIsBacked
<1> QED
  BY <1>1, <1>3 DEF BackedInv

\* An obligation is decided satisfied only on one passing run with provenance of its
\* own, by a producer admitted to satisfy a merge, on the content that was diagnosed.
THEOREM DecisionsAreBacked == Spec => []DecisionIsBacked
<1>1. BackedInv /\ [Next]_vars => BackedInv'
  BY PlanningBacked, RunBacked, FileBacked, DiagnoseBacked, DecisionBacked, StutterBacked
     DEF Next
<1>2. BackedInv => DecisionIsBacked
  BY DEF BackedInv
<1> QED
  BY InitBacked, <1>1, <1>2, PTL DEF Spec

---------------------------------------------------------------------------
(* What buildPlan makes, AdmitEvidencePlan takes *)

\* Twelve groups are pushed, and a set of them has a first.
LEMMA FirstOfTwelve ==
    ASSUME NEW G \in SUBSET (1..12), G # {}
    PROVE  \E g \in G : \A h \in G : g <= h
<1> DEFINE Free(n) == \A i \in 1..n : i \notin G
<1>1. CASE \E n \in 1..12 : n \in G /\ Free(n - 1)
  <2>1. PICK n \in 1..12 : n \in G /\ Free(n - 1)
    BY <1>1
  <2>2. \A h \in G : n <= h
    BY <2>1
  <2> QED
    BY <2>1, <2>2
<1>2. CASE \A n \in 1..12 : Free(n - 1) => n \notin G
  <2> HIDE DEF Free
  <2>0. Free(0)
    BY DEF Free
  <2>s. ASSUME NEW n \in 1..12, Free(n - 1) PROVE Free(n)
    <3>1. n \notin G
      BY <1>2, <2>s
    <3>2. \A i \in 1..n : i = n \/ i \in 1..(n - 1)
      OBVIOUS
    <3> QED
      BY <3>1, <3>2, <2>s DEF Free
  <2>1. Free(1) /\ Free(2) /\ Free(3) /\ Free(4)
    BY <2>0, <2>s
  <2>2. Free(5) /\ Free(6) /\ Free(7) /\ Free(8)
    BY <2>1, <2>s
  <2>3. Free(9) /\ Free(10) /\ Free(11) /\ Free(12)
    BY <2>2, <2>s
  <2> QED
    BY <2>3 DEF Free
<1> QED
  BY <1>1, <1>2

LEMMA TwelveGroups == \A f, ch : DOMAIN Pushed(f, ch) = 1..12
BY DEF Pushed

\* The command kept for a key has that key and was pushed.
LEMMA KeptHasKey ==
    ASSUME NEW f, NEW ch, NEW c \in AllPushed(f, ch)
    PROVE  /\ FirstPushed(f, ch, Key(c)) \in AllPushed(f, ch)
           /\ Key(FirstPushed(f, ch, Key(c))) = Key(c)
<1> DEFINE P == Pushed(f, ch)
           groups == {g \in DOMAIN P : \E d \in P[g] : Key(d) = Key(c)}
           first == CHOOSE g \in groups : \A h \in groups : g <= h
<1>1. \E g \in DOMAIN P : c \in P[g]
  BY DEF AllPushed
<1>2. groups # {} /\ groups \in SUBSET (1..12)
  BY <1>1, TwelveGroups
<1>3. first \in groups
  BY <1>2, FirstOfTwelve
<1>4. \E d \in P[first] : Key(d) = Key(c)
  BY <1>3
<1> DEFINE kept == CHOOSE d \in P[first] : Key(d) = Key(c)
<1>5. kept \in P[first] /\ Key(kept) = Key(c)
  BY <1>4
<1>6. FirstPushed(f, ch, Key(c)) = kept
  BY DEF FirstPushed
<1> QED
  BY <1>3, <1>5, <1>6 DEF AllPushed

LEMMA OwnedKeepsKey ==
    ASSUME NEW f, NEW c
    PROVE  Key(Owned(f, c)) = Key(c) /\ Owned(f, c).reason = c.reason
           /\ Owned(f, c).id = c.id /\ Owned(f, c).path = c.path
           /\ Owned(f, c).owner = IF Key(c) = Key(ScanCommand(f.scan))
                                  THEN f.scan.owner ELSE "none"
BY DEF Owned, Key

\* Whatever is pushed has its key in the plan, and without collisions its reason too.
LEMMA PushedIsRequired ==
    ASSUME NEW f, NEW ch, NEW c \in AllPushed(f, ch)
    PROVE  \E d \in RequiredCommands(f, ch) :
              /\ Key(d) = Key(c)
              /\ Collisions(f, ch) = {} => d.reason = c.reason
              /\ Key(c) = Key(ScanCommand(f.scan)) => d.owner = f.scan.owner
<1> DEFINE kept == FirstPushed(f, ch, Key(c))
<1>1. kept \in AllPushed(f, ch) /\ Key(kept) = Key(c)
  BY KeptHasKey
<1>2. Owned(f, kept) \in RequiredCommands(f, ch)
  BY DEF RequiredCommands
<1>3. Collisions(f, ch) = {} => kept.reason = c.reason
  BY <1>1 DEF Collisions
<1> HIDE DEF kept
<1> QED
  BY <1>1, <1>2, <1>3, OwnedKeepsKey

LEMMA KeysAreUnique ==
    ASSUME NEW f, NEW ch
    PROVE  \A c, d \in RequiredCommands(f, ch) : Key(c) = Key(d) => c = d
<1> SUFFICES ASSUME NEW a \in AllPushed(f, ch), NEW b \in AllPushed(f, ch),
                    Key(Owned(f, FirstPushed(f, ch, Key(a))))
                    = Key(Owned(f, FirstPushed(f, ch, Key(b))))
             PROVE  Owned(f, FirstPushed(f, ch, Key(a))) = Owned(f, FirstPushed(f, ch, Key(b)))
  BY DEF RequiredCommands
<1>1. Key(a) = Key(b)
  BY OwnedKeepsKey, KeptHasKey
<1> QED
  BY <1>1

\* What each group contributes is pushed.
LEMMA GroupsArePushed ==
    ASSUME NEW f, NEW ch
    PROVE  /\ ScanCommand(f.scan) \in AllPushed(f, ch)
           /\ PathTriggered(f, ch) \subseteq AllPushed(f, ch)
           /\ FallbackCommands(AssessUnknownEdges(f.edges, f.coverage), f.coverage)
              \subseteq AllPushed(f, ch)
           /\ GeneratedCommands(f, GeneratedArtifacts(f, ch)) \subseteq AllPushed(f, ch)
           /\ RequirementImpactTouched(f, ch) =>
                 Command("requirement-impact", f.impactText, NoPath,
                         "changed_requirement_or_proof_surface") \in AllPushed(f, ch)
           /\ WitnessCommands(f.witnesses) \subseteq AllPushed(f, ch)
           /\ f.apiTouched =>
                 Command("public-api", f.apiText, NoPath,
                         "public_api_contract_surface_changed") \in AllPushed(f, ch)
           /\ IntegrityCommands(ArtifactIntegrity(f, ch)) \subseteq AllPushed(f, ch)
<1>1. \A i \in 1..12 : Pushed(f, ch)[i] \subseteq AllPushed(f, ch)
  BY TwelveGroups DEF AllPushed
<1>2. /\ Pushed(f, ch)[2] = {ScanCommand(f.scan)}
      /\ Pushed(f, ch)[5] = PathTriggered(f, ch)
      /\ Pushed(f, ch)[6] = FallbackCommands(AssessUnknownEdges(f.edges, f.coverage), f.coverage)
      /\ Pushed(f, ch)[7] = GeneratedCommands(f, GeneratedArtifacts(f, ch))
      /\ Pushed(f, ch)[8] = OnlyIf(RequirementImpactTouched(f, ch),
              Command("requirement-impact", f.impactText, NoPath,
                      "changed_requirement_or_proof_surface"))
      /\ Pushed(f, ch)[9] = WitnessCommands(f.witnesses)
      /\ Pushed(f, ch)[11] = OnlyIf(f.apiTouched,
              Command("public-api", f.apiText, NoPath,
                      "public_api_contract_surface_changed"))
      /\ Pushed(f, ch)[12] = IntegrityCommands(ArtifactIntegrity(f, ch))
  BY DEF Pushed
<1>3. \A condition, c : condition => c \in OnlyIf(condition, c)
  BY DEF OnlyIf
<1> QED
  BY <1>1, <1>2, <1>3

\* One key, one id, one text, one path.
LEMMA SameKey ==
    ASSUME NEW c, NEW d, Key(c) = Key(d)
    PROVE  c.id = d.id /\ c.text = d.text /\ c.path = d.path
BY DEF Key

LEMMA PushedHasRoute ==
    ASSUME NEW f, NEW ch, NEW c \in AllPushed(f, ch), Collisions(f, ch) = {},
           NEW p, p.required = RequiredCommands(f, ch)
    PROVE  HasCommand(p, c) /\ HasReasoned(p, c) /\ HasRoute(p, c.id, c.path, c.reason)
<1>1. PICK d \in RequiredCommands(f, ch) : Key(d) = Key(c) /\ d.reason = c.reason
  BY PushedIsRequired
<1>2. d.id = c.id /\ d.path = c.path
  BY <1>1, SameKey
<1> QED
  BY <1>1, <1>2 DEF HasCommand, HasReasoned, HasRoute

\* An ok plan as built carries the commands of all it reports.
LEMMA BuiltIsDerived ==
    ASSUME NEW f, NEW ch, NEW pre, PlanFailures(f, ch, pre) = {}
    PROVE  DerivedCommandsPresent(BuildPlan(f, ch, pre))
<1> DEFINE p == BuildPlan(f, ch, pre)
<1>0. /\ p.required = RequiredCommands(f, ch) /\ p.apiTouched = f.apiTouched
      /\ p.proofLike = ProofLikePaths(f, ch) /\ p.generated = GeneratedArtifacts(f, ch)
      /\ p.integrity = ArtifactIntegrity(f, ch) /\ p.witnesses = f.witnesses
  BY DEF BuildPlan
<1>1. Collisions(f, ch) = {}
  BY DEF PlanFailures
<1> HIDE DEF p
<1>2. \A c \in AllPushed(f, ch) : HasReasoned(p, c) /\ HasRoute(p, c.id, c.path, c.reason)
  BY <1>0, <1>1, PushedHasRoute
<1>3. \A id, text, path, reason :
          LET c == Command(id, text, path, reason)
          IN  c.id = id /\ c.path = path /\ c.reason = reason
  BY DEF Command
<1>4. p.apiTouched =>
          HasRoute(p, "public-api", NoPath, "public_api_contract_surface_changed")
  <2> SUFFICES ASSUME p.apiTouched
               PROVE  HasRoute(p, "public-api", NoPath, "public_api_contract_surface_changed")
    OBVIOUS
  <2>1. f.apiTouched
    BY <1>0, Zenon
  <2>2. Command("public-api", f.apiText, NoPath, "public_api_contract_surface_changed")
        \in AllPushed(f, ch)
    BY <2>1, GroupsArePushed, Zenon
  <2> QED
    BY <2>2, <1>2, <1>3
<1>5. p.proofLike # {} =>
          HasRoute(p, "requirement-impact", NoPath, "changed_requirement_or_proof_surface")
  BY <1>0, <1>2, <1>3, GroupsArePushed DEF RequirementImpactTouched
<1>6. \A a \in p.generated :
          HasRoute(p, "generated-artifact", a.path, <<"generated_artifact", a.reason>>)
  <2> SUFFICES ASSUME NEW a \in GeneratedArtifacts(f, ch)
               PROVE  HasRoute(p, "generated-artifact", a.path,
                               <<"generated_artifact", a.reason>>)
    BY <1>0
  <2>1. PICK r \in f.rules : r.path = a.path
    BY DEF GeneratedArtifacts
  <2>2. Command("generated-artifact", r.text, r.path, <<"generated_artifact", a.reason>>)
        \in GeneratedCommands(f, GeneratedArtifacts(f, ch))
    BY <2>1 DEF GeneratedCommands
  <2> QED
    BY <2>1, <2>2, <1>2, <1>3, GroupsArePushed
<1>7. \A c \in IntegrityCommands(p.integrity) : HasReasoned(p, c)
  BY <1>0, <1>2, GroupsArePushed
<1>8. \A c \in WitnessCommands(p.witnesses) : HasReasoned(p, c)
  BY <1>0, <1>2, GroupsArePushed
<1>9. DerivedCommandsPresent(p)
  BY <1>4, <1>5, <1>6, <1>7, <1>8, Zenon DEF DerivedCommandsPresent
<1> QED
  BY <1>9 DEF p

\* Every plan buildPlan makes from admitted facts is admitted by its consumers.
LEMMA BuiltIsAdmitted ==
    ASSUME NEW f, NEW ch, NEW pre, FactsAdmitted(f)
    PROVE  PlanAdmitted(BuildPlan(f, ch, pre))
<1> DEFINE p == BuildPlan(f, ch, pre)
           assessed == AssessUnknownEdges(f.edges, f.coverage)
<1>0. /\ p.required = RequiredCommands(f, ch) /\ p.scan = f.scan
      /\ p.coverage = f.coverage /\ p.edges = assessed
      /\ p.failures = PlanFailures(f, ch, pre)
      /\ p.state = IF PlanFailures(f, ch, pre) = {} THEN "ok" ELSE "fail_closed"
  BY DEF BuildPlan
<1>1. ScanAdmitted(p.scan)
  BY <1>0 DEF FactsAdmitted
<1>2. \A c, d \in p.required : Key(c) = Key(d) => c = d
  BY <1>0, KeysAreUnique
<1>3. \A j, k \in p.coverage : j.command.id = k.command.id => j = k
  BY <1>0 DEF FactsAdmitted
<1>4. \A d, e \in p.edges : d.id = e.id => d = e
  BY <1>0 DEF FactsAdmitted, AssessUnknownEdges
<1>5. \A e \in p.edges : e.fallbacks = FallbackIds(p.coverage, e.class)
  BY <1>0 DEF AssessUnknownEdges
<1>6. ASSUME p.state = "ok"
      PROVE  /\ Uncovered(p.edges) = {}
             /\ \A c \in FallbackCommands(p.edges, p.coverage) : HasCommand(p, c)
             /\ ScanPresent(p)
             /\ DerivedCommandsPresent(p)
  <2>1. PlanFailures(f, ch, pre) = {}
    BY <1>6, <1>0
  <2>2. Collisions(f, ch) = {} /\ Uncovered(assessed) = {}
    BY <2>1 DEF PlanFailures
  <2>3. \A c \in AllPushed(f, ch) : HasCommand(p, c)
    BY <1>0, <2>2, PushedHasRoute
  <2>4. \A c \in FallbackCommands(p.edges, p.coverage) : HasCommand(p, c)
    BY <1>0, <2>3, GroupsArePushed
  <2>5. ScanPresent(p)
    <3>1. ScanCommand(f.scan) \in AllPushed(f, ch)
      BY GroupsArePushed
    <3>2. \E c \in RequiredCommands(f, ch) :
              Key(c) = Key(ScanCommand(f.scan)) /\ c.owner = f.scan.owner
      BY <3>1, PushedIsRequired
    <3> QED
      BY <3>2, <1>0 DEF ScanPresent
  <2>6. DerivedCommandsPresent(p)
    BY <2>1, BuiltIsDerived
  <2> QED
    BY <1>0, <2>2, <2>4, <2>5, <2>6
<1>7. (p.state = "ok") = (p.failures = {})
  BY <1>0
<1> HIDE DEF p
<1>8. PlanAdmitted(p)
  BY <1>1, <1>2, <1>3, <1>4, <1>5, <1>6, <1>7, Zenon DEF PlanAdmitted
<1> QED
  BY <1>8 DEF p

---------------------------------------------------------------------------
(* The plan on its way *)

\* The plan as made, but for its commands, its state and its failures.
Carried(required, state, failures) ==
    [state      |-> state,
     failures   |-> failures,
     required   |-> required,
     scan       |-> facts.scan,
     coverage   |-> facts.coverage,
     edges      |-> AssessUnknownEdges(facts.edges, facts.coverage),
     generated  |-> GeneratedArtifacts(facts, changed),
     integrity  |-> ArtifactIntegrity(facts, changed),
     witnesses  |-> facts.witnesses,
     proofLike  |-> ProofLikePaths(facts, changed),
     apiTouched |-> facts.apiTouched]

Planless == stage \in {"collecting", "planning", "rejected"}

WayInv ==
    /\ ~Planless =>
          /\ FactsAdmitted(facts)
          /\ \E required, state, failures : plan = Carried(required, state, failures)
          /\ ~tampered => plan = BuildPlan(facts, changed, upstream)
    /\ Planless => ~tampered
    /\ stage = "refused" => ~PlanAdmitted(plan)
    /\ stage \in {"gated", "decided"} => PlanAdmitted(plan)

LEMMA InitWay == Init => WayInv
BY DEF Init, WayInv, Planless

\* Once the plan is admitted nothing of it changes.
LEMMA WayStays ==
    ASSUME WayInv, stage \in {"gated", "decided"}, stage' \in {"gated", "decided"},
           UNCHANGED planVars
    PROVE  WayInv'
<1> USE DEF planVars
<1>1. PICK required, state, failures : plan = Carried(required, state, failures)
  BY DEF WayInv, Planless
<1>2. plan' = Carried(required, state, failures)'
  BY <1>1 DEF Carried
<1>3. FactsAdmitted(facts)' /\ PlanAdmitted(plan)'
      /\ (~tampered' => plan' = BuildPlan(facts', changed', upstream'))
  BY DEF WayInv, Planless
<1> QED
  BY <1>2, <1>3 DEF WayInv, Planless

LEMMA PlanGateWay ==
    ASSUME WayInv, PlanGate
    PROVE  WayInv'
<1>1. CASE ~FactsAdmitted(facts)
  BY <1>1 DEF PlanGate, WayInv, Planless
<1>2. CASE FactsAdmitted(facts)
  <2>1. /\ plan' = BuildPlan(facts, changed, upstream) /\ stage' = "handing"
        /\ UNCHANGED <<facts, changed, upstream, tampered>>
    BY <1>2 DEF PlanGate
  <2>2. BuildPlan(facts, changed, upstream)
        = Carried(RequiredCommands(facts, changed),
                  BuildPlan(facts, changed, upstream).state,
                  PlanFailures(facts, changed, upstream))
    BY DEF BuildPlan, Carried
  <2>3. \A r, s, f : Carried(r, s, f)' = Carried(r, s, f)
    BY <2>1 DEF Carried
  <2>4. \E r, s, f : plan' = Carried(r, s, f)'
    BY <2>1, <2>2, <2>3
  <2> QED
    BY <1>2, <2>1, <2>4 DEF WayInv, Planless
<1> QED
  BY <1>1, <1>2

LEMMA LosePartWay ==
    ASSUME WayInv, LosePart
    PROVE  WayInv'
<1>1. PICK r, s, f : plan = Carried(r, s, f)
  BY DEF WayInv, Planless, LosePart
<1>2. /\ stage = "handing" /\ stage' = "handing" /\ tampered' = TRUE
      /\ UNCHANGED <<facts, changed, upstream>>
  BY DEF LosePart
<1>3. \E q, t, g : plan' = Carried(q, t, g)
  <2>1. CASE \E c \in plan.required : plan' = [plan EXCEPT !.required = @ \ {c}]
    <3>1. PICK c : plan' = [plan EXCEPT !.required = @ \ {c}]
      BY <2>1
    <3>2. plan' = Carried(r \ {c}, s, f)
      BY <3>1, <1>1 DEF Carried
    <3> QED
      BY <3>2
  <2>2. CASE plan' = [plan EXCEPT !.state = "ok"]
    <3>1. plan' = Carried(r, "ok", f)
      BY <2>2, <1>1 DEF Carried
    <3> QED
      BY <3>1
  <2>3. CASE plan' = [plan EXCEPT !.failures = {}]
    <3>1. plan' = Carried(r, s, {})
      BY <2>3, <1>1 DEF Carried
    <3> QED
      BY <3>1
  <2>4. CASE plan' = [plan EXCEPT !.state = "ok", !.failures = {}]
    <3>1. plan' = Carried(r, "ok", {})
      BY <2>4, <1>1 DEF Carried
    <3> QED
      BY <3>1
  <2> QED
    BY <2>1, <2>2, <2>3, <2>4 DEF LosePart
<1>4. \A q, t, g : Carried(q, t, g)' = Carried(q, t, g)
  BY <1>2 DEF Carried
<1> QED
  BY <1>2, <1>3, <1>4 DEF WayInv, Planless

LEMMA AdmitPlanWay ==
    ASSUME WayInv, AdmitPlan
    PROVE  WayInv'
<1>1. /\ stage = "handing" /\ UNCHANGED <<facts, changed, upstream, plan, tampered>>
      /\ stage' = IF PlanAdmitted(plan) THEN "gated" ELSE "refused"
  BY DEF AdmitPlan, planVars
<1>2. \A q, t, g : Carried(q, t, g)' = Carried(q, t, g)
  BY <1>1 DEF Carried
<1>3. /\ FactsAdmitted(facts)
      /\ \E q, t, g : plan' = Carried(q, t, g)'
      /\ ~tampered => plan = BuildPlan(facts, changed, upstream)
  BY <1>1, <1>2 DEF WayInv, Planless
<1>4. PlanAdmitted(plan)' = PlanAdmitted(plan)
  BY <1>1
<1> QED
  BY <1>1, <1>3, <1>4 DEF WayInv, Planless

LEMMA StepWay ==
    ASSUME WayInv, [Next]_vars
    PROVE  WayInv'
<1>1. CASE CollectPaths
  BY <1>1 DEF CollectPaths, WayInv, Planless
<1>2. CASE Runs \/ Edit \/ File \/ Misfile \/ Diagnose \/ Decision
  <2>1. UNCHANGED planVars /\ stage = "gated" /\ stage' \in {"gated", "decided"}
    <3>1. CASE Runs
      BY <3>1 DEF Runs, Run, Open
    <3>2. CASE Edit
      BY <3>2 DEF Edit, Open
    <3>3. CASE File
      BY <3>3 DEF File, Files, Open
    <3>4. CASE Misfile
      BY <3>4 DEF Misfile, Files, Open
    <3>5. CASE Diagnose
      BY <3>5 DEF Diagnose, Diagnoses, Open
    <3>6. CASE Decision
      BY <3>6 DEF Decision, DecideObligations, Open
    <3> QED
      BY <1>2, <3>1, <3>2, <3>3, <3>4, <3>5, <3>6
  <2> QED
    BY <2>1, WayStays
<1>3. CASE UNCHANGED vars
  <2>1. UNCHANGED <<facts, changed, upstream, plan, tampered, stage>>
    BY <1>3 DEF vars, planVars
  <2>2. \A q, t, g : Carried(q, t, g)' = Carried(q, t, g)
    BY <2>1 DEF Carried
  <2> QED
    BY <2>1, <2>2 DEF WayInv, Planless
<1> QED
  BY <1>1, <1>2, <1>3, PlanGateWay, LosePartWay, AdmitPlanWay DEF Next

\* A refused plan was changed; an admitted one that says ok has what it reports.
LEMMA WayIsSafe == WayInv => PlanSurvivesHandover
<1> SUFFICES ASSUME WayInv PROVE PlanSurvivesHandover
  OBVIOUS
<1>1. stage = "refused" => tampered
  BY BuiltIsAdmitted DEF WayInv, Planless
<1>2. ASSUME stage \in {"gated", "decided"}, plan.state = "ok"
      PROVE  /\ \A c \in ReportedCommands : HasCommand(plan, c)
             /\ \A c \in ReportedRoutes : HasRoute(plan, c.id, c.path, c.reason)
  <2>1. PlanAdmitted(plan)
    BY <1>2 DEF WayInv
  <2>2. PICK r, s, f : plan = Carried(r, s, f)
    BY <1>2 DEF WayInv, Planless
  <2>3. /\ plan.scan = facts.scan /\ plan.coverage = facts.coverage
        /\ plan.edges = AssessUnknownEdges(facts.edges, facts.coverage)
        /\ plan.generated = GeneratedArtifacts(facts, changed)
        /\ plan.integrity = ArtifactIntegrity(facts, changed)
        /\ plan.witnesses = facts.witnesses
        /\ plan.proofLike = ProofLikePaths(facts, changed)
        /\ plan.apiTouched = facts.apiTouched
    BY <2>2 DEF Carried
  <2>4. /\ \A c \in FallbackCommands(plan.edges, plan.coverage) : HasCommand(plan, c)
        /\ ScanPresent(plan) /\ DerivedCommandsPresent(plan)
    BY <1>2, <2>1 DEF PlanAdmitted
  <2>5. \A c \in ReportedCommands : HasCommand(plan, c)
    <3>1. HasCommand(plan, ScanCommand(facts.scan))
      BY <2>3, <2>4 DEF ScanPresent, HasCommand
    <3>2. \A c \in IntegrityCommands(plan.integrity) \cup WitnessCommands(plan.witnesses) :
              HasCommand(plan, c)
      BY <2>4 DEF DerivedCommandsPresent, HasReasoned, HasCommand
    <3> QED
      BY <2>3, <2>4, <3>1, <3>2 DEF ReportedCommands
  <2>6. \A id, text, path, reason :
            LET c == Command(id, text, path, reason)
            IN  c.id = id /\ c.path = path /\ c.reason = reason
    BY DEF Command
  <2>7. \A c \in GeneratedCommands(facts, plan.generated) :
            HasRoute(plan, c.id, c.path, c.reason)
    <3> SUFFICES ASSUME NEW a \in plan.generated, NEW u \in facts.rules, u.path = a.path
                 PROVE  LET c == Command("generated-artifact", u.text, u.path,
                                         <<"generated_artifact", a.reason>>)
                        IN  HasRoute(plan, c.id, c.path, c.reason)
      BY DEF GeneratedCommands
    <3>1. HasRoute(plan, "generated-artifact", a.path, <<"generated_artifact", a.reason>>)
      BY <2>4 DEF DerivedCommandsPresent
    <3> QED
      BY <2>6, <3>1
  <2>8. \A c \in ReportedRoutes : HasRoute(plan, c.id, c.path, c.reason)
    <3>1. facts.apiTouched =>
              HasRoute(plan, "public-api", NoPath, "public_api_contract_surface_changed")
      BY <2>3, <2>4 DEF DerivedCommandsPresent
    <3>2. ProofLikePaths(facts, changed) # {} =>
              HasRoute(plan, "requirement-impact", NoPath,
                       "changed_requirement_or_proof_surface")
      BY <2>3, <2>4 DEF DerivedCommandsPresent
    <3>3. \A c : c \in OnlyIf(facts.apiTouched,
                     Command("public-api", facts.apiText, NoPath,
                             "public_api_contract_surface_changed"))
                 => HasRoute(plan, c.id, c.path, c.reason)
      BY <3>1, <2>6 DEF OnlyIf
    <3>4. \A c : c \in OnlyIf(ProofLikePaths(facts, changed) # {},
                     Command("requirement-impact", facts.impactText, NoPath,
                             "changed_requirement_or_proof_surface"))
                 => HasRoute(plan, c.id, c.path, c.reason)
      BY <3>2, <2>6 DEF OnlyIf
    <3> QED
      BY <2>3, <2>7, <3>3, <3>4 DEF ReportedRoutes
  <2> QED
    BY <2>5, <2>8
<1> QED
  BY <1>1, <1>2 DEF PlanSurvivesHandover

\* A plan is refused only if it was changed, and a changed plan that is admitted and
\* says ok still has every command that can be derived from what it reports.
THEOREM PlansSurvive == Spec => []PlanSurvivesHandover
BY InitWay, StepWay, WayIsSafe, PTL DEF Spec

---------------------------------------------------------------------------
(* What a verdict rests on *)

\* Every state that is not decided has no verdict, and only the decision makes one.
Waiting == stage # "decided" => verdict = "none" /\ evidence = "none"

\* A passing verdict: all planned commands have a route, and no route blocks.
VerdictInv ==
    verdict = "passed" =>
        /\ plan.failures = {}
        /\ {r.key : r \in routes} = Planned(plan)
        /\ \A r \in routes : r \in DOMAIN decided /\ ~Blocks(r.class, decided[r])

LEMMA OnlyDecisionDecides ==
    ASSUME Next, ~Decision
    PROVE  /\ stage # "decided" /\ stage' # "decided"
           /\ UNCHANGED resultVars
<1>1. CASE CollectPaths \/ PlanGate \/ LosePart \/ AdmitPlan
  BY <1>1 DEF CollectPaths, PlanGate, LosePart, AdmitPlan
<1>2. CASE Runs
  BY <1>2 DEF Runs, Run, Open
<1>3. CASE Edit
  BY <1>3 DEF Edit, Open
<1>4. CASE File
  BY <1>4 DEF File, Files, Open
<1>5. CASE Misfile
  BY <1>5 DEF Misfile, Files, Open
<1>6. CASE Diagnose
  BY <1>6 DEF Diagnose, Diagnoses, Open
<1> QED BY <1>1, <1>2, <1>3, <1>4, <1>5, <1>6 DEF Next

LEMMA DecisionCalls ==
    ASSUME Decision
    PROVE  \E class, adm, chosen :
               adm \in {Admission, None} /\ DecideObligations(class, adm, chosen)
<1>1. CASE \E waived : DecideObligations("merge_satisfying", Admission, Routing(waived))
  BY <1>1
<1>2. CASE \E class \in Levels : DecideObligations(class, None, Routing({}))
  BY <1>2
<1>3. CASE \E lost : DecideObligations("merge_satisfying", Admission, Routing({}) \ {lost})
  BY <1>3
<1> QED BY <1>1, <1>2, <1>3 DEF Decision

LEMMA DecisionVerdict ==
    ASSUME Decision PROVE VerdictInv'
<1>1. PICK class, adm, chosen : DecideObligations(class, adm, chosen)
  BY DecisionCalls
<1> SUFFICES ASSUME verdict' = "passed" PROVE VerdictInv'
  BY DEF VerdictInv
<1>2. /\ Projected(class, adm, chosen)
      /\ decided' = [r \in chosen |-> StateOf(r)]
      /\ \A r \in chosen : ~Blocks(r.class, StateOf(r))
      /\ routes' = chosen /\ plan' = plan
  BY <1>1 DEF DecideObligations, planVars
<1>3. plan.failures = {} /\ {r.key : r \in chosen} = Planned(plan)
  BY <1>2 DEF Projected, Projectable, RoutesAdmitted
<1>4. \A r \in chosen : r \in DOMAIN decided' /\ decided'[r] = StateOf(r)
  BY <1>2
<1> QED BY <1>2, <1>3, <1>4 DEF VerdictInv

LEMMA StepVerdict ==
    ASSUME Waiting, VerdictInv, [Next]_vars
    PROVE  Waiting' /\ VerdictInv'
<1>1. CASE Decision
  <2>1. stage' = "decided"
    BY <1>1, DecisionCalls DEF DecideObligations
  <2> QED BY <1>1, <2>1, DecisionVerdict DEF Waiting
<1>2. CASE Next /\ ~Decision
  BY <1>2, OnlyDecisionDecides DEF Waiting, VerdictInv, resultVars
<1>3. CASE UNCHANGED vars
  BY <1>3 DEF Waiting, VerdictInv, vars, planVars, resultVars
<1> QED BY <1>1, <1>2, <1>3

LEMMA InitVerdict == Init => Waiting /\ VerdictInv
BY DEF Init, Waiting, VerdictInv

\* A planned command whose obligation is not waived ran, if the gate passes.
LEMMA PassedRan ==
    ASSUME VerdictInv, DecisionIsBacked, verdict = "passed", EveryRouteBlocks,
           NEW c, Key(c) \in Planned(plan)
    PROVE  /\ Ran(c)
           /\ \E f \in filed : Group(filed, Key(c)) = {f} /\ f.status = "passed"
<1>1. PICK t \in routes : t.key = Key(c)
  BY DEF VerdictInv
<1>2. t \in DOMAIN decided /\ decided[t] \in Satisfiable
  BY <1>1 DEF VerdictInv, Blocks, EveryRouteBlocks
<1>3. PICK r \in runs, f \in filed : Backs(r, f, t)
  BY <1>2 DEF DecisionIsBacked
<1>4. /\ Group(filed, Key(c)) = {f} /\ f.producer = r.id /\ r.subject = t.key.id
      /\ f.status = "passed" /\ r.status = "passed"
  BY <1>1, <1>3 DEF Backs
<1>5. f.key = Key(c)
  BY <1>4 DEF Group
<1>6. t.key.id = c.id
  BY <1>1 DEF Key
<1> QED BY <1>4, <1>5, <1>6 DEF Ran

\* What is pushed has its key in the plan.
LEMMA PushedIsPlanned ==
    ASSUME NEW f, NEW ch, NEW pre, NEW c \in AllPushed(f, ch)
    PROVE  Key(c) \in Planned(BuildPlan(f, ch, pre))
<1>1. PICK d \in RequiredCommands(f, ch) : Key(d) = Key(c)
  BY PushedIsRequired
<1>2. BuildPlan(f, ch, pre).required = RequiredCommands(f, ch)
  BY DEF BuildPlan
<1> QED BY <1>1, <1>2 DEF Planned

\* Under a passing verdict with all blocking, what was pushed ran.
LEMMA PushedRan ==
    ASSUME VerdictInv, DecisionIsBacked, verdict = "passed", EveryRouteBlocks,
           plan = BuildPlan(facts, changed, upstream),
           NEW c \in AllPushed(facts, changed)
    PROVE  Ran(c) /\ RanFor(c.id, c.path)
<1>1. Key(c) \in Planned(plan)
  BY PushedIsPlanned
<1>2. Ran(c)
  BY <1>1, PassedRan
<1>3. plan.required = RequiredCommands(facts, changed)
  BY DEF BuildPlan
<1>4. PICK d \in plan.required : Key(d) = Key(c)
  BY <1>3, PushedIsRequired
<1>5. d.id = c.id /\ d.path = c.path
  BY <1>4, SameKey
<1>6. Ran(d)
  BY <1>2, <1>4, <1>5 DEF Ran
<1> QED BY <1>2, <1>4, <1>5, <1>6 DEF RanFor

\* The states say so: a plan without failures, all of whose commands ran.
LEMMA InvCoversChange ==
    ASSUME Waiting, VerdictInv, WayInv, DecisionIsBacked
    PROVE  PassedCoversChange
<1> SUFFICES ASSUME verdict = "passed", EveryRouteBlocks, ~tampered
             PROVE  /\ upstream = {}
                    /\ \A p \in (changed \cap facts.proofLike) \ facts.ignored :
                          /\ \E w \in facts.witnesses : w.path = p
                          /\ RanFor("requirement-witness", p)
                          /\ RanFor("requirement-impact", NoPath)
                    /\ \A p \in (changed \cap facts.archive) \ facts.private :
                          RanFor("artifact-integrity", p)
                    /\ \A r \in facts.rules :
                          /\ r.path \in changed => r.sources \cap changed # {}
                          /\ r.sources \cap changed # {} =>
                                RanFor("generated-artifact", r.path)
                    /\ \A e \in facts.edges :
                          \E k \in facts.coverage : e.class \in k.classes /\ Ran(k.command)
                    /\ \A t \in facts.triggered :
                          t.patterns \cap changed # {} => Ran(t.command)
  BY DEF PassedCoversChange
<1>1. stage = "decided"
  BY DEF Waiting
<1>2. plan = BuildPlan(facts, changed, upstream) /\ FactsAdmitted(facts)
  BY <1>1 DEF WayInv, Planless
<1>3. PlanFailures(facts, changed, upstream) = {}
  <2>1. plan.failures = {}
    BY DEF VerdictInv
  <2> QED BY <1>2, <2>1 DEF BuildPlan
<1>4. \A c \in AllPushed(facts, changed) : Ran(c) /\ RanFor(c.id, c.path)
  BY <1>2, PushedRan
<1>5. \A id, text, path, reason :
          Command(id, text, path, reason).id = id
          /\ Command(id, text, path, reason).path = path
  BY DEF Command
<1>6. /\ upstream = {} /\ Unbound(facts, changed) = {}
      /\ Uncovered(AssessUnknownEdges(facts.edges, facts.coverage)) = {}
      /\ {r \in facts.rules : r.path \in changed /\ ~SourceChanged(r, changed)} = {}
      /\ {p \in ArchivePaths(facts, changed) : Policies(facts, p) = {}} = {}
  BY <1>3 DEF PlanFailures
<1>7. ASSUME NEW p \in (changed \cap facts.proofLike) \ facts.ignored
      PROVE  /\ \E w \in facts.witnesses : w.path = p
             /\ RanFor("requirement-witness", p)
             /\ RanFor("requirement-impact", NoPath)
  <2>1. p \in ProofLikePaths(facts, changed)
    BY <1>7 DEF ProofLikePaths
  <2>2. PICK w \in facts.witnesses : w.path = p
    BY <1>6, <2>1 DEF Unbound
  <2>3. PICK text \in w.texts : TRUE
    BY <1>2 DEF FactsAdmitted
  <2>4. Command("requirement-witness", text, p, "changed_requirement_witness")
        \in AllPushed(facts, changed)
    <3>1. Command("requirement-witness", text, p, "changed_requirement_witness")
          \in WitnessCommands(facts.witnesses)
      BY <2>2, <2>3 DEF WitnessCommands
    <3> QED BY <3>1, GroupsArePushed
  <2>5. RanFor("requirement-witness", p)
    BY <2>4, <1>4, <1>5
  <2>6. RequirementImpactTouched(facts, changed)
    BY <2>1 DEF RequirementImpactTouched
  <2>7. Command("requirement-impact", facts.impactText, NoPath,
                "changed_requirement_or_proof_surface") \in AllPushed(facts, changed)
    BY <2>6, GroupsArePushed, Zenon
  <2>8. RanFor("requirement-impact", NoPath)
    BY <2>7, <1>4, <1>5
  <2> QED BY <2>2, <2>5, <2>8
<1>8. ASSUME NEW p \in (changed \cap facts.archive) \ facts.private
      PROVE  RanFor("artifact-integrity", p)
  <2>1. p \in ArchivePaths(facts, changed) /\ Policies(facts, p) # {}
    BY <1>6, <1>8 DEF ArchivePaths
  <2>2. Command("artifact-integrity", PolicyOf(facts, p).text, p, PolicyOf(facts, p).policy)
        \in IntegrityCommands(ArtifactIntegrity(facts, changed))
    <3> DEFINE o == [path |-> p, text |-> PolicyOf(facts, p).text,
                     policy |-> PolicyOf(facts, p).policy]
    <3>1. o \in ArtifactIntegrity(facts, changed)
      BY <2>1, Zenon DEF ArtifactIntegrity
    <3>2. o.path = p /\ o.text = PolicyOf(facts, p).text
          /\ o.policy = PolicyOf(facts, p).policy
      OBVIOUS
    <3> HIDE DEF o
    <3>3. Command("artifact-integrity", o.text, o.path, o.policy)
          \in IntegrityCommands(ArtifactIntegrity(facts, changed))
      BY <3>1, Zenon DEF IntegrityCommands
    <3> QED BY <3>2, <3>3
  <2>3. Command("artifact-integrity", PolicyOf(facts, p).text, p, PolicyOf(facts, p).policy)
        \in AllPushed(facts, changed)
    BY <2>2, GroupsArePushed
  <2> QED BY <2>3, <1>4, <1>5
<1>9. ASSUME NEW r \in facts.rules
      PROVE  /\ r.path \in changed => r.sources \cap changed # {}
             /\ r.sources \cap changed # {} => RanFor("generated-artifact", r.path)
  <2>1. r.path \in changed => r.sources \cap changed # {}
    BY <1>6 DEF SourceChanged
  <2>2. ASSUME r.sources \cap changed # {}
        PROVE  RanFor("generated-artifact", r.path)
    <3>1. [path |-> r.path, reason |-> "source_changed"] \in GeneratedArtifacts(facts, changed)
      BY <2>2 DEF GeneratedArtifacts, SourceChanged
    <3>2. Command("generated-artifact", r.text, r.path,
                  <<"generated_artifact", "source_changed">>)
          \in GeneratedCommands(facts, GeneratedArtifacts(facts, changed))
      BY <3>1 DEF GeneratedCommands
    <3>3. Command("generated-artifact", r.text, r.path,
                  <<"generated_artifact", "source_changed">>) \in AllPushed(facts, changed)
      BY <3>2, GroupsArePushed
    <3> QED BY <3>3, <1>4, <1>5
  <2> QED BY <2>1, <2>2
<1>10. ASSUME NEW e \in facts.edges
       PROVE  \E k \in facts.coverage : e.class \in k.classes /\ Ran(k.command)
  <2> DEFINE assessed == AssessUnknownEdges(facts.edges, facts.coverage)
             a == [id |-> e.id, class |-> e.class,
                   fallbacks |-> FallbackIds(facts.coverage, e.class)]
  <2>1. a \in assessed
    BY DEF AssessUnknownEdges
  <2>2. FallbackIds(facts.coverage, e.class) # {}
    BY <1>6, <2>1 DEF Uncovered
  <2>3. PICK k \in facts.coverage : e.class \in k.classes
    BY <2>2 DEF FallbackIds
  <2>4. k.command.id \in a.fallbacks
    BY <2>3 DEF FallbackIds
  <2>5. k.command \in FallbackCommands(assessed, facts.coverage)
    BY <2>1, <2>4 DEF FallbackCommands
  <2>6. k.command \in AllPushed(facts, changed)
    BY <2>5, GroupsArePushed
  <2> QED BY <2>3, <2>6, <1>4
<1>11. \A t \in facts.triggered : t.patterns \cap changed # {} => Ran(t.command)
  BY <1>4, GroupsArePushed DEF PathTriggered
<1> QED BY <1>6, <1>7, <1>8, <1>9, <1>10, <1>11

\* A gate that passes with every obligation blocking, on the plan as made, leaves no
\* change without its check: its changed proofs, archives, generated files and unknown
\* edges each have a planned command that ran and passed under its own receipt.
THEOREM PassedIsCovered == Spec => []PassedCoversChange
<1>1. Init /\ [][Next]_vars => [](Waiting /\ VerdictInv)
  <2>1. Init => Waiting /\ VerdictInv
    BY InitVerdict
  <2>2. Waiting /\ VerdictInv /\ [Next]_vars => (Waiting /\ VerdictInv)'
    BY StepVerdict
  <2> QED BY <2>1, <2>2, PTL
<1>2. Init /\ [][Next]_vars => []WayInv
  BY InitWay, StepWay, PTL
<1>3. Spec => []DecisionIsBacked
  BY DecisionsAreBacked
<1>4. Waiting /\ VerdictInv /\ WayInv /\ DecisionIsBacked => PassedCoversChange
  BY InvCoversChange
<1> QED BY <1>1, <1>2, <1>3, <1>4, PTL DEF Spec

---------------------------------------------------------------------------
(* The two reports *)

\* A decision that passes with every route blocking leaves nothing missing, doubled,
\* unexpected or failed, so that the evidence report passes too.
LEMMA PassedHasEvidence ==
    ASSUME BackedInv, Decision, verdict' = "passed", EveryRouteBlocks'
    PROVE  evidence' = "passed"
<1>1. PICK class, adm, chosen : DecideObligations(class, adm, chosen)
  BY DecisionCalls
<1>2. /\ UNCHANGED <<plan, runs, filed, seen>>
      /\ routes' = chosen
      /\ evidence' = EvidenceState(class, plan, adm, filed)
  BY <1>1 DEF DecideObligations, planVars, runVars, entryVars
<1>3. /\ Projected(class, adm, chosen)
      /\ decided' = [r \in chosen |-> StateOf(r)]
      /\ \A r \in chosen : ~Blocks(r.class, StateOf(r))
  BY <1>1 DEF DecideObligations
<1>4. /\ Projectable(class, plan, adm, filed)
      /\ {r.key : r \in chosen} = Planned(plan)
  BY <1>3 DEF Projected, RoutesAdmitted
<1>5. \A t \in chosen : t \in DOMAIN decided' /\ decided'[t] \in Satisfiable
  BY <1>2, <1>3 DEF Blocks, EveryRouteBlocks
<1>6. DecisionIsBacked'
  BY DecisionBacked DEF BackedInv
<1>7. ASSUME NEW k \in Planned(plan)
      PROVE  \E f \in filed : Group(filed, k) = {f} /\ f.status = "passed"
  <2>1. PICK t \in chosen : t.key = k
    BY <1>4, <1>7
  <2>2. PICK r \in runs', f \in filed' : Backs(r, f, t)'
    BY <1>5, <1>6, <2>1 DEF DecisionIsBacked
  <2> QED BY <1>2, <2>1, <2>2 DEF Backs, Group
<1>8. \A f \in filed : f.key \in Planned(plan)
  BY <1>4 DEF Projectable, Unexpected
<1>9. \A f \in filed : Group(filed, f.key) = {f} /\ f.status = "passed"
  <2> SUFFICES ASSUME NEW f \in filed
               PROVE  Group(filed, f.key) = {f} /\ f.status = "passed"
    OBVIOUS
  <2>1. PICK g \in filed : Group(filed, f.key) = {g} /\ g.status = "passed"
    BY <1>7, <1>8
  <2>2. f \in Group(filed, f.key)
    BY DEF Group
  <2> QED BY <2>1, <2>2
<1>10. Missing(plan, filed) = {}
  BY <1>7 DEF Missing
<1>11. Duplicate(filed) = {}
  BY <1>9 DEF Duplicate
<1>12. /\ plan.failures = {} /\ plan.state # "fail_closed"
       /\ Unexpected(plan, filed) = {}
       /\ ProducersAgree(class, adm, filed, plan)
  BY <1>4 DEF Projectable
<1>13. ~EvidenceFails(class, plan, adm, filed)
  BY <1>9, <1>10, <1>11, <1>12 DEF EvidenceFails
<1> QED BY <1>2, <1>9, <1>12, <1>13 DEF EvidenceState

\* What there is to find without a mistake: runs as their producers honestly claim
\* them, and for a filed receipt with its run the entries the caller makes of them.
HonestRun(r) ==
    /\ \E claim \in HonestClaims :
          /\ r.kind = claim.kind /\ r.env = claim.env /\ r.status = claim.status
          /\ r.merge = claim.merge /\ r.provenance = claim.provenance
    /\ r.artifacts # {}

CurrentIs(e, f, r, now) ==
    /\ f.producer # None /\ r.id = f.producer
    /\ e.obligation = f.key /\ e.proofRoute = f.key /\ e.receipt = f.producer
    /\ e.checks = {[recorded |-> r.digest, current |-> now]}
    /\ e.scopes = {[state |-> "admitted_current_scope", recorded |-> None, current |-> None]}

TrustIs(e, f, r) ==
    /\ f.producer # None /\ r.id = f.producer
    /\ e.obligation = f.key /\ e.proofRoute = f.key /\ e.receipt = f.producer
    /\ e.kind = r.kind /\ e.env = r.env /\ e.status = f.status
    /\ e.level = (CHOOSE p \in Producers : p.id = r.producer).level
    /\ e.class = TrustClass /\ e.proof = ProofClass
    /\ e.provenance = r.provenance /\ e.artifacts = f.artifacts

OneEach(entries) == \A d, e \in entries : d.obligation = e.obligation => d = e

CurrentFound ==
    currentness # None =>
        /\ currentness # {} /\ OneEach(currentness)
        /\ \A e \in currentness : \E f \in filed, r \in runs : CurrentIs(e, f, r, seen)

TrustFound ==
    trust # None =>
        /\ trust # {} /\ OneEach(trust)
        /\ \A e \in trust : \E f \in filed, r \in runs : TrustIs(e, f, r)

OneSubject ==
    currentness # None /\ trust # None =>
        {e.obligation : e \in currentness} = {e.obligation : e \in trust}

HonestRuns == \A r \in runs : HonestRun(r)

Faultless ==
    /\ faults \in Nat
    /\ faults = 0 => HonestRuns /\ CurrentFound /\ TrustFound /\ OneSubject

LEMMA InitFaultless == Init => Faultless
BY DEF Init, Faultless, HonestRuns, CurrentFound, TrustFound, OneSubject

\* More runs and receipts leave the entries what they are.
LEMMA MoreFound ==
    ASSUME CurrentFound, TrustFound, OneSubject, UNCHANGED entryVars,
           runs \subseteq runs', filed \subseteq filed'
    PROVE  CurrentFound' /\ TrustFound' /\ OneSubject'
<1>1. currentness' = currentness /\ trust' = trust /\ seen' = seen
  BY DEF entryVars
<1>2. CurrentFound'
  BY <1>1 DEF CurrentFound
<1>3. TrustFound'
  BY <1>1 DEF TrustFound
<1>4. OneSubject'
  BY <1>1 DEF OneSubject
<1> QED BY <1>2, <1>3, <1>4

\* A mistake is counted.
LEMMA ErrsCount ==
    ASSUME Faultless, Errs PROVE Faultless'
BY DEF Faultless, Errs

LEMMA QuietFaultless ==
    ASSUME Faultless, UNCHANGED faults, UNCHANGED entryVars, runs' = runs,
           filed \subseteq filed'
    PROVE  Faultless'
<1>1. HonestRuns' = HonestRuns
  BY DEF HonestRuns
<1>2. faults = 0 => CurrentFound' /\ TrustFound' /\ OneSubject'
  BY MoreFound DEF Faultless
<1> QED BY <1>1, <1>2 DEF Faultless

LEMMA RunsFaultless ==
    ASSUME Faultless, Runs PROVE Faultless'
<1>1. CASE \E key \in Planned(plan), claim \in HonestClaims :
               Run(key, claim) /\ UNCHANGED faults
  <2>1. PICK key \in Planned(plan), claim \in HonestClaims :
            Run(key, claim) /\ UNCHANGED faults
    BY <1>1
  <2> DEFINE new == [id |-> RunId(key, claim), subject |-> key.id,
                     producer |-> claim.producer, kind |-> claim.kind, env |-> claim.env,
                     status |-> claim.status, provenance |-> claim.provenance,
                     merge |-> claim.merge, evidence |-> RunId(key, claim),
                     artifacts |-> {RunId(key, claim)}, command |-> key,
                     digest |-> content]
  <2>2. runs' = runs \cup {new} /\ UNCHANGED <<filed, entryVars>>
    BY <2>1 DEF Run
  <2>3. HonestRun(new)
    BY DEF HonestRun
  <2> HIDE DEF new
  <2>4. faults = 0 => HonestRuns'
    BY <2>2, <2>3 DEF HonestRuns, Faultless
  <2>5. faults = 0 => CurrentFound' /\ TrustFound' /\ OneSubject'
    BY <2>2, MoreFound DEF Faultless
  <2> QED BY <2>1, <2>4, <2>5 DEF Faultless
<1>2. CASE Errs
  BY <1>2, ErrsCount
<1> QED BY <1>1, <1>2 DEF Runs

LEMMA SingleHasRun ==
    ASSUME FiledHonest, NEW f \in Single
    PROVE  /\ f \in filed /\ f.producer # None /\ Group(filed, f.key) = {f}
           /\ RunOf(f) \in runs /\ RunOf(f).id = f.producer
<1>1. f \in filed /\ f.producer # None /\ Group(filed, f.key) = {f}
  BY DEF Single
<1>2. \E r \in runs : r.id = f.producer
  BY <1>1 DEF FiledHonest
<1> QED BY <1>1, <1>2 DEF RunOf

LEMMA SameSubject ==
    ASSUME NEW f \in Single, NEW g \in Single, f.key = g.key PROVE f = g
BY DEF Single

LEMMA DiagnoseFaultless ==
    ASSUME Faultless, FiledHonest, Diagnose PROVE Faultless'
<1>1. CASE Diagnoses(CurrentEntries, TrustEntries) /\ UNCHANGED faults
  <2>1. /\ Single # {} /\ seen' = content /\ UNCHANGED <<runs, filed, faults>>
        /\ currentness' = Given(CurrentEntries) /\ trust' = Given(TrustEntries)
    BY <1>1 DEF Diagnoses, runVars
  <2>2. CurrentEntries # {} /\ TrustEntries # {}
    BY <2>1 DEF CurrentEntries, TrustEntries
  <2>3. currentness' = CurrentEntries /\ trust' = TrustEntries
    BY <2>1, <2>2 DEF Given
  <2>4. \A f \in Single : CurrentIs(CurrentEntry(f), f, RunOf(f), content)
    BY SingleHasRun DEF CurrentIs, CurrentEntry
  <2>5. \A f \in Single : TrustIs(TrustEntry(f), f, RunOf(f))
    BY SingleHasRun DEF TrustIs, TrustEntry, LevelOf, Admission
  <2>6. \A f \in Single : CurrentEntry(f).obligation = f.key
                          /\ TrustEntry(f).obligation = f.key
    BY <2>4, <2>5 DEF CurrentIs, TrustIs
  <2>7. OneEach(CurrentEntries) /\ OneEach(TrustEntries)
    BY <2>6, SameSubject DEF OneEach, CurrentEntries, TrustEntries
  <2>8. CurrentFound'
    <3> SUFFICES ASSUME NEW e \in CurrentEntries
                 PROVE  \E f \in filed, r \in runs : CurrentIs(e, f, r, content)
      BY <2>1, <2>2, <2>3, <2>7 DEF CurrentFound
    <3>1. PICK f \in Single : e = CurrentEntry(f)
      BY DEF CurrentEntries
    <3> QED BY <2>4, <3>1, SingleHasRun
  <2>9. TrustFound'
    <3> SUFFICES ASSUME NEW e \in TrustEntries
                 PROVE  \E f \in filed, r \in runs : TrustIs(e, f, r)
      BY <2>1, <2>2, <2>3, <2>7 DEF TrustFound
    <3>1. PICK f \in Single : e = TrustEntry(f)
      BY DEF TrustEntries
    <3> QED BY <2>5, <3>1, SingleHasRun
  <2>10. OneSubject'
    <3>1. {e.obligation : e \in CurrentEntries} = {f.key : f \in Single}
      BY <2>6 DEF CurrentEntries
    <3>2. {e.obligation : e \in TrustEntries} = {f.key : f \in Single}
      BY <2>6 DEF TrustEntries
    <3> QED BY <2>3, <3>1, <3>2 DEF OneSubject
  <2>11. HonestRuns' = HonestRuns
    BY <2>1 DEF HonestRuns
  <2> QED BY <2>1, <2>8, <2>9, <2>10, <2>11 DEF Faultless
<1>2. CASE Errs
  BY <1>2, ErrsCount
<1> QED BY <1>1, <1>2 DEF Diagnose

LEMMA StepFaultless ==
    ASSUME Faultless, FiledHonest, [Next]_vars PROVE Faultless'
<1>1. CASE CollectPaths \/ PlanGate \/ AdmitPlan
  BY <1>1, QuietFaultless DEF CollectPaths, PlanGate, AdmitPlan, runVars
<1>2. CASE LosePart \/ Misfile
  BY <1>2, ErrsCount DEF LosePart, Misfile
<1>3. CASE Edit
  BY <1>3, QuietFaultless DEF Edit, runVars
<1>4. CASE File
  <2>1. UNCHANGED <<runs, entryVars, faults>> /\ filed \subseteq filed'
    BY <1>4 DEF File, Files
  <2> QED BY <2>1, QuietFaultless
<1>5. CASE Decision
  <2>1. UNCHANGED <<runs, filed, entryVars>>
    BY <1>5, DecisionCalls DEF DecideObligations, runVars
  <2>2. UNCHANGED faults \/ Errs
    BY <1>5 DEF Decision
  <2> QED BY <2>1, <2>2, QuietFaultless, ErrsCount
<1>6. CASE UNCHANGED vars
  BY <1>6, QuietFaultless DEF vars, runVars
<1> QED
  BY <1>1, <1>2, <1>3, <1>4, <1>5, <1>6, RunsFaultless, DiagnoseFaultless DEF Next

\* What evidence that passes says of each receipt.
LEMMA PassedEvidence ==
    ASSUME EvidenceState("merge_satisfying", plan, Admission, filed) = "passed"
    PROVE  /\ Projectable("merge_satisfying", plan, Admission, filed)
           /\ \A k \in Planned(plan) : \E f \in filed : Group(filed, k) = {f}
           /\ \A f \in filed :
                 /\ f.key \in Planned(plan) /\ Group(filed, f.key) = {f}
                 /\ f.status \notin {"failed", "not_run", "blocked"}
<1>1. /\ ~EvidenceFails("merge_satisfying", plan, Admission, filed)
      /\ plan.state # "fail_closed" /\ \A f \in filed : f.status # "blocked"
  BY DEF EvidenceState
<1>2. /\ plan.failures = {} /\ Missing(plan, filed) = {} /\ Duplicate(filed) = {}
      /\ Unexpected(plan, filed) = {}
      /\ \A f \in filed : f.status \notin {"failed", "not_run"}
      /\ ProducersAgree("merge_satisfying", Admission, filed, plan)
  BY <1>1 DEF EvidenceFails
<1>3. Projectable("merge_satisfying", plan, Admission, filed)
  BY <1>1, <1>2 DEF Projectable
<1>4. \A f \in filed : f.key \in Planned(plan)
  BY <1>2 DEF Unexpected
<1>5. \A f \in filed : Group(filed, f.key) = {f}
  BY <1>2 DEF Duplicate
<1>6. \A k \in Planned(plan) : \E f \in filed : Group(filed, k) = {f}
  <2> SUFFICES ASSUME NEW k \in Planned(plan)
               PROVE  \E f \in filed : Group(filed, k) = {f}
    OBVIOUS
  <2>1. PICK f \in filed : f.key = k
    BY <1>2 DEF Missing, Group
  <2> QED BY <1>5, <2>1
<1> QED BY <1>1, <1>2, <1>3, <1>4, <1>5, <1>6

\* A receipt that passes names a run that passed, claims a merge and may claim it.
LEMMA PassedReceipt ==
    ASSUME EvidenceState("merge_satisfying", plan, Admission, filed) = "passed",
           NEW f \in filed, NEW r \in runs, f.producer # None, r.id = f.producer
    PROVE  /\ f.status = "passed" /\ r.status = "passed" /\ f.artifacts = r.artifacts
           /\ r.merge /\ r.provenance # None
           /\ (CHOOSE p \in Producers : p.id = r.producer).level = "merge_satisfying"
<1>1. /\ f.key \in Planned(plan) /\ f.status \notin {"failed", "not_run", "blocked"}
      /\ ProducersAgree("merge_satisfying", Admission, filed, plan)
  BY PassedEvidence DEF Projectable
<1>2. Admission # None =>
          AdmissionPasses(Admission) /\ ReceiptsBound(Admission, filed, Planned(plan))
  BY <1>1 DEF ProducersAgree
<1>3. Admission # None
  BY <1>1 DEF ProducersAgree
<1>4. /\ Admission.receipts = runs /\ Admission.producers = Producers
  BY DEF Admission
<1>5. \E p \in runs : SameStory(f, p)
  BY <1>1, <1>2, <1>3, <1>4 DEF ReceiptsBound
<1>6. /\ \A p, q \in runs : p.id = q.id => p = q
      /\ \A p, q \in Producers : p.id = q.id => p = q
      /\ r.status \in Statuses
  BY <1>2, <1>3, <1>4 DEF AdmissionPasses, AdmissionReadable
<1>7. SameStory(f, r)
  BY <1>5, <1>6 DEF SameStory
<1>8. f.status = "passed" /\ r.status = "passed"
  BY <1>1, <1>6, <1>7 DEF SameStory, Statuses
<1>9. f.artifacts = r.artifacts /\ r.merge /\ r.provenance # None
  BY <1>7, <1>8 DEF SameStory
<1>10. PICK p \in Producers : p.id = r.producer /\ (r.merge => MergeClaimHolds(p, r))
  BY <1>2, <1>3, <1>4 DEF AdmissionPasses, ReceiptAllowed
<1>11. (CHOOSE q \in Producers : q.id = r.producer) = p
  BY <1>6, <1>10
<1> QED BY <1>8, <1>9, <1>10, <1>11 DEF MergeClaimHolds

\* Every planned command has its route.
LEMMA RoutingCovers ==
    ASSUME NEW waived
    PROVE  \A k \in Planned(plan) : \E r \in Routing(waived) : r.key = k
<1> TAKE k \in Planned(plan)
<1> DEFINE t == Route(k, IF k \in waived THEN "deferred" ELSE "blocking")
<1>1. t \in Routing(waived)
  BY DEF Routing
<1>2. t.key = k
  BY DEF Route
<1> QED BY <1>1, <1>2

\* The projection takes entries about the receipts of all planned commands.
LEMMA EntriesAnchor ==
    ASSUME EvidenceState("merge_satisfying", plan, Admission, filed) = "passed",
           NEW entries, NEW waived,
           {e.obligation : e \in entries} = Planned(plan),
           \A e \in entries : \E f \in filed :
               /\ f.producer # None /\ e.obligation = f.key /\ e.proofRoute = f.key
               /\ e.receipt = f.producer
    PROVE  /\ \A e \in entries : Anchored(e, Routing(waived), filed)
           /\ Complete(entries, Routing(waived), filed)
<1>1. \A r \in Routing(waived) :
          r.key \in Planned(plan) /\ r.obligation = r.key /\ r.proofRoute = r.key
  BY DEF Routing, Route
<1>2. \A k \in Planned(plan) : \E r \in Routing(waived) : r.key = k
  BY RoutingCovers
<1>3. ASSUME NEW e \in entries PROVE Anchored(e, Routing(waived), filed)
  <2>1. PICK f \in filed : /\ f.producer # None /\ e.obligation = f.key
                           /\ e.proofRoute = f.key /\ e.receipt = f.producer
    OBVIOUS
  <2>2. f.key \in Planned(plan) /\ Group(filed, f.key) = {f}
    BY PassedEvidence
  <2>3. PICK r \in Routing(waived) : r.key = f.key
    BY <1>2, <2>2
  <2> QED BY <1>1, <2>1, <2>2, <2>3 DEF Anchored
<1>4. Complete(entries, Routing(waived), filed)
  BY <1>1 DEF Complete
<1> QED BY <1>3, <1>4

LEMMA RoutingAdmitted ==
    ASSUME NEW waived PROVE RoutesAdmitted(plan, Routing(waived))
<1>1. \A r \in Routing(waived) :
          /\ r.key \in Planned(plan) /\ r.obligation = r.key
          /\ r = Route(r.key, IF r.key \in waived THEN "deferred" ELSE "blocking")
  BY DEF Routing, Route
<1>2. \A k \in Planned(plan) : \E r \in Routing(waived) : r.key = k
  BY RoutingCovers
<1>3. {r.key : r \in Routing(waived)} = Planned(plan)
  BY <1>1, <1>2
<1>4. ASSUME NEW r \in Routing(waived), NEW s \in Routing(waived),
             r.key = s.key \/ r.obligation = s.obligation
      PROVE  r = s
  <2>1. r.key = s.key
    BY <1>1, <1>4
  <2> QED BY <1>1, <2>1
<1> QED BY <1>3, <1>4 DEF RoutesAdmitted

\* Without a mistake and with diagnostics of the present content for all of the plan,
\* evidence that passes is projected, and every obligation is satisfied.
LEMMA EvidenceSatisfies ==
    ASSUME Faultless, faults = 0, FreshDiagnostics, NEW waived,
           EvidenceState("merge_satisfying", plan, Admission, filed) = "passed"
    PROVE  /\ Projected("merge_satisfying", Admission, Routing(waived))
           /\ \A t \in Routing(waived) : StateOf(t) = "satisfied"
<1>1. /\ currentness # None /\ trust # None
      /\ {e.obligation : e \in currentness} = Planned(plan)
      /\ \A r \in runs : r.digest = seen
  BY DEF FreshDiagnostics
<1>2. /\ HonestRuns
      /\ currentness # {} /\ OneEach(currentness)
      /\ \A e \in currentness : \E f \in filed, r \in runs : CurrentIs(e, f, r, seen)
      /\ trust # {} /\ OneEach(trust)
      /\ \A e \in trust : \E f \in filed, r \in runs : TrustIs(e, f, r)
      /\ {e.obligation : e \in trust} = Planned(plan)
  BY <1>1 DEF Faultless, CurrentFound, TrustFound, OneSubject
<1>3. /\ Projectable("merge_satisfying", plan, Admission, filed)
      /\ \A k \in Planned(plan) : \E f \in filed : Group(filed, k) = {f}
      /\ \A f \in filed :
            /\ f.key \in Planned(plan) /\ Group(filed, f.key) = {f}
            /\ f.status \notin {"failed", "not_run", "blocked"}
  BY PassedEvidence
<1>4. Admission # None /\ Admission.receipts = runs
  <2>1. ProducersAgree("merge_satisfying", Admission, filed, plan)
    BY <1>3 DEF Projectable
  <2> QED BY <2>1 DEF ProducersAgree, Admission
<1>5. ASSUME NEW e \in currentness PROVE CurrentnessStates(e) = {} /\ e.checks # {} /\ e.scopes # {}
  <2>1. PICK f \in filed, r \in runs : CurrentIs(e, f, r, seen)
    BY <1>2
  <2>2. r.digest = seen
    BY <1>1
  <2>3. \A c \in e.checks : c.recorded = c.current
    BY <2>1, <2>2 DEF CurrentIs
  <2>4. \A s \in e.scopes : s.state = "admitted_current_scope" /\ s.recorded = None
    BY <2>1 DEF CurrentIs
  <2>5. e.checks # {} /\ e.scopes # {}
    BY <2>1 DEF CurrentIs
  <2>6. Stale(e) = {}
    BY <2>3 DEF Stale
  <2>7. OutOfScope(e) = {}
    BY <2>4 DEF OutOfScope, ScopeFinding
  <2> QED BY <2>4, <2>5, <2>6, <2>7 DEF CurrentnessStates
<1>6. ASSUME NEW e \in trust
      PROVE  TrustStates(Policy, e) = {} /\ TrustBound(e, Admission, filed)
  <2>1. PICK f \in filed, r \in runs : TrustIs(e, f, r)
    BY <1>2
  <2>2. /\ f.status = "passed" /\ r.status = "passed" /\ f.artifacts = r.artifacts
        /\ r.merge /\ r.provenance # None
        /\ (CHOOSE p \in Producers : p.id = r.producer).level = "merge_satisfying"
    BY <2>1, PassedReceipt DEF TrustIs
  <2>3. PICK claim \in HonestClaims :
            /\ r.kind = claim.kind /\ r.env = claim.env /\ r.status = claim.status
            /\ r.merge = claim.merge /\ r.provenance = claim.provenance
    BY <1>2 DEF HonestRuns, HonestRun
  <2>4. TrustStates(Policy, HonestEntry(claim)) = {}
    BY <2>2, <2>3, TrustAssumption
  <2> DEFINE h == HonestEntry(claim)
  <2>5. /\ e.kind = h.kind /\ e.env = h.env /\ e.status = h.status /\ e.level = h.level
        /\ e.class = h.class /\ e.proof = h.proof /\ e.provenance = h.provenance
        /\ e.artifacts # {} /\ h.artifacts # {}
    <3>1. r.artifacts # {}
      BY <1>2 DEF HonestRuns, HonestRun
    <3> QED BY <2>1, <2>2, <2>3, <3>1 DEF TrustIs, HonestEntry
  <2> HIDE DEF h
  <2>6. /\ InvalidProducer(Policy, e) = InvalidProducer(Policy, h)
        /\ InvalidReceipt(Policy, e) = InvalidReceipt(Policy, h)
    BY <2>5 DEF InvalidProducer, InvalidReceipt
  <2>7. TrustStates(Policy, e) = TrustStates(Policy, h)
    BY <2>6 DEF TrustStates
  <2>8. TrustBound(e, Admission, filed)
    BY <1>4, <2>1, <2>2 DEF TrustBound, TrustIs, LevelOf, Admission
  <2> QED BY <2>4, <2>7, <2>8 DEF h
<1>7. /\ \A e \in currentness : Anchored(e, Routing(waived), filed)
      /\ Complete(currentness, Routing(waived), filed)
  <2>1. \A e \in currentness : \E f \in filed :
            /\ f.producer # None /\ e.obligation = f.key /\ e.proofRoute = f.key
            /\ e.receipt = f.producer
    BY <1>2 DEF CurrentIs
  <2> QED BY <1>1, <2>1, EntriesAnchor
<1>8. /\ \A e \in trust : Anchored(e, Routing(waived), filed)
      /\ Complete(trust, Routing(waived), filed)
  <2>1. \A e \in trust : \E f \in filed :
            /\ f.producer # None /\ e.obligation = f.key /\ e.proofRoute = f.key
            /\ e.receipt = f.producer
    BY <1>2 DEF TrustIs
  <2> QED BY <1>2, <2>1, EntriesAnchor
<1>9. CurrentnessAdmitted(currentness, Routing(waived), filed)
  BY <1>2, <1>5, <1>7 DEF CurrentnessAdmitted, CurrentnessReadable, OneEach
<1>10. TrustAdmitted(Policy, trust, Routing(waived), Admission, filed)
  BY <1>2, <1>6, <1>8, TrustAssumption DEF TrustAdmitted, TrustReadable, OneEach
<1>11. Projected("merge_satisfying", Admission, Routing(waived))
  BY <1>3, <1>9, <1>10, RoutingAdmitted DEF Projected
<1>12. ASSUME NEW t \in Routing(waived) PROVE StateOf(t) = "satisfied"
  <2>1. t.key \in Planned(plan) /\ t.obligation = t.key
    BY DEF Routing, Route
  <2>2. PICK f \in filed : Group(filed, t.key) = {f}
    BY <1>3, <2>1
  <2>3. SelectiveEvidenceState({f}) = "satisfied"
    <3>1. Cardinality({f}) = 1
      BY FS_Singleton
    <3>2. (CHOOSE r \in {f} : TRUE) = f
      OBVIOUS
    <3>3. f.status \notin {"failed", "not_run", "blocked"}
      BY <1>3
    <3> QED BY <3>1, <3>2, <3>3 DEF SelectiveEvidenceState
  <2>4. /\ EntriesFor(currentness, t.obligation) # {}
        /\ EntriesFor(trust, t.obligation) # {}
    BY <1>1, <1>2, <2>1 DEF EntriesFor
  <2>5. UNION {CurrentnessStates(e) : e \in EntriesFor(currentness, t.obligation)} = {}
    BY <1>5 DEF EntriesFor
  <2>6. UNION {TrustStates(Policy, e) : e \in EntriesFor(trust, t.obligation)} = {}
    BY <1>6 DEF EntriesFor
  <2>7. CandidateStates(t, filed, currentness, Policy, trust) = {"satisfied"}
    BY <1>1, <2>2, <2>3, <2>4, <2>5, <2>6 DEF CandidateStates
  <2>8. Decide({"satisfied"}) = "satisfied"
    <3>1. Ranked[12] = "satisfied"
      BY DEF Ranked
    <3>2. Rank("satisfied") = 12
      BY <3>1, RankOf
    <3> QED BY <3>2 DEF Decide
  <2> QED BY <2>7, <2>8 DEF StateOf
<1> QED BY <1>11, <1>12

\* Such a decision passes.
LEMMA EvidenceDecides ==
    ASSUME Faultless, Decision, faults' = 0, evidence' = "passed", FreshDiagnostics'
    PROVE  verdict' = "passed"
<1>1. ~Errs
  BY DEF Errs, Faultless
<1>2. PICK waived : /\ DecideObligations("merge_satisfying", Admission, Routing(waived))
                    /\ UNCHANGED faults
  BY <1>1 DEF Decision
<1>3. /\ UNCHANGED <<plan, runs, filed, currentness, trust, seen>> /\ faults = 0
      /\ evidence' = EvidenceState("merge_satisfying", plan, Admission, filed)
  BY <1>2 DEF DecideObligations, planVars, runVars, entryVars
<1>4. FreshDiagnostics
  BY <1>3 DEF FreshDiagnostics, Planned
<1>5. /\ Projected("merge_satisfying", Admission, Routing(waived))
      /\ \A t \in Routing(waived) : StateOf(t) = "satisfied"
  BY <1>3, <1>4, EvidenceSatisfies
<1>6. \A t \in Routing(waived) : ~Blocks(t.class, StateOf(t))
  BY <1>5 DEF Blocks, Satisfiable
<1> QED BY <1>2, <1>5, <1>6 DEF DecideObligations

LEMMA StepAgrees ==
    ASSUME Waiting, BackedInv, Faultless, ReportsAgree, [Next]_vars
    PROVE  ReportsAgree'
<1>1. CASE Decision
  BY <1>1, PassedHasEvidence, EvidenceDecides DEF ReportsAgree
<1>2. CASE Next /\ ~Decision
  <2>1. stage # "decided" /\ UNCHANGED resultVars
    BY <1>2, OnlyDecisionDecides
  <2>2. verdict' = "none" /\ evidence' = "none"
    BY <2>1 DEF Waiting, resultVars
  <2> QED BY <2>2 DEF ReportsAgree
<1>3. CASE UNCHANGED vars
  BY <1>3 DEF ReportsAgree, EveryRouteBlocks, FreshDiagnostics, Planned, vars, planVars,
              runVars, entryVars, resultVars
<1> QED BY <1>1, <1>2, <1>3

\* selectivegateevidence and obligationdecision report alike: a decision that passes
\* with every obligation blocking has evidence that passes, and evidence that passes,
\* faultlessly diagnosed as current, is never decided against.
THEOREM ReportsDoAgree == Spec => []ReportsAgree
<1>1. Init => Waiting /\ VerdictInv /\ BackedInv /\ Faultless /\ ReportsAgree
  <2>1. Init => ReportsAgree
    BY DEF Init, ReportsAgree
  <2> QED BY <2>1, InitVerdict, InitBacked, InitFaultless
<1>2. Waiting /\ VerdictInv /\ BackedInv /\ Faultless /\ ReportsAgree /\ [Next]_vars
      => (Waiting /\ VerdictInv /\ BackedInv /\ Faultless /\ ReportsAgree)'
  <2>1. BackedInv => FiledHonest
    BY DEF BackedInv
  <2>2. BackedInv /\ [Next]_vars => BackedInv'
    BY PlanningBacked, RunBacked, FileBacked, DiagnoseBacked, DecisionBacked, StutterBacked
       DEF Next
  <2> QED BY <2>1, <2>2, StepVerdict, StepFaultless, StepAgrees
<1> QED BY <1>1, <1>2, PTL DEF Spec
===========================================================================

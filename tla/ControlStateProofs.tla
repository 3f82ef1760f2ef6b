-------------------------- MODULE ControlStateProofs --------------------------
(***************************************************************************)
(* The control state under its lock: InspectionLease for any number of     *)
(* calls, targets, control directories and edits, and PreparationResidue   *)
(* for any number of operators, directories and foreign changes.           *)
(*                                                                         *)
(* The invariant of the leases says which lock a call holds at each place, *)
(* that a lock on the control directory at its path keeps all others away, *)
(* and what a reader may still conclude from what it has read as long as   *)
(* its path leads where it led.  That of the quarantine says that the lock *)
(* makes its call the only one, what the call knows of its own deed, and   *)
(* what still holds of what it saw if nobody interfered; a second one over *)
(* it, KeptInv, says where every residue ever observed is now.             *)
(***************************************************************************)
EXTENDS InspectionLease, PreparationResidue, TLAPS

Locks == {"none", "shared", "exclusive"}

Places == {"idle", "exists", "handle", "flock", "admit", "control", "read", "verify",
           "recheck", "prepare", "check", "rename", "inspect", "write", "done"}

ShapeInv ==
    /\ made \in 0 .. MaxInode
    /\ ns \in 0 .. made
    /\ edits \in 0 .. MaxEdits
    /\ files \in Files
    /\ kind \in [Process -> Kind]
    /\ pc \in [Process -> Places]
    /\ handle \in [Process -> 0 .. made]
    /\ held \in [Process -> Locks]
    /\ next \in [Process -> 1 .. N + 1]
    /\ reads \in [Process -> Reads]
    /\ mid \in [Process -> Reads]
    /\ attempt \in [Process -> {1, 2}]
    /\ since \in [Process -> 0 .. edits]

FlagInv == gap \in BOOLEAN /\ pending \in BOOLEAN /\ saw \in [Process -> BOOLEAN]

\* The lock a call holds and the directory it knows at each place.
PlaceInv(p) ==
    /\ held[p] # "none" => held[p] = Mode(p) /\ handle[p] # 0
    /\ pc[p] \in {"idle", "exists", "handle"} => handle[p] = 0
    /\ pc[p] \in {"idle", "exists", "handle", "flock"} => held[p] = "none"
    /\ pc[p] = "flock" => handle[p] # 0
    /\ pc[p] \in {"admit", "control", "read", "verify", "recheck"} =>
         kind[p] \in Reader /\ (handle[p] # 0 => held[p] = "shared")
    /\ pc[p] \in {"prepare", "check", "rename", "inspect", "write"} =>
         held[p] = "exclusive"
    /\ pc[p] \in {"idle", "exists", "handle", "flock", "admit", "control"} => next[p] = 1
    /\ pc[p] = "verify" => kind[p] = "status"

ExclusionInv ==
    \A p, q \in Process :
      p # q /\ held[p] = "exclusive" /\ handle[q] = handle[p] => held[q] = "none"

\* Where the pending work is, and who works on it or is about to publish it.
PendingInv ==
    /\ pending => ns # 0
    /\ \A p \in Process : kind[p] = "recover" /\ handle[p] # 0 => handle[p] = ns
    /\ \A p \in Process : pc[p] = "rename" => handle[p] = ns
    /\ \A p \in Process : pc[p] = "write" => pending /\ handle[p] = ns

\* What was read for a plan is still there.
PlanInv(p) ==
    /\ At(p, "plan", "read")
    /\ ns = handle[p]
    /\ edits = since[p]
    => /\ ~pending
       /\ \A t \in Target : t < next[p] => reads[p][t] = files[t]

\* Content v stands where u stood before and no transaction ran in between.
Later(v, u) ==
    \/ v = u
    \/ \E k \in 1 .. MaxEdits :
         v = <<"foreign", k>> /\ \A j \in 1 .. MaxEdits : u = <<"foreign", j>> => j < k

\* What a status inspection read, what stood there between its two passes and
\* what stands there now come in this order.
StatusInv(p) ==
    /\ kind[p] = "status"
    /\ ns = handle[p]
    => /\ pc[p] = "read" =>
            \A t \in Target : t < next[p] => Later(files[t], reads[p][t])
       /\ pc[p] = "verify" =>
            \A t \in Target : /\ Later(mid[p][t], reads[p][t])
                              /\ Later(files[t], mid[p][t])
                              /\ t < next[p] => reads[p][t] = mid[p][t]
       /\ pc[p] = "recheck" /\ ~saw[p] =>
            \A t \in Target : reads[p][t] = mid[p][t]

\* Foreign content is numbered by the edits.
EditsInv ==
    \A t \in Target : \A k \in 1 .. MaxEdits : files[t] = <<"foreign", k>> => k <= edits

Inv ==
    /\ ShapeInv
    /\ FlagInv
    /\ \A p \in Process : PlaceInv(p)
    /\ ExclusionInv
    /\ EditsInv
    /\ ~gap => PendingInv /\ \A p \in Process : PlanInv(p) /\ StatusInv(p)
---------------------------------------------------------------------------
(* Facts about content *)

LEMMA BlankIsReads == Blank \in Reads
BY DEF Blank, Reads

LEMMA FilesAreReads == Files \subseteq Reads
BY DEF Files, Reads

LEMMA OneFile ==
    ASSUME NEW f \in Files, NEW t \in Target, NEW c \in Content \cup Foreign
    PROVE  [f EXCEPT ![t] = c] \in Files
BY DEF Files

LEMMA OneRead ==
    ASSUME NEW r \in Reads, NEW f \in Files, NEW t \in Target
    PROVE  [r EXCEPT ![t] = f[t]] \in Reads
BY DEF Files, Reads

LEMMA LaterIsReflexive == ASSUME NEW v PROVE Later(v, v)
BY DEF Later

LEMMA LaterIsTransitive ==
    ASSUME NEW w, NEW v, NEW u, Later(w, v), Later(v, u)
    PROVE  Later(w, u)
BY LeaseAssumption DEF Later

\* Nothing comes between two equal contents.
LEMMA LaterIsAntisymmetric ==
    ASSUME NEW v, NEW u, Later(v, u), Later(u, v)
    PROVE  v = u
BY LeaseAssumption DEF Later

LEMMA NewEditIsLater ==
    ASSUME ShapeInv, EditsInv, NEW t \in Target, edits < MaxEdits
    PROVE  Later(<<"foreign", edits + 1>>, files[t])
<1>1. edits + 1 \in 1 .. MaxEdits
  BY LeaseAssumption DEF ShapeInv
<1>2. \A j \in 1 .. MaxEdits : files[t] = <<"foreign", j>> => j < edits + 1
  BY LeaseAssumption DEF ShapeInv, EditsInv
<1> QED BY <1>1, <1>2 DEF Later

---------------------------------------------------------------------------
LEMMA StartsInv == Init => Inv
<1> SUFFICES ASSUME Init PROVE Inv
  OBVIOUS
<1>1. ShapeInv
  <2>1. files \in Files
    BY DEF Init, Files
  <2>2. 1 \in 1 .. N + 1 /\ 0 \in 0 .. edits /\ ns \in 0 .. 1 /\ made \in 0 .. MaxInode
        /\ ns \in 0 .. made /\ 0 \in 0 .. made /\ edits \in 0 .. MaxEdits
    BY LeaseAssumption DEF Init
  <2> QED
    BY <2>1, <2>2, BlankIsReads DEF Init, ShapeInv, Kind, Reader, Locks, Places
<1>2. \A p \in Process : PlaceInv(p)
  BY DEF Init, PlaceInv
<1>3. ExclusionInv /\ PendingInv
  <2>1. pending => ns = 1
    BY Zenon DEF Init
  <2>2. ExclusionInv
    BY DEF Init, ExclusionInv
  <2> QED BY <2>1, <2>2 DEF Init, PendingInv
<1>4. EditsInv
  <2>1. ASSUME NEW t \in Target, NEW k \in 1 .. MaxEdits, files[t] = <<"foreign", k>>
        PROVE  FALSE
    <3>1. <<"foreign", k>> \in Foreign /\ files[t] \in Content
      BY DEF Init, Foreign
    <3> QED BY <2>1, <3>1, LeaseAssumption
  <2> QED BY <2>1 DEF EditsInv
<1>5. \A p \in Process : PlanInv(p) /\ StatusInv(p)
  BY DEF Init, PlanInv, StatusInv, At
<1>6. FlagInv
  <2>1. pending \in BOOLEAN
    BY Zenon DEF Init
  <2> QED BY <2>1, Zenon DEF Init, FlagInv
<1>7. PendingInv /\ \A p \in Process : PlanInv(p) /\ StatusInv(p)
  BY <1>3, <1>5
<1> QED BY <1>1, <1>2, <1>3, <1>4, <1>6, <1>7 DEF Inv

---------------------------------------------------------------------------
(* Every step keeps the invariant *)

\* No variable leaves its range.
LEMMA KeepsShape == ASSUME Inv, [Next]_vars PROVE ShapeInv'
<1> USE LeaseAssumption DEF Inv, ShapeInv, Kind, Reader, Locks, Places, Goto,
   repository, lease, collected
<1>1. ASSUME NEW p \in Process, Begin(p) PROVE ShapeInv'
  BY <1>1 DEF Begin
<1>2. ASSUME NEW p \in Process, Exists(p) PROVE ShapeInv'
  BY <1>2 DEF Exists
<1>3. ASSUME NEW p \in Process, OpenDirectory(p) PROVE ShapeInv'
  BY <1>3 DEF OpenDirectory
<1>4. ASSUME NEW p \in Process, Lock(p) PROVE ShapeInv'
  BY <1>4 DEF Lock, Mode
<1>5. ASSUME NEW p \in Process, Admit(p) PROVE ShapeInv'
  BY <1>5 DEF Admit
<1>6. ASSUME NEW p \in Process, Leave(p) PROVE ShapeInv'
  BY <1>6, BlankIsReads DEF Leave, Forget
<1>7. ASSUME NEW p \in Process, NoPendingWork(p) PROVE ShapeInv'
  BY <1>7 DEF NoPendingWork
<1>8. ASSUME NEW p \in Process, Read(p) PROVE ShapeInv'
  <2>1. reads'[p] \in Reads /\ reads' = [reads EXCEPT ![p] = reads'[p]]
    BY <1>8, OneRead DEF Read
  <2>2. reads' \in [Process -> Reads]
    BY <2>1
  <2> QED BY <1>8, <2>2 DEF Read, Target
<1>9. ASSUME NEW p \in Process, Plan(p) PROVE ShapeInv'
  BY <1>9 DEF Plan
<1>10. ASSUME NEW p \in Process, InspectControl(p) PROVE ShapeInv'
  BY <1>10 DEF InspectControl
<1>11. ASSUME NEW p \in Process, EndFirstPass(p) PROVE ShapeInv'
  BY <1>11, FilesAreReads DEF EndFirstPass
<1>12. ASSUME NEW p \in Process, Reread(p) PROVE ShapeInv'
  BY <1>12 DEF Reread, Target
<1>13. ASSUME NEW p \in Process, EndSecondPass(p) PROVE ShapeInv'
  BY <1>13 DEF EndSecondPass
<1>14. ASSUME NEW p \in Process, Status(p) PROVE ShapeInv'
  BY <1>14 DEF Status
<1>15. ASSUME NEW p \in Process, Retry(p) PROVE ShapeInv'
  BY <1>15, BlankIsReads DEF Retry, Forget
<1>16. ASSUME NEW p \in Process, Prepare(p) PROVE ShapeInv'
  BY <1>16 DEF Prepare
<1>17. ASSUME NEW p \in Process, CheckRoutes(p) PROVE ShapeInv'
  BY <1>17 DEF CheckRoutes
<1>18. ASSUME NEW p \in Process, Publish(p) PROVE ShapeInv'
  BY <1>18 DEF Publish
<1>19. ASSUME NEW p \in Process, Recover(p) PROVE ShapeInv'
  BY <1>19 DEF Recover
<1>20. ASSUME NEW p \in Process, Write(p) PROVE ShapeInv'
  <2>1. PICK t \in Target, c \in Content : files' = [files EXCEPT ![t] = c]
    BY <1>20 DEF Write
  <2>2. files' \in Files
    BY <2>1, OneFile
  <2> QED BY <1>20, <2>2 DEF Write
<1>21. ASSUME NEW p \in Process, Finish(p) PROVE ShapeInv'
  BY <1>21 DEF Finish
<1>22. CASE Edit
  <2>1. PICK t \in Target : files' = [files EXCEPT ![t] = <<"foreign", edits + 1>>]
    BY <1>22 DEF Edit
  <2>2. edits + 1 \in 1 .. MaxEdits
    BY <1>22 DEF Edit
  <2>3. <<"foreign", edits + 1>> \in Foreign
    BY <2>2 DEF Foreign
  <2>4. files' \in Files
    BY <2>1, <2>3, OneFile
  <2> QED BY <1>22, <2>2, <2>4 DEF Edit
<1>23. CASE Replace
  BY <1>23 DEF Replace
<1>24. CASE Remove
  BY <1>24 DEF Remove
<1>25. CASE UNCHANGED vars
  BY <1>25 DEF vars
<1> QED
  BY <1>1, <1>2, <1>3, <1>4, <1>5, <1>6, <1>7, <1>8, <1>9, <1>10, <1>11, <1>12, <1>13,
     <1>14, <1>15, <1>16, <1>17, <1>18, <1>19, <1>20, <1>21, <1>22, <1>23, <1>24,
     <1>25 DEF Next, Step

\* The flags stay Boolean.
LEMMA KeepsFlags == ASSUME Inv, [Next]_vars PROVE FlagInv'
<1> USE DEF Inv, FlagInv, Goto, repository, lease, collected
<1>1. ASSUME NEW p \in Process, Begin(p) PROVE FlagInv'
  BY <1>1 DEF Begin
<1>2. ASSUME NEW p \in Process, Exists(p) PROVE FlagInv'
  BY <1>2 DEF Exists
<1>3. ASSUME NEW p \in Process, OpenDirectory(p) PROVE FlagInv'
  BY <1>3 DEF OpenDirectory
<1>4. ASSUME NEW p \in Process, Lock(p) PROVE FlagInv'
  BY <1>4 DEF Lock
<1>5. ASSUME NEW p \in Process, Admit(p) PROVE FlagInv'
  BY <1>5 DEF Admit
<1>6. ASSUME NEW p \in Process, Leave(p) PROVE FlagInv'
  BY <1>6 DEF Leave, Forget
<1>7. ASSUME NEW p \in Process, NoPendingWork(p) PROVE FlagInv'
  BY <1>7 DEF NoPendingWork
<1>8. ASSUME NEW p \in Process, Read(p) PROVE FlagInv'
  BY <1>8 DEF Read
<1>9. ASSUME NEW p \in Process, Plan(p) PROVE FlagInv'
  BY <1>9 DEF Plan
<1>10. ASSUME NEW p \in Process, InspectControl(p) PROVE FlagInv'
  BY <1>10 DEF InspectControl
<1>11. ASSUME NEW p \in Process, EndFirstPass(p) PROVE FlagInv'
  BY <1>11 DEF EndFirstPass
<1>12. ASSUME NEW p \in Process, Reread(p) PROVE FlagInv'
  BY <1>12 DEF Reread
<1>13. ASSUME NEW p \in Process, EndSecondPass(p) PROVE FlagInv'
  BY <1>13 DEF EndSecondPass
<1>14. ASSUME NEW p \in Process, Status(p) PROVE FlagInv'
  BY <1>14 DEF Status
<1>15. ASSUME NEW p \in Process, Retry(p) PROVE FlagInv'
  BY <1>15 DEF Retry, Forget
<1>16. ASSUME NEW p \in Process, Prepare(p) PROVE FlagInv'
  BY <1>16 DEF Prepare
<1>17. ASSUME NEW p \in Process, CheckRoutes(p) PROVE FlagInv'
  BY <1>17 DEF CheckRoutes
<1>18. ASSUME NEW p \in Process, Publish(p) PROVE FlagInv'
  BY <1>18 DEF Publish
<1>19. ASSUME NEW p \in Process, Recover(p) PROVE FlagInv'
  BY <1>19 DEF Recover
<1>20. ASSUME NEW p \in Process, Write(p) PROVE FlagInv'
  BY <1>20 DEF Write
<1>21. ASSUME NEW p \in Process, Finish(p) PROVE FlagInv'
  BY <1>21 DEF Finish
<1>22. CASE Edit
  BY <1>22 DEF Edit
<1>23. CASE Replace
  BY <1>23 DEF Replace
<1>24. CASE Remove
  BY <1>24 DEF Remove
<1>25. CASE UNCHANGED vars
  BY <1>25 DEF vars
<1> QED
  BY <1>1, <1>2, <1>3, <1>4, <1>5, <1>6, <1>7, <1>8, <1>9, <1>10, <1>11, <1>12, <1>13,
     <1>14, <1>15, <1>16, <1>17, <1>18, <1>19, <1>20, <1>21, <1>22, <1>23, <1>24,
     <1>25 DEF Next, Step

\* Each call holds the lock its place asks for.
LEMMA KeepsPlaces == ASSUME Inv, [Next]_vars PROVE \A q \in Process : PlaceInv(q)'
<1> USE LeaseAssumption DEF Inv, ShapeInv, PlaceInv, Kind, Reader, Mode, At, Goto,
   repository, lease, collected
<1>1. ASSUME NEW p \in Process, Begin(p) PROVE \A q \in Process : PlaceInv(q)'
  BY <1>1 DEF Begin
<1>2. ASSUME NEW p \in Process, Exists(p) PROVE \A q \in Process : PlaceInv(q)'
  BY <1>2 DEF Exists
<1>3. ASSUME NEW p \in Process, OpenDirectory(p) PROVE \A q \in Process : PlaceInv(q)'
  BY <1>3 DEF OpenDirectory
<1>4. ASSUME NEW p \in Process, Lock(p) PROVE \A q \in Process : PlaceInv(q)'
  BY <1>4 DEF Lock
<1>5. ASSUME NEW p \in Process, Admit(p) PROVE \A q \in Process : PlaceInv(q)'
  BY <1>5 DEF Admit
<1>6. ASSUME NEW p \in Process, Leave(p) PROVE \A q \in Process : PlaceInv(q)'
  BY <1>6 DEF Leave, Forget
<1>7. ASSUME NEW p \in Process, NoPendingWork(p) PROVE \A q \in Process : PlaceInv(q)'
  BY <1>7 DEF NoPendingWork
<1>8. ASSUME NEW p \in Process, Read(p) PROVE \A q \in Process : PlaceInv(q)'
  BY <1>8 DEF Read
<1>9. ASSUME NEW p \in Process, Plan(p) PROVE \A q \in Process : PlaceInv(q)'
  BY <1>9 DEF Plan
<1>10. ASSUME NEW p \in Process, InspectControl(p) PROVE \A q \in Process : PlaceInv(q)'
  BY <1>10 DEF InspectControl
<1>11. ASSUME NEW p \in Process, EndFirstPass(p) PROVE \A q \in Process : PlaceInv(q)'
  BY <1>11 DEF EndFirstPass
<1>12. ASSUME NEW p \in Process, Reread(p) PROVE \A q \in Process : PlaceInv(q)'
  BY <1>12 DEF Reread
<1>13. ASSUME NEW p \in Process, EndSecondPass(p) PROVE \A q \in Process : PlaceInv(q)'
  BY <1>13 DEF EndSecondPass
<1>14. ASSUME NEW p \in Process, Status(p) PROVE \A q \in Process : PlaceInv(q)'
  BY <1>14 DEF Status
<1>15. ASSUME NEW p \in Process, Retry(p) PROVE \A q \in Process : PlaceInv(q)'
  BY <1>15 DEF Retry, Forget
<1>16. ASSUME NEW p \in Process, Prepare(p) PROVE \A q \in Process : PlaceInv(q)'
  BY <1>16 DEF Prepare
<1>17. ASSUME NEW p \in Process, CheckRoutes(p) PROVE \A q \in Process : PlaceInv(q)'
  BY <1>17 DEF CheckRoutes
<1>18. ASSUME NEW p \in Process, Publish(p) PROVE \A q \in Process : PlaceInv(q)'
  BY <1>18 DEF Publish
<1>19. ASSUME NEW p \in Process, Recover(p) PROVE \A q \in Process : PlaceInv(q)'
  BY <1>19 DEF Recover
<1>20. ASSUME NEW p \in Process, Write(p) PROVE \A q \in Process : PlaceInv(q)'
  BY <1>20 DEF Write
<1>21. ASSUME NEW p \in Process, Finish(p) PROVE \A q \in Process : PlaceInv(q)'
  BY <1>21 DEF Finish
<1>22. CASE Edit
  BY <1>22 DEF Edit
<1>23. CASE Replace
  BY <1>23 DEF Replace
<1>24. CASE Remove
  BY <1>24 DEF Remove
<1>25. CASE UNCHANGED vars
  BY <1>25 DEF vars
<1> QED
  BY <1>1, <1>2, <1>3, <1>4, <1>5, <1>6, <1>7, <1>8, <1>9, <1>10, <1>11, <1>12, <1>13,
     <1>14, <1>15, <1>16, <1>17, <1>18, <1>19, <1>20, <1>21, <1>22, <1>23, <1>24,
     <1>25 DEF Next, Step

\* An exclusive lock excludes all others.
LEMMA KeepsExclusion == ASSUME Inv, [Next]_vars PROVE ExclusionInv'
<1> USE DEF Inv, ShapeInv, PlaceInv, ExclusionInv, Reader, Goto, repository, lease,
   collected
<1>1. ASSUME NEW p \in Process, Begin(p) PROVE ExclusionInv'
  BY <1>1 DEF Begin
<1>2. ASSUME NEW p \in Process, Exists(p) PROVE ExclusionInv'
  BY <1>2 DEF Exists
<1>3. ASSUME NEW p \in Process, OpenDirectory(p) PROVE ExclusionInv'
  BY <1>3 DEF OpenDirectory
<1>4. ASSUME NEW p \in Process, Lock(p) PROVE ExclusionInv'
  BY <1>4 DEF Lock, Free, Mode
<1>5. ASSUME NEW p \in Process, Admit(p) PROVE ExclusionInv'
  BY <1>5 DEF Admit
<1>6. ASSUME NEW p \in Process, Leave(p) PROVE ExclusionInv'
  BY <1>6 DEF Leave, Forget
<1>7. ASSUME NEW p \in Process, NoPendingWork(p) PROVE ExclusionInv'
  BY <1>7 DEF NoPendingWork
<1>8. ASSUME NEW p \in Process, Read(p) PROVE ExclusionInv'
  BY <1>8 DEF Read
<1>9. ASSUME NEW p \in Process, Plan(p) PROVE ExclusionInv'
  BY <1>9 DEF Plan
<1>10. ASSUME NEW p \in Process, InspectControl(p) PROVE ExclusionInv'
  BY <1>10 DEF InspectControl
<1>11. ASSUME NEW p \in Process, EndFirstPass(p) PROVE ExclusionInv'
  BY <1>11 DEF EndFirstPass
<1>12. ASSUME NEW p \in Process, Reread(p) PROVE ExclusionInv'
  BY <1>12 DEF Reread
<1>13. ASSUME NEW p \in Process, EndSecondPass(p) PROVE ExclusionInv'
  BY <1>13 DEF EndSecondPass
<1>14. ASSUME NEW p \in Process, Status(p) PROVE ExclusionInv'
  BY <1>14 DEF Status
<1>15. ASSUME NEW p \in Process, Retry(p) PROVE ExclusionInv'
  BY <1>15 DEF Retry, Forget
<1>16. ASSUME NEW p \in Process, Prepare(p) PROVE ExclusionInv'
  BY <1>16 DEF Prepare
<1>17. ASSUME NEW p \in Process, CheckRoutes(p) PROVE ExclusionInv'
  BY <1>17 DEF CheckRoutes
<1>18. ASSUME NEW p \in Process, Publish(p) PROVE ExclusionInv'
  BY <1>18 DEF Publish
<1>19. ASSUME NEW p \in Process, Recover(p) PROVE ExclusionInv'
  BY <1>19 DEF Recover
<1>20. ASSUME NEW p \in Process, Write(p) PROVE ExclusionInv'
  BY <1>20 DEF Write
<1>21. ASSUME NEW p \in Process, Finish(p) PROVE ExclusionInv'
  BY <1>21 DEF Finish
<1>22. CASE Edit
  BY <1>22 DEF Edit
<1>23. CASE Replace
  BY <1>23 DEF Replace
<1>24. CASE Remove
  BY <1>24 DEF Remove
<1>25. CASE UNCHANGED vars
  BY <1>25 DEF vars
<1> QED
  BY <1>1, <1>2, <1>3, <1>4, <1>5, <1>6, <1>7, <1>8, <1>9, <1>10, <1>11, <1>12, <1>13,
     <1>14, <1>15, <1>16, <1>17, <1>18, <1>19, <1>20, <1>21, <1>22, <1>23, <1>24,
     <1>25 DEF Next, Step

\* Only a move of the control directory opens the gap, and nothing closes it.
LEMMA GapStays ==
    ASSUME Inv, [Next]_vars, ~gap'
    PROVE  ~gap /\ (Replace \/ Remove => ~Renaming)
<1>1. ASSUME NEW p \in Process, Step(p) PROVE gap' = gap
  BY <1>1
     DEF Step, Begin, Exists, OpenDirectory, Lock, Admit, Leave, Forget, NoPendingWork,
         Read, Plan, InspectControl, EndFirstPass, Reread, EndSecondPass, Status, Retry,
         Prepare, CheckRoutes, Publish, Recover, Write, Finish, collected
<1>2. Edit \/ UNCHANGED vars => gap' = gap
  BY DEF Edit, vars
<1>3. Replace \/ Remove => gap' = (gap \/ Renaming)
  BY Zenon DEF Replace, Remove
<1>4. (\E p \in Process : Step(p)) \/ Edit \/ UNCHANGED vars => gap' = gap
  BY <1>1, <1>2, Zenon
<1>5. (Replace \/ Remove) \/ (\E p \in Process : Step(p)) \/ Edit \/ UNCHANGED vars
  BY Zenon DEF Next
<1>6. CASE Replace \/ Remove
  BY <1>3, <1>6, Zenon
<1>7. CASE ~(Replace \/ Remove)
  <2>1. (\E p \in Process : Step(p)) \/ Edit \/ UNCHANGED vars
    BY <1>5, <1>7
  <2>2. gap' = gap
    BY <1>4, <2>1
  <2>3. ~gap
    BY <2>2, Zenon
  <2> QED BY <1>7, <2>3
<1> QED BY <1>6, <1>7

\* Pending work stays where it is, and with whoever works on it.
LEMMA KeepsPending == ASSUME Inv, [Next]_vars, ~gap' PROVE PendingInv'
<1>0. PendingInv /\ (Replace \/ Remove => ~Renaming)
  BY GapStays DEF Inv
<1> USE <1>0, LeaseAssumption DEF Inv, ShapeInv, PlaceInv, PendingInv, ExclusionInv, Reader,
   Kind, At, Goto, repository, lease, collected
<1>1. ASSUME NEW p \in Process, Begin(p) PROVE PendingInv'
  BY <1>1 DEF Begin
<1>2. ASSUME NEW p \in Process, Exists(p) PROVE PendingInv'
  BY <1>2 DEF Exists
<1>3. ASSUME NEW p \in Process, OpenDirectory(p) PROVE PendingInv'
  BY <1>3 DEF OpenDirectory
<1>4. ASSUME NEW p \in Process, Lock(p) PROVE PendingInv'
  BY <1>4 DEF Lock
<1>5. ASSUME NEW p \in Process, Admit(p) PROVE PendingInv'
  BY <1>5 DEF Admit
<1>6. ASSUME NEW p \in Process, Leave(p) PROVE PendingInv'
  BY <1>6 DEF Leave, Forget
<1>7. ASSUME NEW p \in Process, NoPendingWork(p) PROVE PendingInv'
  BY <1>7 DEF NoPendingWork
<1>8. ASSUME NEW p \in Process, Read(p) PROVE PendingInv'
  BY <1>8 DEF Read
<1>9. ASSUME NEW p \in Process, Plan(p) PROVE PendingInv'
  BY <1>9 DEF Plan
<1>10. ASSUME NEW p \in Process, InspectControl(p) PROVE PendingInv'
  BY <1>10 DEF InspectControl
<1>11. ASSUME NEW p \in Process, EndFirstPass(p) PROVE PendingInv'
  BY <1>11 DEF EndFirstPass
<1>12. ASSUME NEW p \in Process, Reread(p) PROVE PendingInv'
  BY <1>12 DEF Reread
<1>13. ASSUME NEW p \in Process, EndSecondPass(p) PROVE PendingInv'
  BY <1>13 DEF EndSecondPass
<1>14. ASSUME NEW p \in Process, Status(p) PROVE PendingInv'
  BY <1>14 DEF Status
<1>15. ASSUME NEW p \in Process, Retry(p) PROVE PendingInv'
  BY <1>15 DEF Retry, Forget
<1>16. ASSUME NEW p \in Process, Prepare(p) PROVE PendingInv'
  BY <1>16 DEF Prepare
<1>17. ASSUME NEW p \in Process, CheckRoutes(p) PROVE PendingInv'
  BY <1>17 DEF CheckRoutes, RoutesHold, Verified
<1>18. ASSUME NEW p \in Process, Publish(p) PROVE PendingInv'
  BY <1>18 DEF Publish
<1>19. ASSUME NEW p \in Process, Recover(p) PROVE PendingInv'
  BY <1>19 DEF Recover
<1>20. ASSUME NEW p \in Process, Write(p) PROVE PendingInv'
  BY <1>20 DEF Write
<1>21. ASSUME NEW p \in Process, Finish(p) PROVE PendingInv'
  BY <1>21 DEF Finish
<1>22. CASE Edit
  BY <1>22 DEF Edit
<1>23. CASE Replace
  BY <1>23 DEF Replace, Movable, Renaming
<1>24. CASE Remove
  BY <1>24 DEF Remove, Movable, Renaming
<1>25. CASE UNCHANGED vars
  BY <1>25 DEF vars
<1> QED
  BY <1>1, <1>2, <1>3, <1>4, <1>5, <1>6, <1>7, <1>8, <1>9, <1>10, <1>11, <1>12, <1>13,
     <1>14, <1>15, <1>16, <1>17, <1>18, <1>19, <1>20, <1>21, <1>22, <1>23, <1>24,
     <1>25 DEF Next, Step

\* Foreign content is numbered by the edits.
LEMMA KeepsEdits == ASSUME Inv, [Next]_vars PROVE EditsInv'
<1> USE LeaseAssumption DEF Inv, ShapeInv, EditsInv, Files, Foreign, repository,
   lease, collected
<1>1. ASSUME NEW p \in Process, Begin(p) PROVE EditsInv'
  BY <1>1 DEF Begin
<1>2. ASSUME NEW p \in Process, Exists(p) PROVE EditsInv'
  BY <1>2 DEF Exists
<1>3. ASSUME NEW p \in Process, OpenDirectory(p) PROVE EditsInv'
  BY <1>3 DEF OpenDirectory
<1>4. ASSUME NEW p \in Process, Lock(p) PROVE EditsInv'
  BY <1>4 DEF Lock
<1>5. ASSUME NEW p \in Process, Admit(p) PROVE EditsInv'
  BY <1>5 DEF Admit
<1>6. ASSUME NEW p \in Process, Leave(p) PROVE EditsInv'
  BY <1>6 DEF Leave, Forget
<1>7. ASSUME NEW p \in Process, NoPendingWork(p) PROVE EditsInv'
  BY <1>7 DEF NoPendingWork
<1>8. ASSUME NEW p \in Process, Read(p) PROVE EditsInv'
  BY <1>8 DEF Read
<1>9. ASSUME NEW p \in Process, Plan(p) PROVE EditsInv'
  BY <1>9 DEF Plan
<1>10. ASSUME NEW p \in Process, InspectControl(p) PROVE EditsInv'
  BY <1>10 DEF InspectControl
<1>11. ASSUME NEW p \in Process, EndFirstPass(p) PROVE EditsInv'
  BY <1>11 DEF EndFirstPass
<1>12. ASSUME NEW p \in Process, Reread(p) PROVE EditsInv'
  BY <1>12 DEF Reread
<1>13. ASSUME NEW p \in Process, EndSecondPass(p) PROVE EditsInv'
  BY <1>13 DEF EndSecondPass
<1>14. ASSUME NEW p \in Process, Status(p) PROVE EditsInv'
  BY <1>14 DEF Status
<1>15. ASSUME NEW p \in Process, Retry(p) PROVE EditsInv'
  BY <1>15 DEF Retry, Forget
<1>16. ASSUME NEW p \in Process, Prepare(p) PROVE EditsInv'
  BY <1>16 DEF Prepare
<1>17. ASSUME NEW p \in Process, CheckRoutes(p) PROVE EditsInv'
  BY <1>17 DEF CheckRoutes
<1>18. ASSUME NEW p \in Process, Publish(p) PROVE EditsInv'
  BY <1>18 DEF Publish
<1>19. ASSUME NEW p \in Process, Recover(p) PROVE EditsInv'
  BY <1>19 DEF Recover
<1>20. ASSUME NEW p \in Process, Write(p) PROVE EditsInv'
  <2>1. PICK t \in Target, c \in Content : files' = [files EXCEPT ![t] = c]
    BY <1>20 DEF Write
  <2>2. \A u \in Target : files'[u] = files[u] \/ files'[u] \in Content
    BY <2>1
  <2>3. edits' = edits
    BY <1>20 DEF Write
  <2> QED BY <2>2, <2>3
<1>21. ASSUME NEW p \in Process, Finish(p) PROVE EditsInv'
  BY <1>21 DEF Finish
<1>22. CASE Edit
  <2>1. PICK t \in Target : files' = [files EXCEPT ![t] = <<"foreign", edits + 1>>]
    BY <1>22 DEF Edit
  <2>2. \A u \in Target : files'[u] = files[u] \/ files'[u] = <<"foreign", edits + 1>>
    BY <2>1
  <2>3. edits' = edits + 1 /\ edits \in Nat
    BY <1>22 DEF Edit
  <2>4. ASSUME NEW u \in Target, NEW k \in 1 .. MaxEdits, files'[u] = <<"foreign", k>>
        PROVE  k <= edits + 1
    BY <2>2, <2>3, <2>4
  <2> QED BY <2>3, <2>4
<1>23. CASE Replace
  BY <1>23 DEF Replace
<1>24. CASE Remove
  BY <1>24 DEF Remove
<1>25. CASE UNCHANGED vars
  BY <1>25 DEF vars
<1> QED
  BY <1>1, <1>2, <1>3, <1>4, <1>5, <1>6, <1>7, <1>8, <1>9, <1>10, <1>11, <1>12, <1>13,
     <1>14, <1>15, <1>16, <1>17, <1>18, <1>19, <1>20, <1>21, <1>22, <1>23, <1>24,
     <1>25 DEF Next, Step

---------------------------------------------------------------------------
\* A reader whose path still leads where it led keeps the writers away: either
\* its lock does, or there is no control directory to write in.
LEMMA ReadersKeepWritersAway ==
    ASSUME Inv, ~gap, NEW p \in Process, NEW q \in Process,
           pc[q] \in {"read", "verify", "recheck"}, ns = handle[q]
    PROVE  pc[p] \notin {"rename", "write"}
<1>1. ASSUME held[p] = "exclusive", handle[p] = ns PROVE FALSE
  <2>1. p # q
    BY <1>1 DEF Inv, PlaceInv, Mode
  <2>2. handle[p] # 0
    BY <1>1 DEF Inv, PlaceInv
  <2>3. held[q] = "shared"
    BY <1>1, <2>2 DEF Inv, PlaceInv
  <2> QED BY <1>1, <2>1, <2>3 DEF Inv, ExclusionInv
<1>2. pc[p] \in {"rename", "write"} => held[p] = "exclusive"
  BY DEF Inv, PlaceInv
<1>3. pc[p] \in {"rename", "write"} => handle[p] = ns
  BY DEF Inv, PendingInv
<1> QED BY <1>1, <1>2, <1>3

\* Nothing comes back to where a reader was.
LEMMA NamespacesDoNotReturn ==
    ASSUME Inv, NEW q \in Process, ns' = handle[q],
           \/ ns' = made + 1
           \/ ns' = 0 /\ ~Unlocked(q),
           kind[q] \in Reader, pc[q] \in {"read", "verify", "recheck"}
    PROVE  FALSE
BY LeaseAssumption DEF Inv, ShapeInv, Unlocked

\* What was read for a plan is still there.
LEMMA KeepsPlans == ASSUME Inv, [Next]_vars, ~gap' PROVE \A q \in Process : PlanInv(q)'
<1>0. ~gap /\ PendingInv /\ \A q \in Process : PlanInv(q)
  BY GapStays DEF Inv
<1> USE <1>0, LeaseAssumption DEF Inv, ShapeInv, PlaceInv, PendingInv, PlanInv, Target,
   Reader, At, Goto, Verified, repository, lease, collected
<1>1. ASSUME NEW p \in Process, Begin(p) PROVE \A q \in Process : PlanInv(q)'
  BY <1>1 DEF Begin
<1>2. ASSUME NEW p \in Process, Exists(p) PROVE \A q \in Process : PlanInv(q)'
  BY <1>2, NamespacesDoNotReturn DEF Exists
<1>3. ASSUME NEW p \in Process, OpenDirectory(p) PROVE \A q \in Process : PlanInv(q)'
  BY <1>3 DEF OpenDirectory
<1>4. ASSUME NEW p \in Process, Lock(p) PROVE \A q \in Process : PlanInv(q)'
  BY <1>4 DEF Lock
<1>5. ASSUME NEW p \in Process, Admit(p) PROVE \A q \in Process : PlanInv(q)'
  BY <1>5 DEF Admit
<1>6. ASSUME NEW p \in Process, Leave(p) PROVE \A q \in Process : PlanInv(q)'
  BY <1>6 DEF Leave, Forget
<1>7. ASSUME NEW p \in Process, NoPendingWork(p) PROVE \A q \in Process : PlanInv(q)'
  BY <1>7 DEF NoPendingWork
<1>8. ASSUME NEW p \in Process, Read(p) PROVE \A q \in Process : PlanInv(q)'
  <2>1. reads'[p][next[p]] = files[next[p]]
        /\ \A t \in Target : t # next[p] => reads'[p][t] = reads[p][t]
    BY <1>8 DEF Read, Reads
  <2>2. next'[p] = next[p] + 1 /\ next[p] \in Nat
    BY <1>8 DEF Read
  <2>3. PlanInv(p)'
    BY <1>8, <2>1, <2>2 DEF Read
  <2>4. ASSUME NEW q \in Process, q # p PROVE PlanInv(q)'
    BY <1>8, <2>4 DEF Read
  <2> QED BY <2>3, <2>4
<1>9. ASSUME NEW p \in Process, Plan(p) PROVE \A q \in Process : PlanInv(q)'
  BY <1>9 DEF Plan
<1>10. ASSUME NEW p \in Process, InspectControl(p) PROVE \A q \in Process : PlanInv(q)'
  BY <1>10 DEF InspectControl
<1>11. ASSUME NEW p \in Process, EndFirstPass(p) PROVE \A q \in Process : PlanInv(q)'
  BY <1>11 DEF EndFirstPass
<1>12. ASSUME NEW p \in Process, Reread(p) PROVE \A q \in Process : PlanInv(q)'
  BY <1>12 DEF Reread
<1>13. ASSUME NEW p \in Process, EndSecondPass(p) PROVE \A q \in Process : PlanInv(q)'
  BY <1>13 DEF EndSecondPass
<1>14. ASSUME NEW p \in Process, Status(p) PROVE \A q \in Process : PlanInv(q)'
  BY <1>14 DEF Status
<1>15. ASSUME NEW p \in Process, Retry(p) PROVE \A q \in Process : PlanInv(q)'
  BY <1>15 DEF Retry, Forget
<1>16. ASSUME NEW p \in Process, Prepare(p) PROVE \A q \in Process : PlanInv(q)'
  BY <1>16 DEF Prepare
<1>17. ASSUME NEW p \in Process, CheckRoutes(p) PROVE \A q \in Process : PlanInv(q)'
  BY <1>17 DEF CheckRoutes
<1>18. ASSUME NEW p \in Process, Publish(p) PROVE \A q \in Process : PlanInv(q)'
  BY <1>18, ReadersKeepWritersAway DEF Publish
<1>19. ASSUME NEW p \in Process, Recover(p) PROVE \A q \in Process : PlanInv(q)'
  BY <1>19 DEF Recover
<1>20. ASSUME NEW p \in Process, Write(p) PROVE \A q \in Process : PlanInv(q)'
  BY <1>20, ReadersKeepWritersAway DEF Write
<1>21. ASSUME NEW p \in Process, Finish(p) PROVE \A q \in Process : PlanInv(q)'
  BY <1>21 DEF Finish
<1>22. CASE Edit
  BY <1>22 DEF Edit
<1>23. CASE Replace
  BY <1>23, NamespacesDoNotReturn DEF Replace
<1>24. CASE Remove
  BY <1>24, NamespacesDoNotReturn DEF Remove
<1>25. CASE UNCHANGED vars
  BY <1>25 DEF vars
<1> QED
  BY <1>1, <1>2, <1>3, <1>4, <1>5, <1>6, <1>7, <1>8, <1>9, <1>10, <1>11, <1>12, <1>13,
     <1>14, <1>15, <1>16, <1>17, <1>18, <1>19, <1>20, <1>21, <1>22, <1>23, <1>24,
     <1>25 DEF Next, Step

\* What a status inspection read precedes what stands there now.
LEMMA KeepsStatus == ASSUME Inv, [Next]_vars, ~gap' PROVE \A q \in Process : StatusInv(q)'
<1>0. ~gap /\ PendingInv /\ \A q \in Process : StatusInv(q)
  BY GapStays DEF Inv
<1> USE <1>0, LeaseAssumption DEF Inv, ShapeInv, PlaceInv, PendingInv, StatusInv, Target,
   Reader, At, Goto, Verified, repository, lease, collected
<1>1. ASSUME NEW p \in Process, Begin(p) PROVE \A q \in Process : StatusInv(q)'
  BY <1>1 DEF Begin
<1>2. ASSUME NEW p \in Process, Exists(p) PROVE \A q \in Process : StatusInv(q)'
  BY <1>2, NamespacesDoNotReturn DEF Exists
<1>3. ASSUME NEW p \in Process, OpenDirectory(p) PROVE \A q \in Process : StatusInv(q)'
  BY <1>3 DEF OpenDirectory
<1>4. ASSUME NEW p \in Process, Lock(p) PROVE \A q \in Process : StatusInv(q)'
  BY <1>4 DEF Lock
<1>5. ASSUME NEW p \in Process, Admit(p) PROVE \A q \in Process : StatusInv(q)'
  BY <1>5 DEF Admit
<1>6. ASSUME NEW p \in Process, Leave(p) PROVE \A q \in Process : StatusInv(q)'
  BY <1>6 DEF Leave, Forget
<1>7. ASSUME NEW p \in Process, NoPendingWork(p) PROVE \A q \in Process : StatusInv(q)'
  BY <1>7 DEF NoPendingWork
<1>8. ASSUME NEW p \in Process, Read(p) PROVE \A q \in Process : StatusInv(q)'
  <2>1. reads'[p][next[p]] = files[next[p]]
        /\ \A t \in Target : t # next[p] => reads'[p][t] = reads[p][t]
    BY <1>8 DEF Read, Reads
  <2>2. next'[p] = next[p] + 1 /\ next[p] \in Nat
    BY <1>8 DEF Read
  <2>3. StatusInv(p)'
    BY <1>8, <2>1, <2>2, LaterIsReflexive DEF Read
  <2>4. ASSUME NEW q \in Process, q # p PROVE StatusInv(q)'
    BY <1>8, <2>4 DEF Read
  <2> QED BY <2>3, <2>4
<1>9. ASSUME NEW p \in Process, Plan(p) PROVE \A q \in Process : StatusInv(q)'
  BY <1>9 DEF Plan
<1>10. ASSUME NEW p \in Process, InspectControl(p) PROVE \A q \in Process : StatusInv(q)'
  <2>1. pc'[p] = "recheck" => pending
    BY <1>10 DEF InspectControl
  <2>5. saw' = [saw EXCEPT ![p] = pending] /\ saw \in [Process -> BOOLEAN]
    BY <1>10, Zenon DEF InspectControl, Inv, FlagInv
  <2>6. saw'[p] = pending
    BY <2>5
  <2>2. pc'[p] = "recheck" => saw'[p]
    BY <2>1, <2>6, Zenon
  <2>3. StatusInv(p)'
    BY <1>10, <2>2 DEF InspectControl
  <2>4. ASSUME NEW q \in Process, q # p PROVE StatusInv(q)'
    BY <1>10, <2>4 DEF InspectControl
  <2> QED BY <2>3, <2>4
<1>11. ASSUME NEW p \in Process, EndFirstPass(p) PROVE \A q \in Process : StatusInv(q)'
  <2>1. mid'[p] = files /\ next'[p] = 1 /\ next[p] = N + 1
    BY <1>11 DEF EndFirstPass
  <2>2. StatusInv(p)'
    BY <1>11, <2>1, LaterIsReflexive DEF EndFirstPass
  <2>3. ASSUME NEW q \in Process, q # p PROVE StatusInv(q)'
    BY <1>11, <2>3 DEF EndFirstPass
  <2> QED BY <2>2, <2>3
<1>12. ASSUME NEW p \in Process, Reread(p) PROVE \A q \in Process : StatusInv(q)'
  <2>1. ns = handle[p] => mid[p][next[p]] = reads[p][next[p]]
    <3>1. next[p] \in Target /\ files[next[p]] = reads[p][next[p]]
      BY <1>12 DEF Reread, Unchanged
    <3>2. ns = handle[p] => /\ Later(mid[p][next[p]], reads[p][next[p]])
                            /\ Later(files[next[p]], mid[p][next[p]])
      BY <1>12, <3>1 DEF Reread
    <3> QED BY <3>1, <3>2, LaterIsAntisymmetric
  <2>2. next'[p] = next[p] + 1 /\ next[p] \in Nat
    BY <1>12 DEF Reread
  <2>3. StatusInv(p)'
    <3>1. UNCHANGED <<ns, files, handle, kind, pc, reads, mid>> /\ pc[p] = "verify"
      BY <1>12 DEF Reread
    <3>2. ASSUME ns = handle[p], NEW t \in Target
          PROVE  /\ Later(mid[p][t], reads[p][t])
                 /\ Later(files[t], mid[p][t])
                 /\ t < next'[p] => reads[p][t] = mid[p][t]
      <4>1. /\ Later(mid[p][t], reads[p][t])
            /\ Later(files[t], mid[p][t])
            /\ t < next[p] => reads[p][t] = mid[p][t]
        BY <1>12, <3>1, <3>2 DEF Reread
      <4>2. t < next'[p] => t < next[p] \/ t = next[p]
        BY <2>2
      <4> QED BY <2>1, <3>2, <4>1, <4>2
    <3> QED BY <3>1, <3>2
  <2>4. ASSUME NEW q \in Process, q # p PROVE StatusInv(q)'
    BY <1>12, <2>4 DEF Reread
  <2> QED BY <2>3, <2>4
<1>13. ASSUME NEW p \in Process, EndSecondPass(p) PROVE \A q \in Process : StatusInv(q)'
  <2>1. next[p] = N + 1
    BY <1>13 DEF EndSecondPass
  <2>2. StatusInv(p)'
    BY <1>13, <2>1 DEF EndSecondPass
  <2>3. ASSUME NEW q \in Process, q # p PROVE StatusInv(q)'
    BY <1>13, <2>3 DEF EndSecondPass
  <2> QED BY <2>2, <2>3
<1>14. ASSUME NEW p \in Process, Status(p) PROVE \A q \in Process : StatusInv(q)'
  BY <1>14 DEF Status
<1>15. ASSUME NEW p \in Process, Retry(p) PROVE \A q \in Process : StatusInv(q)'
  BY <1>15 DEF Retry, Forget
<1>16. ASSUME NEW p \in Process, Prepare(p) PROVE \A q \in Process : StatusInv(q)'
  BY <1>16 DEF Prepare
<1>17. ASSUME NEW p \in Process, CheckRoutes(p) PROVE \A q \in Process : StatusInv(q)'
  BY <1>17 DEF CheckRoutes
<1>18. ASSUME NEW p \in Process, Publish(p) PROVE \A q \in Process : StatusInv(q)'
  BY <1>18 DEF Publish
<1>19. ASSUME NEW p \in Process, Recover(p) PROVE \A q \in Process : StatusInv(q)'
  BY <1>19 DEF Recover
<1>20. ASSUME NEW p \in Process, Write(p) PROVE \A q \in Process : StatusInv(q)'
  BY <1>20, ReadersKeepWritersAway DEF Write
<1>21. ASSUME NEW p \in Process, Finish(p) PROVE \A q \in Process : StatusInv(q)'
  BY <1>21 DEF Finish
<1>22. CASE Edit
  <2>1. PICK t \in Target : files' = [files EXCEPT ![t] = <<"foreign", edits + 1>>]
    BY <1>22 DEF Edit
  <2>2. Later(<<"foreign", edits + 1>>, files[t])
    BY <1>22, NewEditIsLater DEF Edit
  <2>3. \A u \in Target : Later(files'[u], files[u])
    BY <2>1, <2>2, LaterIsReflexive DEF Files
  <2> HIDE <2>1
  <2>4. UNCHANGED <<ns, kind, pc, handle, next, reads, saw, mid>>
    BY <1>22 DEF Edit
  <2> QED BY <2>3, <2>4, LaterIsTransitive
<1>23. CASE Replace
  BY <1>23, NamespacesDoNotReturn DEF Replace
<1>24. CASE Remove
  BY <1>24, NamespacesDoNotReturn DEF Remove
<1>25. CASE UNCHANGED vars
  BY <1>25 DEF vars
<1> QED
  BY <1>1, <1>2, <1>3, <1>4, <1>5, <1>6, <1>7, <1>8, <1>9, <1>10, <1>11, <1>12, <1>13,
     <1>14, <1>15, <1>16, <1>17, <1>18, <1>19, <1>20, <1>21, <1>22, <1>23, <1>24,
     <1>25 DEF Next, Step

---------------------------------------------------------------------------
LEMMA NextKeepsInv == Inv /\ [Next]_vars => Inv'
<1> SUFFICES ASSUME Inv, [Next]_vars PROVE Inv'
  OBVIOUS
<1>1. \A p \in Process : PlaceInv(p)'
  BY KeepsPlaces
<1>2. ASSUME ~gap'
      PROVE  PendingInv' /\ \A p \in Process : PlanInv(p)' /\ StatusInv(p)'
  BY <1>2, KeepsPending, KeepsPlans, KeepsStatus
<1> QED
  BY <1>1, <1>2, KeepsShape, KeepsFlags, KeepsExclusion, KeepsEdits DEF Inv

LEMMA AlwaysInv == Spec => []Inv
BY StartsInv, NextKeepsInv, PTL DEF Spec

\* No call ever leaves the state space, and locks go with directories.
THEOREM LeaseTypeCorrect == Spec => []LeaseTypeOK
<1>1. Inv => LeaseTypeOK
  <2> SUFFICES ASSUME Inv PROVE LeaseTypeOK
    OBVIOUS
  <2>1. \A p \in Process : held[p] # "none" => held[p] = Mode(p) /\ handle[p] # 0
    BY DEF Inv, PlaceInv
  <2>2. pending \in BOOLEAN /\ gap \in BOOLEAN
    BY DEF Inv, FlagInv
  <2> QED BY <2>1, <2>2 DEF Inv, ShapeInv, LeaseTypeOK
<1> QED BY <1>1, AlwaysInv, PTL

\* There is one writer, and it holds the control directory that is at its path,
\* for any number of calls and of directories that come and go, as long as none
\* of them goes between the last check of a writer and its rename.
THEOREM WriterOwns == Spec => []WriterOwnsNamespace
<1>1. Inv => WriterOwnsNamespace
  <2> SUFFICES ASSUME Inv, ~gap, NEW p \in Process, pc[p] = "write"
               PROVE  /\ pending
                      /\ handle[p] = ns
                      /\ held[p] = "exclusive"
                      /\ \A q \in Process \ {p} : handle[q] = ns => held[q] = "none"
    BY DEF WriterOwnsNamespace
  <2>1. pending /\ handle[p] = ns
    BY DEF Inv, PendingInv
  <2>2. held[p] = "exclusive"
    BY DEF Inv, PlaceInv
  <2>3. ASSUME NEW q \in Process \ {p}, handle[q] = ns PROVE held[q] = "none"
    BY <2>1, <2>2, <2>3 DEF Inv, ExclusionInv
  <2> QED BY <2>1, <2>2, <2>3
<1> QED BY <1>1, AlwaysInv, PTL

\* Only their last check lets plans and inspections succeed.
LEMMA DoneIsReached ==
    ASSUME Inv, Next, NEW p \in Process, pc'[p] = "done"
    PROVE  /\ At(p, "plan", "read") => Plan(p)
           /\ At(p, "status", "recheck") => Status(p)
<1> USE DEF Inv, ShapeInv, At, Goto, lease
<1> SUFFICES ASSUME pc[p] \in {"read", "recheck"},
                    pc[p] = "read" => kind[p] = "plan",
                    pc[p] = "recheck" => kind[p] = "status"
             PROVE  Plan(p) \/ Status(p)
  BY DEF Plan, Status
<1>1. PICK q \in Process : Step(q)
  BY DEF Next, Edit, Replace, Remove
<1>2. q = p
  BY <1>1
     DEF Step, Begin, Exists, OpenDirectory, Lock, Admit, Leave, NoPendingWork, Read,
         Plan, InspectControl, EndFirstPass, Reread, EndSecondPass, Status, Retry,
         Prepare, CheckRoutes, Publish, Recover, Write, Finish
<1> QED
  BY <1>1, <1>2
     DEF Step, Begin, Exists, OpenDirectory, Lock, Admit, Leave, NoPendingWork, Read,
         InspectControl, EndFirstPass, Reread, EndSecondPass, Retry,
         Prepare, CheckRoutes, Publish, Recover, Write, Finish

\* A plan is built from the targets of one moment without pending work, however
\* many targets are read one by one, unless a writer lost its control directory
\* between its last check and its rename.
THEOREM PlansSeeOneMoment == Spec => PlanSeesOneMoment
<1>1. Inv /\ [Next]_vars => [PlannedAtOnce]_vars
  <2> SUFFICES ASSUME Inv, Next, NEW p \in Process, ~gap,
                      At(p, "plan", "read"), pc'[p] = "done", edits = since[p]
               PROVE  reads[p] = files /\ ~pending
    BY DEF PlannedAtOnce
  <2>1. Plan(p)
    BY DoneIsReached
  <2>2. ns = handle[p] /\ next[p] = N + 1
    BY <2>1, LeaseAssumption DEF Plan, Verified, Inv, ShapeInv, Target
  <2>3. ~pending /\ \A t \in Target : reads[p][t] = files[t]
    BY <2>2, LeaseAssumption DEF Inv, PlanInv, Target
  <2>4. reads[p] \in Reads /\ files \in Files
    BY DEF Inv, ShapeInv
  <2>5. reads[p] = [t \in Target |-> reads[p][t]] /\ files = [t \in Target |-> files[t]]
    BY <2>4 DEF Reads, Files
  <2>6. reads[p] = files
    BY <2>3, <2>5
  <2> QED BY <2>3, <2>6
<1> QED BY <1>1, AlwaysInv, PTL DEF PlanSeesOneMoment, Spec

\* A status is about one moment even though files are edited while it is made,
\* under the same condition.
THEOREM StatusesSeeOneMoment == Spec => StatusSeesOneMoment
<1>1. Inv /\ [Next]_vars => [InspectedAtOnce]_vars
  <2> SUFFICES ASSUME Inv, Next, NEW p \in Process, ~gap,
                      At(p, "status", "recheck"), pc'[p] = "done"
               PROVE  (pending <=> saw[p]) /\ (~pending => reads[p] = mid[p])
    BY DEF InspectedAtOnce
  <2>1. Status(p)
    BY DoneIsReached
  <2>2. ns = handle[p]
    BY <2>1 DEF Status, Verified
  <2>3. pending <=> saw[p]
    BY <2>1, Zenon DEF Status
  <2>4. ASSUME ~pending PROVE reads[p] = mid[p]
    <3>1. \A t \in Target : reads[p][t] = mid[p][t]
      BY <2>2, <2>3, <2>4 DEF Inv, StatusInv, At
    <3>2. reads[p] \in Reads /\ mid[p] \in Reads
      BY DEF Inv, ShapeInv
    <3>3. reads[p] = [t \in Target |-> reads[p][t]] /\ mid[p] = [t \in Target |-> mid[p][t]]
      BY <3>2 DEF Reads
    <3> QED BY <3>1, <3>3
  <2> QED BY <2>3, <2>4
<1> QED BY <1>1, AlwaysInv, PTL DEF StatusSeesOneMoment, Spec


---------------------------------------------------------------------------
(* The quarantine of preparation residue *)

\* What every variable holds; residue that was observed is residue.
ResidueTyped ==
    /\ active \in Node \cup {NoNode}
    /\ nodes \in 1 .. MaxNodes
    /\ known \subseteq Observation
    /\ dest \in [Observation -> Node \cup {NoNode}]
    /\ stage \in [Operator -> {"idle", "check", "confirm", "rename", "sync", "verify"}]
    /\ expected \in [Operator -> Observation \cup {NoCall}]
    /\ published \in [Operator -> BOOLEAN] /\ moved \in [Operator -> BOOLEAN]
    /\ retry \in [Operator -> BOOLEAN] /\ disturbed \in [Operator -> BOOLEAN]
    /\ result \in [Operator -> Result]

\* A call holds the lock, has no result yet and knows what it did.
CallKnows(p) ==
    stage[p] # "idle" =>
        /\ lock = p /\ result[p] = "none" /\ expected[p] \in Observation
        /\ published[p] = moved[p]
        /\ stage[p] \in {"sync", "verify"} => moved[p]

\* What it saw at its last look holds unless somebody interfered: of a call that is
\* repeated the destination is there, and before the rename nothing has changed.
CallSees(p) ==
    stage[p] # "idle" /\ ~disturbed[p] =>
        /\ retry[p] => stage[p] = "check" /\ dest[expected[p]] # NoNode /\ ~moved[p]
        /\ stage[p] = "rename" => active = expected[p] /\ dest[expected[p]] = NoNode

ResidueInv ==
    /\ ResidueTyped
    /\ \A p \in Operator : CallKnows(p) /\ CallSees(p)
    /\ OutcomeIsHonest /\ RetryIsRecognised

\* At first nobody has called.
LEMMA ResidueStart == ResidueInit => ResidueInv
<1> SUFFICES ASSUME ResidueInit PROVE ResidueInv
  OBVIOUS
<1> USE DEF ResidueInit
<1>1. ResidueTyped
  BY ResidueAssumption DEF ResidueTyped, Node, Body, Result, Plain
<1>2. \A p \in Operator : CallKnows(p) /\ CallSees(p)
  BY DEF CallKnows, CallSees
<1>3. OutcomeIsHonest /\ RetryIsRecognised
  BY DEF OutcomeIsHonest, RetryIsRecognised, Plain
<1> QED BY <1>1, <1>2, <1>3 DEF ResidueInv

\* Who does not hold the lock is idle, and so is everybody while nobody holds it.
LEMMA OneCall ==
    ASSUME ResidueInv, NEW p \in Operator, stage[p] # "idle"
    PROVE  /\ lock = p /\ lock # Nobody
           /\ \A q \in Operator : q # p => stage[q] = "idle"
BY ResidueAssumption DEF ResidueInv, CallKnows

\* What an idle operator keeps: its last call is over.
LEMMA IdleStays ==
    ASSUME ResidueInv, NEW q \in Operator, stage[q] = "idle", stage'[q] = "idle",
           result'[q] = result[q], moved'[q] = moved[q], retry'[q] = retry[q],
           disturbed'[q] = disturbed[q]
    PROVE  /\ CallKnows(q)' /\ CallSees(q)'
           /\ result'[q] \in Plain => ~moved'[q]
           /\ result'[q] \in {"quarantined", "unverified"} => moved'[q]
           /\ retry'[q] /\ ~disturbed'[q] => result'[q] \in {"none", "present", "failed"}
BY DEF ResidueInv, CallKnows, CallSees, OutcomeIsHonest, RetryIsRecognised

\* The parts of the invariant, operator by operator.
LEMMA EachOperator ==
    ASSUME ResidueTyped',
           \A p \in Operator :
              /\ CallKnows(p)' /\ CallSees(p)'
              /\ stage'[p] = "idle" =>
                    /\ result'[p] \in Plain => ~moved'[p]
                    /\ result'[p] \in {"quarantined", "unverified"} => moved'[p]
                    /\ retry'[p] /\ ~disturbed'[p] =>
                          result'[p] \in {"none", "present", "failed"}
    PROVE  ResidueInv'
<1>1. OutcomeIsHonest'
  BY DEF OutcomeIsHonest
<1>2. RetryIsRecognised'
  BY DEF RetryIsRecognised
<1> QED BY <1>1, <1>2 DEF ResidueInv

\* A call that ends reports what it did.
LEMMA EndKeeps ==
    ASSUME ResidueInv, NEW p \in Operator, stage[p] # "idle",
           NEW r \in Plain \cup {"quarantined"}, End(p, r),
           r = "quarantined" => moved[p],
           retry[p] /\ ~disturbed[p] => r \in {"present", "failed"}
    PROVE  ResidueInv'
<1>1. /\ lock' = Nobody
      /\ stage' = [stage EXCEPT ![p] = "idle"]
      /\ result' = [result EXCEPT ![p] = Reported(p, r)]
      /\ UNCHANGED <<tree, known, expected, published, moved, retry, disturbed>>
  BY DEF End
<1>2. ResidueTyped /\ CallKnows(p) /\ CallSees(p)
  BY DEF ResidueInv
<1>3. Reported(p, r) = IF moved[p] /\ r # "quarantined" THEN "unverified" ELSE r
  BY <1>2 DEF Reported, CallKnows
<1>4. Reported(p, r) \in Result
  BY <1>3 DEF Result
<1>5. ResidueTyped'
  BY <1>1, <1>2, <1>4 DEF ResidueTyped, tree
<1>6. /\ stage'[p] = "idle" /\ result'[p] = Reported(p, r)
      /\ \A q \in Operator : q # p => stage'[q] = stage[q] /\ result'[q] = result[q]
  BY <1>1, <1>2 DEF ResidueTyped
<1>7. ASSUME NEW q \in Operator, q # p
      PROVE  /\ CallKnows(q)' /\ CallSees(q)'
             /\ result'[q] \in Plain => ~moved'[q]
             /\ result'[q] \in {"quarantined", "unverified"} => moved'[q]
             /\ retry'[q] /\ ~disturbed'[q] => result'[q] \in {"none", "present", "failed"}
  <2>1. stage[q] = "idle"
    BY <1>7, OneCall
  <2> QED BY <1>1, <1>6, <1>7, <2>1, IdleStays
<1>8. CallKnows(p)' /\ CallSees(p)'
  BY <1>6 DEF CallKnows, CallSees
<1>9. /\ result'[p] \in Plain => ~moved'[p]
      /\ result'[p] \in {"quarantined", "unverified"} => moved'[p]
  BY <1>1, <1>3, <1>6 DEF Plain
<1>10. retry'[p] /\ ~disturbed'[p] => result'[p] \in {"none", "present", "failed"}
  BY <1>1, <1>2, <1>3, <1>6 DEF CallSees
<1> QED BY <1>5, <1>7, <1>8, <1>9, <1>10, EachOperator

\* A call that goes on, and does not touch the directories.
LEMMA ContinueKeeps ==
    ASSUME ResidueInv, NEW p \in Operator, stage[p] # "idle",
           NEW c \in {"confirm", "rename", "sync", "verify"}, Continue(p, c),
           c \in {"sync", "verify"} => moved[p],
           ~disturbed[p] => ~retry[p],
           c = "rename" => active = expected[p] /\ dest[expected[p]] = NoNode
    PROVE  ResidueInv'
<1>1. /\ stage' = [stage EXCEPT ![p] = c]
      /\ UNCHANGED <<tree, known, lock, expected, published, result, moved, retry,
                     disturbed>>
  BY DEF Continue
<1>2. ResidueTyped /\ CallKnows(p) /\ CallSees(p)
  BY DEF ResidueInv
<1>3. ResidueTyped'
  BY <1>1, <1>2 DEF ResidueTyped, tree
<1>4. /\ stage'[p] = c
      /\ \A q \in Operator : q # p => stage'[q] = stage[q] /\ stage[q] = "idle"
  BY <1>1, <1>2, OneCall DEF ResidueTyped
<1>5. CallKnows(p)' /\ CallSees(p)'
  BY <1>1, <1>2, <1>4 DEF CallKnows, CallSees, tree
<1>6. \A q \in Operator : q # p =>
          /\ CallKnows(q)' /\ CallSees(q)'
          /\ result'[q] \in Plain => ~moved'[q]
          /\ result'[q] \in {"quarantined", "unverified"} => moved'[q]
          /\ retry'[q] /\ ~disturbed'[q] => result'[q] \in {"none", "present", "failed"}
  <2> SUFFICES ASSUME NEW q \in Operator, q # p
               PROVE  /\ CallKnows(q)' /\ CallSees(q)'
                      /\ result'[q] \in Plain => ~moved'[q]
                      /\ result'[q] \in {"quarantined", "unverified"} => moved'[q]
                      /\ retry'[q] /\ ~disturbed'[q] =>
                            result'[q] \in {"none", "present", "failed"}
    OBVIOUS
  <2>1. /\ stage[q] = "idle" /\ stage'[q] = "idle" /\ result'[q] = result[q]
        /\ moved'[q] = moved[q] /\ retry'[q] = retry[q] /\ disturbed'[q] = disturbed[q]
    BY <1>1, <1>4
  <2> QED BY <2>1, IdleStays
<1> QED BY <1>1, <1>3, <1>4, <1>5, <1>6, EachOperator

LEMMA MismatchIsPlain ==
    ASSUME NEW p PROVE Mismatch(p) \in {"absent", "ineligible", "changed"}
BY DEF Mismatch

LEMMA CheckKeeps ==
    ASSUME ResidueInv, NEW p \in Operator, Check(p)
    PROVE  ResidueInv'
<1>1. stage[p] = "check" /\ CallKnows(p) /\ CallSees(p)
  BY DEF Check, ResidueInv
<1>2. CASE DestinationAbsent(expected[p]) /\ Matches(active, expected[p])
  <2>1. Continue(p, "confirm")
    BY <1>2 DEF Check
  <2>2. ~disturbed[p] => ~retry[p]
    BY <1>1, <1>2 DEF CallSees, DestinationAbsent
  <2> QED BY <1>1, <2>1, <2>2, ContinueKeeps
<1>3. CASE ~(DestinationAbsent(expected[p]) /\ Matches(active, expected[p]))
  <2>1. End(p, FirstRefusal(p))
    BY <1>3 DEF Check
  <2>2. FirstRefusal(p) \in {"present", "absent", "ineligible", "changed"}
    BY MismatchIsPlain DEF FirstRefusal
  <2>3. retry[p] /\ ~disturbed[p] => FirstRefusal(p) = "present"
    BY <1>1 DEF CallSees, FirstRefusal, DestinationAbsent
  <2> QED BY <1>1, <2>1, <2>2, <2>3, EndKeeps DEF Plain
<1> QED BY <1>2, <1>3

LEMMA ConfirmKeeps ==
    ASSUME ResidueInv, NEW p \in Operator, Confirm(p)
    PROVE  ResidueInv'
<1>1. stage[p] = "confirm" /\ CallKnows(p) /\ CallSees(p)
  BY DEF Confirm, ResidueInv
<1>2. ~disturbed[p] => ~retry[p]
  BY <1>1 DEF CallSees
<1>3. ASSUME NEW r \in {"ineligible", "changed", "present"}, End(p, r)
      PROVE  ResidueInv'
  BY <1>1, <1>2, <1>3, EndKeeps DEF Plain
<1>4. CASE ~Matches(active, expected[p])
  <2>1. End(p, IF Mismatch(p) = "ineligible" THEN "ineligible" ELSE "changed")
    BY <1>1, <1>4 DEF Confirm
  <2> QED BY <1>3, <2>1
<1>5. CASE Matches(active, expected[p]) /\ ~DestinationAbsent(expected[p])
  <2>1. End(p, "present")
    BY <1>1, <1>5 DEF Confirm
  <2> QED BY <1>3, <2>1
<1>6. CASE Matches(active, expected[p]) /\ DestinationAbsent(expected[p])
  <2>1. Continue(p, "rename")
    BY <1>1, <1>6 DEF Confirm
  <2>2. active = expected[p] /\ dest[expected[p]] = NoNode
    BY <1>6 DEF Matches, DestinationAbsent
  <2> QED BY <1>1, <1>2, <2>1, <2>2, ContinueKeeps
<1> QED BY <1>4, <1>5, <1>6

LEMMA RenameKeeps ==
    ASSUME ResidueInv, NEW p \in Operator, Rename(p)
    PROVE  ResidueInv'
<1>1. /\ stage[p] = "rename" /\ active # NoNode
      /\ dest' = [dest EXCEPT ![expected[p]] = active]
      /\ active' = NoNode
      /\ published' = [published EXCEPT ![p] = TRUE]
      /\ moved' = [moved EXCEPT ![p] = TRUE]
      /\ stage' = [stage EXCEPT ![p] = "sync"]
      /\ UNCHANGED <<nodes, foreign, touched, known, lock, expected, result, retry, disturbed>>
  BY DEF Rename, Renames
<1>2. ResidueTyped /\ CallKnows(p) /\ CallSees(p)
  BY DEF ResidueInv
<1>3. ResidueTyped'
  BY <1>1, <1>2 DEF ResidueTyped
<1>4. /\ stage'[p] = "sync" /\ moved'[p] = TRUE /\ published'[p] = TRUE
      /\ \A q \in Operator : q # p => stage'[q] = stage[q] /\ stage[q] = "idle"
                                      /\ moved'[q] = moved[q]
  BY <1>1, <1>2, OneCall DEF ResidueTyped
<1>5. CallKnows(p)' /\ CallSees(p)'
  BY <1>1, <1>2, <1>4 DEF CallKnows, CallSees
<1>6. \A q \in Operator : q # p =>
          /\ CallKnows(q)' /\ CallSees(q)'
          /\ result'[q] \in Plain => ~moved'[q]
          /\ result'[q] \in {"quarantined", "unverified"} => moved'[q]
          /\ retry'[q] /\ ~disturbed'[q] => result'[q] \in {"none", "present", "failed"}
  <2> SUFFICES ASSUME NEW q \in Operator, q # p
               PROVE  /\ CallKnows(q)' /\ CallSees(q)'
                      /\ result'[q] \in Plain => ~moved'[q]
                      /\ result'[q] \in {"quarantined", "unverified"} => moved'[q]
                      /\ retry'[q] /\ ~disturbed'[q] =>
                            result'[q] \in {"none", "present", "failed"}
    OBVIOUS
  <2>1. /\ stage[q] = "idle" /\ stage'[q] = "idle" /\ result'[q] = result[q]
        /\ moved'[q] = moved[q] /\ retry'[q] = retry[q] /\ disturbed'[q] = disturbed[q]
    BY <1>1, <1>4
  <2> QED BY <2>1, IdleStays
<1> QED BY <1>1, <1>3, <1>4, <1>5, <1>6, EachOperator

LEMMA LateKeeps ==
    ASSUME ResidueInv, NEW p \in Operator,
           RenameFails(p) \/ Sync(p) \/ Verify(p) \/ Fail(p)
    PROVE  ResidueInv'
<1>1. CallKnows(p) /\ CallSees(p)
  BY DEF ResidueInv
<1>2. CASE RenameFails(p) \/ Fail(p)
  <2>1. stage[p] # "idle" /\ End(p, "failed")
    BY <1>2 DEF RenameFails, Fail
  <2> QED BY <2>1, EndKeeps DEF Plain
<1>3. CASE Sync(p)
  <2>1. stage[p] = "sync" /\ Continue(p, "verify")
    BY <1>3 DEF Sync
  <2>2. moved[p] /\ (~disturbed[p] => ~retry[p])
    BY <1>1, <2>1 DEF CallKnows, CallSees
  <2> QED BY <2>1, <2>2, ContinueKeeps
<1>4. CASE Verify(p)
  <2>1. /\ stage[p] = "verify"
        /\ End(p, IF MovedAsExpected(p) THEN "quarantined" ELSE "changed")
    BY <1>4 DEF Verify
  <2>2. moved[p] /\ (~disturbed[p] => ~retry[p])
    BY <1>1, <2>1 DEF CallKnows, CallSees
  <2>3. CASE MovedAsExpected(p)
    BY <2>1, <2>2, <2>3, EndKeeps
  <2>4. CASE ~MovedAsExpected(p)
    BY <2>1, <2>2, <2>4, EndKeeps DEF Plain
  <2> QED BY <2>3, <2>4
<1> QED BY <1>2, <1>3, <1>4

\* A call begins, or an operator only looks.
LEMMA BeginKeeps ==
    ASSUME ResidueInv, NEW p \in Operator,
           Inspect(p) \/ \E e \in known : Quarantine(p, e)
    PROVE  ResidueInv'
<1>1. ResidueTyped /\ stage[p] = "idle" /\ lock = Nobody
  BY DEF ResidueInv, Inspect, Quarantine
<1>2. \A q \in Operator : stage[q] = "idle"
  BY <1>1, OneCall
<1>3. CASE Inspect(p)
  <2>1. /\ known' = known \cup {n \in {active} : Eligible(n)}
        /\ UNCHANGED <<tree, lock, stage, expected, published, result, moved, retry,
                       disturbed>>
    BY <1>3 DEF Inspect
  <2>2. ResidueTyped'
    BY <1>1, <2>1 DEF ResidueTyped, tree, Eligible, Observation
  <2> QED BY <1>2, <2>1, <2>2, IdleStays, EachOperator
<1>4. CASE \E e \in known : Quarantine(p, e)
  <2>1. PICK e \in known : Quarantine(p, e)
    BY <1>4
  <2>2. /\ lock' = p
        /\ stage' = [stage EXCEPT ![p] = "check"]
        /\ expected' = [expected EXCEPT ![p] = e]
        /\ published' = [published EXCEPT ![p] = FALSE]
        /\ result' = [result EXCEPT ![p] = "none"]
        /\ moved' = [moved EXCEPT ![p] = FALSE]
        /\ retry' = [retry EXCEPT ![p] = dest[e] # NoNode]
        /\ disturbed' = [disturbed EXCEPT ![p] = FALSE]
        /\ UNCHANGED <<tree, known>>
    BY <2>1 DEF Quarantine
  <2>3. e \in Observation
    BY <1>1 DEF ResidueTyped
  <2>4. ResidueTyped'
    BY <1>1, <2>2, <2>3 DEF ResidueTyped, tree, Result
  <2>5. /\ stage'[p] = "check" /\ expected'[p] = e /\ published'[p] = FALSE
        /\ result'[p] = "none" /\ moved'[p] = FALSE
        /\ retry'[p] = (dest[e] # NoNode) /\ disturbed'[p] = FALSE
    BY <1>1, <2>2 DEF ResidueTyped
  <2>6. CallKnows(p)' /\ CallSees(p)'
    BY <2>2, <2>3, <2>5 DEF CallKnows, CallSees, tree
  <2>7. ASSUME NEW q \in Operator, q # p
        PROVE  /\ stage'[q] = stage[q] /\ result'[q] = result[q] /\ moved'[q] = moved[q]
               /\ retry'[q] = retry[q] /\ disturbed'[q] = disturbed[q]
    BY <1>1, <2>2, <2>7 DEF ResidueTyped
  <2>8. \A q \in Operator : q # p =>
            /\ CallKnows(q)' /\ CallSees(q)'
            /\ result'[q] \in Plain => ~moved'[q]
            /\ result'[q] \in {"quarantined", "unverified"} => moved'[q]
            /\ retry'[q] /\ ~disturbed'[q] => result'[q] \in {"none", "present", "failed"}
    BY <1>2, <2>7, IdleStays
  <2> QED BY <2>4, <2>5, <2>6, <2>8, EachOperator
<1> QED BY <1>3, <1>4

LEMMA CrashKeeps ==
    ASSUME ResidueInv, NEW p \in Operator, Crash(p)
    PROVE  ResidueInv'
<1>1. /\ stage[p] # "idle" /\ lock' = Nobody
      /\ stage' = [stage EXCEPT ![p] = "idle"]
      /\ result' = [result EXCEPT ![p] = "none"]
      /\ UNCHANGED <<tree, known, expected, published, moved, retry, disturbed>>
  BY DEF Crash
<1>2. ResidueTyped
  BY DEF ResidueInv
<1>3. ResidueTyped'
  BY <1>1, <1>2 DEF ResidueTyped, tree, Result
<1>4. /\ stage'[p] = "idle" /\ result'[p] = "none"
      /\ \A q \in Operator : q # p => stage'[q] = stage[q] /\ stage[q] = "idle"
                                      /\ result'[q] = result[q]
  BY <1>1, <1>2, OneCall DEF ResidueTyped
<1>5. CallKnows(p)' /\ CallSees(p)'
  BY <1>4 DEF CallKnows, CallSees
<1>6. \A q \in Operator : q # p =>
          /\ CallKnows(q)' /\ CallSees(q)'
          /\ result'[q] \in Plain => ~moved'[q]
          /\ result'[q] \in {"quarantined", "unverified"} => moved'[q]
          /\ retry'[q] /\ ~disturbed'[q] => result'[q] \in {"none", "present", "failed"}
  <2> SUFFICES ASSUME NEW q \in Operator, q # p
               PROVE  /\ CallKnows(q)' /\ CallSees(q)'
                      /\ result'[q] \in Plain => ~moved'[q]
                      /\ result'[q] \in {"quarantined", "unverified"} => moved'[q]
                      /\ retry'[q] /\ ~disturbed'[q] =>
                            result'[q] \in {"none", "present", "failed"}
    OBVIOUS
  <2>1. /\ stage[q] = "idle" /\ stage'[q] = "idle" /\ result'[q] = result[q]
        /\ moved'[q] = moved[q] /\ retry'[q] = retry[q] /\ disturbed'[q] = disturbed[q]
    BY <1>1, <1>4
  <2> QED BY <2>1, IdleStays
<1> QED BY <1>3, <1>4, <1>5, <1>6, EachOperator DEF Plain

\* The engine works only while no call does; whoever disturbs one is remembered.
LEMMA SurroundingsKeep ==
    ASSUME ResidueInv, EngineWorks \/ Disturb
    PROVE  ResidueInv' /\ moved' = moved
<1>1. ResidueTyped
  BY DEF ResidueInv
<1>2. \A b \in Body : nodes < MaxNodes => Fresh(b) \in Node /\ nodes + 1 \in 1 .. MaxNodes
  BY <1>1, ResidueAssumption DEF ResidueTyped, Fresh, Node
<1>3. CASE EngineWorks
  <2>1. /\ lock = Nobody
        /\ UNCHANGED <<dest, foreign, touched, known, lock, stage, expected, published,
                       result, moved, retry, disturbed>>
    BY <1>3 DEF EngineWorks
  <2>2. active' \in Node \cup {NoNode} /\ nodes' \in 1 .. MaxNodes
    <3>1. CASE nodes < MaxNodes /\ nodes' = nodes + 1 /\ \E b \in Body : active' = Fresh(b)
      BY <1>2, <3>1
    <3>2. CASE active' = NoNode /\ UNCHANGED nodes
      BY <1>1, <3>2 DEF ResidueTyped
    <3> QED BY <1>3, <3>1, <3>2 DEF EngineWorks
  <2>3. ResidueTyped'
    BY <1>1, <2>1, <2>2 DEF ResidueTyped
  <2>4. \A q \in Operator : stage[q] = "idle"
    BY <2>1, OneCall
  <2> QED BY <2>1, <2>3, <2>4, IdleStays, EachOperator
<1>4. CASE Disturb
  <2>1. /\ disturbed' = [p \in Operator |-> disturbed[p] \/ stage[p] # "idle"]
        /\ UNCHANGED <<known, lock, stage, expected, published, result, moved, retry>>
    BY <1>4 DEF Disturb
  <2>2. \A n, m : m \in Node \cup {NoNode} /\ Disturbance(n, m) => nodes' \in 1 .. MaxNodes
    BY <1>1, <1>2 DEF ResidueTyped, Disturbance
  <2>3. /\ active' \in Node \cup {NoNode} /\ nodes' \in 1 .. MaxNodes
        /\ dest' \in [Observation -> Node \cup {NoNode}]
    <3>1. CASE \E m \in Node \cup {NoNode} :
                   /\ Disturbance(active, m) /\ active' = m /\ UNCHANGED dest
                   /\ touched' = touched \cup {active}
      BY <1>1, <2>2, <3>1 DEF ResidueTyped
    <3>2. CASE \E e \in known : \E m \in Node \cup {NoNode} :
                   /\ Disturbance(dest[e], m) /\ dest' = [dest EXCEPT ![e] = m]
                   /\ UNCHANGED active
                   /\ touched' = touched \cup {dest[e]}
      BY <1>1, <2>2, <3>2 DEF ResidueTyped
    <3> QED BY <1>4, <3>1, <3>2 DEF Disturb
  <2>4. ResidueTyped'
    BY <1>1, <2>1, <2>3 DEF ResidueTyped
  <2>5. ASSUME NEW q \in Operator, stage[q] = "idle"
        PROVE  disturbed'[q] = disturbed[q]
    BY <1>1, <2>1, <2>5 DEF ResidueTyped
  <2>6. ASSUME NEW q \in Operator, stage[q] # "idle"
        PROVE  CallKnows(q)' /\ CallSees(q)' /\ stage'[q] # "idle"
    BY <2>1, <2>6 DEF ResidueInv, CallKnows, CallSees
  <2> QED BY <2>1, <2>4, <2>5, <2>6, IdleStays, EachOperator
<1> QED BY <1>3, <1>4

LEMMA CallKeeps ==
    ASSUME ResidueInv, NEW p \in Operator, Call(p)
    PROVE  ResidueInv'
BY BeginKeeps, CheckKeeps, ConfirmKeeps, RenameKeeps, LateKeeps, CrashKeeps DEF Call

LEMMA ResidueNextKeeps == ResidueInv /\ [ResidueNext]_residueVars => ResidueInv'
<1> SUFFICES ASSUME ResidueInv, [ResidueNext]_residueVars PROVE ResidueInv'
  OBVIOUS
<1>1. CASE UNCHANGED residueVars
  BY <1>1 DEF residueVars, ResidueInv, ResidueTyped, CallKnows, CallSees,
              OutcomeIsHonest, RetryIsRecognised
<1> QED BY <1>1, CallKeeps, SurroundingsKeep DEF ResidueNext

LEMMA ResidueInvariance == ResidueSpec => []ResidueInv
BY ResidueStart, ResidueNextKeeps, PTL DEF ResidueSpec

\* What quarantinePreparationResidue answers is true: an ordinary error means that it
\* moved nothing, an unverified outcome and a success that it did.
THEOREM OutcomesAreHonest == ResidueSpec => []OutcomeIsHonest
<1>1. ResidueInv => OutcomeIsHonest
  BY DEF ResidueInv
<1> QED BY <1>1, ResidueInvariance, PTL

\* A call repeated after its answer was lost finds the destination, and says so.
THEOREM RetriesAreRecognised == ResidueSpec => []RetryIsRecognised
<1>1. ResidueInv => RetryIsRecognised
  BY DEF ResidueInv
<1> QED BY <1>1, ResidueInvariance, PTL

\* Unless somebody interferes during the call, it moves residue and nothing else, and
\* replaces nothing.
THEOREM JournalsStayPut == ResidueSpec => JournalStaysPut
<1>1. ResidueInv /\ [ResidueNext]_residueVars => [MovesResidueOnly]_residueVars
  <2> SUFFICES ASSUME ResidueInv, ResidueNext, NEW p \in Operator,
                      moved[p] = FALSE, moved'[p], ~disturbed[p]
               PROVE  Eligible(active) /\ dest[expected[p]] = NoNode
    BY DEF MovesResidueOnly
  <2>0. ResidueTyped
    BY DEF ResidueInv
  <2>1. PICK q \in Operator : Call(q)
    BY SurroundingsKeep DEF ResidueNext
  <2>2. Rename(q) /\ q = p
    <3>1. CASE Check(q) \/ Confirm(q) \/ RenameFails(q) \/ Sync(q) \/ Verify(q) \/ Fail(q)
      <4>1. \A r : End(q, r) => moved' = moved
        BY DEF End
      <4>2. \A c : Continue(q, c) => moved' = moved
        BY DEF Continue
      <4>3. moved' = moved
        BY <3>1, <4>1, <4>2 DEF Check, Confirm, RenameFails, Sync, Verify, Fail
      <4> QED BY <4>3
    <3>2. CASE Inspect(q) \/ Crash(q)
      BY <3>2 DEF Inspect, Crash
    <3>3. CASE \E e \in known : Quarantine(q, e)
      <4>1. moved' = [moved EXCEPT ![q] = FALSE]
        BY <3>3 DEF Quarantine
      <4> QED BY <2>0, <4>1 DEF ResidueTyped
    <3>4. CASE Rename(q)
      <4>1. moved' = [moved EXCEPT ![q] = TRUE]
        BY <3>4 DEF Rename
      <4> QED BY <2>0, <3>4, <4>1 DEF ResidueTyped
    <3> QED BY <2>1, <3>1, <3>2, <3>3, <3>4 DEF Call
  <2>3. /\ active = expected[p] /\ dest[expected[p]] = NoNode
        /\ expected[p] \in Observation
    BY <2>2 DEF Rename, ResidueInv, CallKnows, CallSees
  <2> QED BY <2>3, NoNodeAssumption DEF Eligible, Observation
<1> QED BY <1>1, ResidueInvariance, PTL DEF ResidueSpec, JournalStaysPut
---------------------------------------------------------------------------
(* Where observed residue is *)

\* No directory is at two paths, and none is newer than the last one made.
IdsInv ==
    /\ active # NoNode => active.id <= nodes
    /\ \A e \in Observation : dest[e] # NoNode =>
          dest[e].id <= nodes /\ (active # NoNode => dest[e].id # active.id)
    /\ \A e, f \in Observation :
          e # f /\ dest[e] # NoNode /\ dest[f] # NoNode => dest[e].id # dest[f].id
    /\ \A e \in known : e.id <= nodes

\* Before its rename a call cannot take other observed residue than what it was given,
\* nor put anything in its place.
CallKeeping(p) ==
    /\ stage[p] # "idle" => expected[p] \in known
    /\ stage[p] = "rename" =>
         /\ active \in known => active \in touched \/ active = expected[p]
         /\ dest[expected[p]] = expected[p] => expected[p] \in touched

KeptInv == IdsInv /\ ResidueIsKept /\ \A p \in Operator : CallKeeping(p)

LEMMA KeptStart == ResidueInit => KeptInv
BY DEF ResidueInit, KeptInv, IdsInv, ResidueIsKept, CallKeeping

\* A foreign change makes a new directory or keeps the old one's number.
LEMMA DisturbanceIds ==
    ASSUME ResidueTyped, NEW n \in Node \cup {NoNode}, NEW m \in Node \cup {NoNode},
           Disturbance(n, m)
    PROVE  /\ nodes' = nodes \/ nodes' = nodes + 1
           /\ m # NoNode => \/ m.id = nodes + 1 /\ nodes' = nodes + 1
                            \/ n # NoNode /\ m.id = n.id
BY ResidueAssumption DEF ResidueTyped, Disturbance, Fresh, Node

\* A directory observed before is not the one with its number unless it is the same.
LEMMA SameNumber ==
    ASSUME ResidueTyped, IdsInv, ResidueIsKept, NEW e \in known, e \notin touched
    PROVE  /\ active # NoNode /\ active.id = e.id => active = e
           /\ \A f \in Observation : dest[f] # NoNode /\ dest[f].id = e.id => dest[f] = e
<1>1. active = e \/ dest[e] = e
  BY DEF ResidueIsKept
<1>2. e \in Observation /\ e # NoNode
  BY NoNodeAssumption DEF ResidueTyped, Observation
<1> QED BY <1>1, <1>2 DEF IdsInv

\* Steps of a call that leave the directories alone.
LEMMA QuietKeeps ==
    ASSUME ResidueInv, KeptInv, NEW p \in Operator, stage[p] # "idle",
           UNCHANGED <<tree, known, expected>>,
           NEW c, stage' = [stage EXCEPT ![p] = c],
           c = "rename" => active = expected[p] /\ dest[expected[p]] = NoNode
    PROVE  KeptInv'
<1>1. IdsInv' /\ ResidueIsKept'
  BY DEF KeptInv, IdsInv, ResidueIsKept, tree
<1>2. ASSUME NEW q \in Operator PROVE CallKeeping(q)'
  <2>1. CallKeeping(q) /\ CallKeeping(p) /\ ResidueTyped /\ known \subseteq Observation
    BY DEF KeptInv, ResidueInv, ResidueTyped
  <2>2. stage' [q] = IF q = p THEN c ELSE stage[q]
    BY <2>1 DEF ResidueTyped
  <2>3. expected[p] \in known /\ expected[p] # NoNode
    BY <2>1, NoNodeAssumption DEF CallKeeping, Observation
  <2> QED BY <2>1, <2>2, <2>3 DEF CallKeeping, tree
<1> QED BY <1>1, <1>2 DEF KeptInv

LEMMA RenameKeepsResidue ==
    ASSUME ResidueInv, KeptInv, NEW p \in Operator, Rename(p)
    PROVE  KeptInv'
<1> DEFINE x == expected[p]
<1>1. /\ stage[p] = "rename" /\ active # NoNode
      /\ dest' = [dest EXCEPT ![x] = active] /\ active' = NoNode
      /\ stage' = [stage EXCEPT ![p] = "sync"]
      /\ UNCHANGED <<nodes, touched, known, expected>>
  BY DEF Rename, Renames
<1>2. /\ ResidueTyped /\ IdsInv /\ ResidueIsKept /\ CallKeeping(p)
      /\ x \in known /\ known \subseteq Observation
  BY <1>1 DEF KeptInv, ResidueInv, ResidueTyped, CallKeeping
<1>3. \A e \in Observation : dest'[e] = IF e = x THEN active ELSE dest[e]
  BY <1>1, <1>2 DEF ResidueTyped
<1>4. IdsInv'
  BY <1>1, <1>2, <1>3 DEF IdsInv
<1>5. ASSUME NEW e \in known, e \notin touched PROVE dest'[e] = e
  <2>1. active = e => e = x
    BY <1>1, <1>2, <1>5 DEF CallKeeping
  <2>2. dest[e] = e => e # x
    BY <1>1, <1>2, <1>5 DEF CallKeeping
  <2>3. active = e \/ dest[e] = e
    BY <1>2, <1>5 DEF ResidueIsKept
  <2> QED BY <1>2, <1>3, <2>1, <2>2, <2>3
<1>6. ResidueIsKept'
  BY <1>1, <1>5 DEF ResidueIsKept
<1>7. ASSUME NEW q \in Operator PROVE CallKeeping(q)'
  <2>1. stage'[q] # "rename" /\ (stage'[q] # "idle" => expected[q] \in known)
    BY <1>1, <1>2, OneCall DEF KeptInv, CallKeeping, ResidueTyped
  <2> QED BY <1>1, <2>1 DEF CallKeeping
<1> QED BY <1>4, <1>6, <1>7 DEF KeptInv

LEMMA BeginKeepsResidue ==
    ASSUME ResidueInv, KeptInv, NEW p \in Operator,
           Inspect(p) \/ \E e \in known : Quarantine(p, e)
    PROVE  KeptInv'
<1>1. ResidueTyped /\ IdsInv /\ ResidueIsKept /\ lock = Nobody
  BY DEF ResidueInv, KeptInv, Inspect, Quarantine
<1>2. \A q \in Operator : stage[q] = "idle"
  BY <1>1, OneCall
<1>3. CASE Inspect(p)
  <2>1. /\ known' = known \cup {n \in {active} : Eligible(n)}
        /\ UNCHANGED <<tree, stage>>
    BY <1>3 DEF Inspect
  <2>2. IdsInv' /\ ResidueIsKept'
    BY <1>1, <2>1 DEF IdsInv, ResidueIsKept, Eligible, tree
  <2>3. \A q \in Operator : CallKeeping(q)'
    BY <1>2, <2>1 DEF CallKeeping
  <2> QED BY <2>2, <2>3 DEF KeptInv
<1>4. CASE \E e \in known : Quarantine(p, e)
  <2>1. PICK e \in known : Quarantine(p, e)
    BY <1>4
  <2>2. /\ stage' = [stage EXCEPT ![p] = "check"]
        /\ expected' = [expected EXCEPT ![p] = e]
        /\ UNCHANGED <<tree, known>>
    BY <2>1 DEF Quarantine
  <2>3. IdsInv' /\ ResidueIsKept'
    BY <1>1, <2>2 DEF IdsInv, ResidueIsKept, tree
  <2>4. \A q \in Operator : CallKeeping(q)'
    BY <1>1, <1>2, <2>2 DEF CallKeeping, ResidueTyped
  <2> QED BY <2>3, <2>4 DEF KeptInv
<1> QED BY <1>3, <1>4

LEMMA EngineKeepsResidue ==
    ASSUME ResidueInv, KeptInv, EngineWorks
    PROVE  KeptInv'
<1>1. /\ lock = Nobody
      /\ UNCHANGED <<dest, touched, known, stage, expected>>
  BY DEF EngineWorks
<1>2. /\ ResidueTyped /\ IdsInv /\ ResidueIsKept /\ known \subseteq Observation
      /\ \A q \in Operator : stage[q] = "idle"
  BY <1>1, OneCall DEF ResidueInv, KeptInv, ResidueTyped
<1>3. \A q \in Operator : CallKeeping(q)'
  BY <1>1, <1>2 DEF CallKeeping
<1>4. CASE /\ active = NoNode /\ nodes < MaxNodes /\ nodes' = nodes + 1
           /\ \E b \in Body : active' = Fresh(b)
  <2>1. active'.id = nodes + 1 /\ nodes \in Nat
    BY <1>2, <1>4, ResidueAssumption DEF Fresh, ResidueTyped
  <2>2. \A e \in Observation : dest[e] # NoNode => dest[e].id \in Nat
    BY <1>2, ResidueAssumption DEF ResidueTyped, Node
  <2>3. \A e \in known : e.id \in Nat
    BY <1>2, ResidueAssumption DEF Observation, Node
  <2>4. IdsInv'
    BY <1>1, <1>2, <1>4, <2>1, <2>2, <2>3 DEF IdsInv
  <2>5. ResidueIsKept'
    BY <1>1, <1>2, <1>4, NoNodeAssumption DEF ResidueIsKept, Observation
  <2> QED BY <1>3, <2>4, <2>5 DEF KeptInv
<1>5. CASE /\ active # NoNode /\ active.body = "admitted" /\ active' = NoNode
           /\ UNCHANGED nodes
  <2>1. IdsInv'
    BY <1>1, <1>2, <1>5 DEF IdsInv
  <2>2. ResidueIsKept'
    BY <1>1, <1>2, <1>5 DEF ResidueIsKept, Observation
  <2> QED BY <1>3, <2>1, <2>2 DEF KeptInv
<1> QED BY <1>4, <1>5 DEF EngineWorks

LEMMA DisturbKeepsResidue ==
    ASSUME ResidueInv, KeptInv, Disturb
    PROVE  KeptInv'
<1>1. UNCHANGED <<known, stage, expected>>
  BY DEF Disturb
<1>2. /\ ResidueTyped /\ IdsInv /\ ResidueIsKept /\ known \subseteq Observation
      /\ \A q \in Operator : CallKeeping(q)
      /\ nodes \in Nat
  BY ResidueAssumption DEF ResidueInv, KeptInv, ResidueTyped
<1>3. /\ \A e \in Observation : dest[e] # NoNode => dest[e].id \in Nat
      /\ active # NoNode => active.id \in Nat
      /\ \A e \in known : e.id \in Nat /\ e # NoNode
  BY <1>2, ResidueAssumption, NoNodeAssumption DEF ResidueTyped, Node, Observation
<1>4. ASSUME NEW m \in Node \cup {NoNode}, Disturbance(active, m), active' = m,
             UNCHANGED dest, touched' = touched \cup {active}
      PROVE  KeptInv'
  <2>1. /\ nodes' = nodes \/ nodes' = nodes + 1
        /\ m # NoNode => \/ m.id = nodes + 1 /\ nodes' = nodes + 1
                         \/ active # NoNode /\ m.id = active.id
    BY <1>2, <1>4, DisturbanceIds DEF ResidueTyped
  <2>2. IdsInv'
    BY <1>1, <1>2, <1>3, <1>4, <2>1 DEF IdsInv
  <2>3. ResidueIsKept'
    BY <1>1, <1>2, <1>4 DEF ResidueIsKept
  <2>4. m \in known => m \in touched'
    BY <1>2, <1>3, <1>4, <2>1, SameNumber DEF IdsInv
  <2>5. \A q \in Operator : CallKeeping(q)'
    BY <1>1, <1>2, <1>4, <2>4 DEF CallKeeping
  <2> QED BY <2>2, <2>3, <2>5 DEF KeptInv
<1>5. ASSUME NEW x \in known, NEW m \in Node \cup {NoNode}, Disturbance(dest[x], m),
             dest' = [dest EXCEPT ![x] = m], UNCHANGED active,
             touched' = touched \cup {dest[x]}
      PROVE  KeptInv'
  <2>1. /\ nodes' = nodes \/ nodes' = nodes + 1
        /\ m # NoNode => \/ m.id = nodes + 1 /\ nodes' = nodes + 1
                         \/ dest[x] # NoNode /\ m.id = dest[x].id
    BY <1>2, <1>5, DisturbanceIds DEF ResidueTyped
  <2>2. \A e \in Observation : dest'[e] = IF e = x THEN m ELSE dest[e]
    BY <1>2, <1>5 DEF ResidueTyped
  <2>3. IdsInv'
    BY <1>1, <1>2, <1>3, <1>5, <2>1, <2>2 DEF IdsInv
  <2>4. ResidueIsKept'
    BY <1>1, <1>2, <1>5, <2>2 DEF ResidueIsKept
  <2>5. m = x => x \in touched'
    BY <1>2, <1>3, <1>5, <2>1, SameNumber DEF IdsInv
  <2>6. ASSUME NEW q \in Operator PROVE CallKeeping(q)'
    <3>1. CallKeeping(q) /\ (stage[q] # "idle" => expected[q] \in Observation)
      BY <1>2 DEF CallKeeping
    <3> QED BY <1>1, <1>5, <2>2, <2>5, <3>1 DEF CallKeeping
  <2> QED BY <2>3, <2>4, <2>6 DEF KeptInv
<1> QED BY <1>4, <1>5 DEF Disturb

LEMMA NextKeepsResidue ==
    ResidueInv /\ KeptInv /\ [ResidueNext]_residueVars => KeptInv'
<1> SUFFICES ASSUME ResidueInv, KeptInv, [ResidueNext]_residueVars PROVE KeptInv'
  OBVIOUS
<1>1. ASSUME NEW p \in Operator, NEW r, stage[p] # "idle", End(p, r) PROVE KeptInv'
  BY <1>1, QuietKeeps DEF End
<1>2. ASSUME NEW p \in Operator, NEW c \in {"confirm", "sync", "verify"},
             stage[p] # "idle", Continue(p, c)
      PROVE  KeptInv'
  BY <1>2, QuietKeeps DEF Continue
<1>3. ASSUME NEW p \in Operator, Check(p) PROVE KeptInv'
  BY <1>1, <1>2, <1>3 DEF Check
<1>4. ASSUME NEW p \in Operator, Confirm(p) PROVE KeptInv'
  <2>1. CASE Matches(active, expected[p]) /\ DestinationAbsent(expected[p])
    <3>1. stage[p] # "idle" /\ Continue(p, "rename")
      BY <1>4, <2>1 DEF Confirm
    <3> QED BY <2>1, <3>1, QuietKeeps DEF Continue, Matches, DestinationAbsent
  <2>2. CASE ~(Matches(active, expected[p]) /\ DestinationAbsent(expected[p]))
    <3>1. stage[p] # "idle" /\ \E r : End(p, r)
      BY <1>4, <2>2 DEF Confirm
    <3> QED BY <1>1, <3>1
  <2> QED BY <2>1, <2>2
<1>5. ASSUME NEW p \in Operator, RenameFails(p) \/ Sync(p) \/ Verify(p) \/ Fail(p)
      PROVE  KeptInv'
  BY <1>1, <1>2, <1>5 DEF RenameFails, Sync, Verify, Fail
<1>6. ASSUME NEW p \in Operator, Crash(p) PROVE KeptInv'
  BY <1>6, QuietKeeps DEF Crash
<1>7. CASE \E p \in Operator : Call(p)
  BY <1>3, <1>4, <1>5, <1>6, <1>7, BeginKeepsResidue, RenameKeepsResidue DEF Call
<1>8. CASE UNCHANGED residueVars
  BY <1>8 DEF residueVars, KeptInv, IdsInv, ResidueIsKept, CallKeeping
<1> QED BY <1>7, <1>8, EngineKeepsResidue, DisturbKeepsResidue DEF ResidueNext

\* Whatever fails, is repeated or dies, observed residue is never lost and never filed
\* under another observation, for any number of operators and directories, unless it
\* was changed without the lock.
THEOREM ResidueStaysKept == ResidueSpec => []ResidueIsKept
<1>1. KeptInv => ResidueIsKept
  BY DEF KeptInv
<1> QED BY <1>1, KeptStart, NextKeepsResidue, ResidueInvariance, PTL DEF ResidueSpec
===============================================================================

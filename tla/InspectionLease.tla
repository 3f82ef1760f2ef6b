---------------------------- MODULE InspectionLease ----------------------------
(***************************************************************************)
(* Readers and writers of one repository.  Planning a transaction and       *)
(* inspecting the status of a project take an inspection lease: a shared    *)
(* flock on the control directory if there is one, nothing otherwise, and   *)
(* checks that what is found at the path of the control directory is still  *)
(* what the lease saw there.  Applying and recovering take the exclusive    *)
(* flock.  No call waits for a lock.                                        *)
(*                                                                          *)
(* What a writer does to the targets is the subject of                      *)
(* RepositoryTransaction; here it puts any content anywhere between the     *)
(* publication of its journal and its end.  Around them somebody edits      *)
(* targets, with content never seen before, and moves the control           *)
(* directory away or puts another one in its place.                         *)
(***************************************************************************)
EXTENDS Integers

CONSTANTS
    Process,
    N,          \* the targets are 1 .. N, in the order of their paths
    Content,    \* what transactions write
    NotRead,    \* a target that was not read yet
    MaxInode,   \* bound: control directories that ever exist
    MaxEdits    \* bound: foreign edits

Foreign == {<<"foreign", k>> : k \in 1 .. MaxEdits}

ASSUME LeaseAssumption ==
    /\ N \in Nat /\ MaxInode \in Nat \ {0} /\ MaxEdits \in Nat
    /\ Content \cap Foreign = {}

VARIABLES
    ns,         \* the control directory at its path, 0 if there is none
    made,       \* control directories made so far
    pending,    \* there is a published journal in the control directory
    files,      \* the targets
    edits,      \* foreign edits so far
    kind,       \* what each process does
    pc,         \* where it is
    handle,     \* the control directory it opened, 0 for a lease without one
    held,       \* its flock: "none", "shared" or "exclusive"
    next,       \* the next target to read
    reads,      \* the targets as it read them
    saw,        \* whether it saw pending state
    attempt,    \* the inspection attempt
    since,      \* history: the foreign edits when its lease was asked for
    mid,        \* history: the targets when its first pass over them ended
    gap         \* history: the control directory was moved between some
                \* writer's last look at it and its rename

vars == <<ns, made, pending, files, edits, kind, pc, handle, held, next, reads,
          saw, attempt, since, mid, gap>>
repository == <<ns, made, pending, files, edits>>
lease == <<kind, handle, held, attempt, since>>
collected == <<next, reads, saw, mid>>

Target == 1 .. N
Files == [Target -> Content \cup Foreign]
Reads == [Target -> Content \cup Foreign \cup {NotRead}]
Blank == [t \in Target |-> NotRead]
Reader == {"plan", "status"}
Kind == Reader \cup {"apply", "recover"}

At(p, k, c) == kind[p] = k /\ pc[p] = c
Goto(p, c) == pc' = [pc EXCEPT ![p] = c]

\* VerifyRootIdentity: the path leads where it led when the lease was opened,
\* and to nothing if it led nowhere.
AppearanceIgnoredVariant(p) == handle[p] # 0 => ns = handle[p]
Verified(p) == ns = handle[p]

-----------------------------------------------------------------------------
(* Opening *)

\* The end of a call and of an attempt: the lock is released, the root closed
\* and everything forgotten.
Forget(p) ==
    /\ handle' = [handle EXCEPT ![p] = 0]
    /\ held' = [held EXCEPT ![p] = "none"]
    /\ next' = [next EXCEPT ![p] = 1]
    /\ reads' = [reads EXCEPT ![p] = Blank]
    /\ saw' = [saw EXCEPT ![p] = FALSE]
    /\ mid' = [mid EXCEPT ![p] = Blank]
    /\ UNCHANGED <<repository, gap>>

Begin(p) ==
    /\ pc[p] = "idle"
    /\ \E k \in Kind : kind' = [kind EXCEPT ![p] = k]
    /\ since' = [since EXCEPT ![p] = edits]
    /\ Goto(p, "exists")
    /\ UNCHANGED <<repository, handle, held, attempt, collected, gap>>

\* The control directory exists, or a lease does without, or apply makes one.
Exists(p) ==
    /\ pc[p] = "exists"
    /\ \/ ns # 0 /\ Goto(p, "handle") /\ UNCHANGED <<ns, made>>
       \/ ns = 0 /\ kind[p] \in Reader /\ Goto(p, "admit") /\ UNCHANGED <<ns, made>>
       \/ /\ ns = 0 /\ kind[p] = "apply" /\ made < MaxInode
          /\ ns' = made + 1
          /\ made' = made + 1
          /\ Goto(p, "handle")
    /\ UNCHANGED <<pending, files, edits, lease, collected, gap>>

OpenDirectory(p) ==
    /\ pc[p] = "handle"
    /\ ns # 0
    /\ handle' = [handle EXCEPT ![p] = ns]
    /\ Goto(p, "flock")
    /\ UNCHANGED <<repository, kind, held, attempt, since, collected, gap>>

Mode(p) == IF kind[p] \in Reader THEN "shared" ELSE "exclusive"

\* LOCK_EX excludes every other lock on the same directory, LOCK_SH excludes
\* LOCK_EX; a lock that cannot be had at once is ErrBusy, and the call ends.
Free(p) ==
    \A q \in Process \ {p} :
      handle[q] = handle[p] /\ held[q] # "none" =>
        held[q] = "shared" /\ Mode(p) = "shared"

Lock(p) ==
    /\ pc[p] = "flock"
    /\ Free(p)
    /\ held' = [held EXCEPT ![p] = Mode(p)]
    /\ Goto(p, CASE kind[p] \in Reader -> "admit"
                 [] kind[p] = "apply" -> "prepare"
                 [] kind[p] = "recover" -> "inspect")
    /\ UNCHANGED <<repository, kind, handle, attempt, since, collected, gap>>

Admit(p) ==
    /\ pc[p] = "admit"
    /\ Verified(p)
    /\ Goto(p, "control")
    /\ UNCHANGED <<repository, lease, collected, gap>>

\* A call ends on success, on an error, by cancellation or with its process.
\* Busy locks and refusals end here as well.
Leave(p) ==
    /\ pc[p] # "idle"
    /\ Goto(p, "idle")
    /\ kind' = [kind EXCEPT ![p] = "plan"]
    /\ attempt' = [attempt EXCEPT ![p] = 1]
    /\ since' = [since EXCEPT ![p] = 0]
    /\ Forget(p)

-----------------------------------------------------------------------------
(* Planning: buildPlanWithDependencies *)

\* Without a lock the pending state is not even looked at.
NoPendingWork(p) ==
    /\ At(p, "plan", "control")
    /\ handle[p] # 0 => ~pending /\ Verified(p)
    /\ Goto(p, "read")
    /\ UNCHANGED <<repository, lease, collected, gap>>

Read(p) ==
    /\ pc[p] = "read"
    /\ next[p] \in Target
    /\ reads' = [reads EXCEPT ![p][next[p]] = files[next[p]]]
    /\ next' = [next EXCEPT ![p] = next[p] + 1]
    /\ UNCHANGED <<repository, lease, pc, saw, mid, gap>>

Plan(p) ==
    /\ At(p, "plan", "read")
    /\ next[p] \notin Target
    /\ Verified(p)
    /\ Goto(p, "done")
    /\ UNCHANGED <<repository, lease, collected, gap>>

-----------------------------------------------------------------------------
(* Inspecting the status: inspectAttempt *)

\* A clean control state lets the files be read; any other is the answer.
InspectControl(p) ==
    /\ At(p, "status", "control")
    /\ Verified(p)
    /\ saw' = [saw EXCEPT ![p] = pending]
    /\ Goto(p, IF pending THEN "recheck" ELSE "read")
    /\ UNCHANGED <<repository, lease, next, reads, mid, gap>>

EndFirstPass(p) ==
    /\ At(p, "status", "read")
    /\ next[p] \notin Target
    /\ next' = [next EXCEPT ![p] = 1]
    /\ mid' = [mid EXCEPT ![p] = files]
    /\ Goto(p, "verify")
    /\ UNCHANGED <<repository, lease, reads, saw, gap>>

OnlyLastVariant(p) == next[p] = N => files[next[p]] = reads[p][next[p]]
Unchanged(p) == files[next[p]] = reads[p][next[p]]

\* verifyCohort reads every file again.
Reread(p) ==
    /\ At(p, "status", "verify")
    /\ next[p] \in Target
    /\ Unchanged(p)
    /\ next' = [next EXCEPT ![p] = next[p] + 1]
    /\ UNCHANGED <<repository, lease, pc, reads, saw, mid, gap>>

EndSecondPass(p) ==
    /\ At(p, "status", "verify")
    /\ next[p] \notin Target
    /\ Goto(p, "recheck")
    /\ UNCHANGED <<repository, lease, collected, gap>>

Status(p) ==
    /\ At(p, "status", "recheck")
    /\ Verified(p)
    /\ pending = saw[p]
    /\ Goto(p, "done")
    /\ UNCHANGED <<repository, lease, collected, gap>>

\* One more attempt after a change was noticed.
Changed(p) ==
    \/ pc[p] \in {"admit", "control", "recheck"} /\ ~Verified(p)
    \/ pc[p] = "verify" /\ next[p] \in Target /\ ~Unchanged(p)
    \/ pc[p] = "recheck" /\ pending # saw[p]

Retry(p) ==
    /\ kind[p] = "status"
    /\ attempt[p] = 1
    /\ Changed(p)
    /\ attempt' = [attempt EXCEPT ![p] = 2]
    /\ Goto(p, "exists")
    /\ Forget(p)
    /\ UNCHANGED <<kind, since>>

-----------------------------------------------------------------------------
(* Applying and recovering *)

\* verifyRoutes before anything is made ...
Prepare(p) ==
    /\ At(p, "apply", "prepare")
    /\ Verified(p)
    /\ ~pending
    /\ Goto(p, "check")
    /\ UNCHANGED <<repository, lease, collected, gap>>

\* ... and for the last time before the rename.  Between the two lie the private
\* directory and the journal in it, beside the control directory.
RoutesNotPinnedVariant(p) == ~pending
RoutesHold(p) == Verified(p) /\ ~pending

CheckRoutes(p) ==
    /\ At(p, "apply", "check")
    /\ RoutesHold(p)
    /\ Goto(p, "rename")
    /\ UNCHANGED <<repository, lease, collected, gap>>

\* The rename publishes the journal in whatever directory is at the path by now:
\* it needs one, without an active directory in it, and nothing else.
Publish(p) ==
    /\ At(p, "apply", "rename")
    /\ ns # 0 /\ ~pending
    /\ pending' = TRUE
    /\ Goto(p, "write")
    /\ UNCHANGED <<ns, made, files, edits, lease, collected, gap>>

\* recover does not look at the route again once it has the lock.
Recover(p) ==
    /\ At(p, "recover", "inspect")
    /\ pending
    /\ Goto(p, "write")
    /\ UNCHANGED <<repository, lease, collected, gap>>

Write(p) ==
    /\ pc[p] = "write"
    /\ \E t \in Target, c \in Content : files' = [files EXCEPT ![t] = c]
    /\ UNCHANGED <<ns, made, pending, edits, lease, pc, collected, gap>>

Finish(p) ==
    /\ pc[p] = "write"
    /\ pending' = FALSE
    /\ Goto(p, "done")
    /\ UNCHANGED <<ns, made, files, edits, lease, collected, gap>>

-----------------------------------------------------------------------------
(* The surroundings *)

Edit ==
    /\ edits < MaxEdits
    /\ edits' = edits + 1
    /\ \E t \in Target : files' = [files EXCEPT ![t] = <<"foreign", edits + 1>>]
    /\ UNCHANGED <<ns, made, pending, lease, pc, collected, gap>>

\* Nobody moves a control directory with pending work, nor while it is being
\* recovered: the recovery could not tell.
Movable == ns # 0 /\ ~pending /\ \A p \in Process : pc[p] # "idle" => kind[p] # "recover"

Renaming == \E p \in Process : pc[p] = "rename"

Replace ==
    /\ Movable
    /\ made < MaxInode
    /\ ns' = made + 1
    /\ made' = made + 1
    /\ gap' = (gap \/ Renaming)
    /\ UNCHANGED <<pending, files, edits, lease, pc, collected>>

\* Nor does anybody take it away for good while a reader relies on there being
\* none: that reader would miss all that happened in between.
Unlocked(p) ==
    /\ kind[p] \in Reader
    /\ pc[p] \notin {"idle", "exists", "handle"}
    /\ handle[p] = 0

Remove ==
    /\ Movable
    /\ \A p \in Process : ~Unlocked(p)
    /\ ns' = 0
    /\ gap' = (gap \/ Renaming)
    /\ UNCHANGED <<made, pending, files, edits, lease, pc, collected>>

-----------------------------------------------------------------------------
Init ==
    /\ ns \in {0, 1}
    /\ made = ns
    /\ pending \in {FALSE, ns = 1}
    /\ files \in [Target -> Content]
    /\ edits = 0
    /\ kind = [p \in Process |-> "plan"]
    /\ pc = [p \in Process |-> "idle"]
    /\ handle = [p \in Process |-> 0]
    /\ held = [p \in Process |-> "none"]
    /\ next = [p \in Process |-> 1]
    /\ reads = [p \in Process |-> Blank]
    /\ saw = [p \in Process |-> FALSE]
    /\ attempt = [p \in Process |-> 1]
    /\ since = [p \in Process |-> 0]
    /\ mid = [p \in Process |-> Blank]
    /\ gap = FALSE

Step(p) ==
    \/ Begin(p) \/ Exists(p) \/ OpenDirectory(p) \/ Lock(p) \/ Admit(p) \/ Leave(p)
    \/ NoPendingWork(p) \/ Read(p) \/ Plan(p)
    \/ InspectControl(p) \/ EndFirstPass(p) \/ Reread(p) \/ EndSecondPass(p)
    \/ Status(p) \/ Retry(p)
    \/ Prepare(p) \/ CheckRoutes(p) \/ Publish(p) \/ Recover(p) \/ Write(p) \/ Finish(p)

Next == (\E p \in Process : Step(p)) \/ Edit \/ Replace \/ Remove

Spec == Init /\ [][Next]_vars

-----------------------------------------------------------------------------
(* Properties *)

\* The variables keep to their ranges; only a call that opened a control
\* directory holds a lock (inspection_lease.go, 81-129; lock.go, 17-63).
LeaseTypeOK ==
    /\ ns \in 0 .. made
    /\ made \in 0 .. MaxInode
    /\ pending \in BOOLEAN
    /\ files \in Files
    /\ edits \in 0 .. MaxEdits
    /\ kind \in [Process -> Kind]
    /\ \A p \in Process : held[p] # "none" => held[p] = Mode(p) /\ handle[p] # 0
    /\ handle \in [Process -> 0 .. made]
    /\ next \in [Process -> 1 .. N + 1]
    /\ reads \in [Process -> Reads]
    /\ mid \in [Process -> Reads]
    /\ attempt \in [Process -> {1, 2}]
    /\ gap \in BOOLEAN

\* Whoever writes targets does so for a journal that is published in the
\* control directory at its path, and holds the exclusive lock of exactly that
\* directory: so there is one writer, whatever happens to the directory after
\* the lock, unless it is moved in the one gap that the code leaves open, where
\* the rename follows the last check (preparation.go, 57-84 and 145-150).
WriterOwnsNamespace ==
    ~gap =>
      \A p \in Process :
        pc[p] = "write" =>
          /\ pending
          /\ handle[p] = ns
          /\ held[p] = "exclusive"
          /\ \A q \in Process \ {p} : handle[q] = ns => held[q] = "none"

PlannedAtOnce ==
    \A p \in Process :
      /\ ~gap
      /\ At(p, "plan", "read")
      /\ pc'[p] = "done"
      /\ edits = since[p]
      => reads[p] = files /\ ~pending

\* The targets a plan is built from are those of one moment with no pending
\* work, the moment of its last check, although it reads them one by one and
\* perhaps without any lock.  Only a foreign edit can spoil it, and a writer that
\* lost its control directory in the gap; apply compares the targets again
\* (plan.go, 85-98 and 202-204).
PlanSeesOneMoment == [][PlannedAtOnce]_vars

InspectedAtOnce ==
    \A p \in Process :
      /\ ~gap
      /\ At(p, "status", "recheck")
      /\ pc'[p] = "done"
      => (pending <=> saw[p]) /\ (~pending => reads[p] = mid[p])

\* A status is about one moment even when files are edited meanwhile: clean
\* control state and the files as they were between the two passes, or pending
\* work; it too trusts that no writer slipped through the gap
\* (projectstatus/inspect.go, 75-137).
StatusSeesOneMoment == [][InspectedAtOnce]_vars

=============================================================================

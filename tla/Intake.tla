------------------------------- MODULE Intake -------------------------------
(* Uploads (api/v1/documents.py): quota, sandbox file, task row, start of  *)
(* the review, and who sees the task afterwards (services/tenant.py).      *)
EXTENDS Naturals, FiniteSets

CONSTANTS Workers, Members,
          OrgOf, RoleOf,       \* organization_id and role of each member
          SuperAdmins,         \* members with the flag is_super_admin, set by hand
          Orgs, Teams, NoOrg, NoMember,
          Uploads,             \* bound: task ids, 1..n
          FreeTrialLimit

VARIABLES plan, file, task, running, up,
          overlap, failed, restarts, accepted   \* history

intake == <<plan, file, task, running, up, overlap, failed, restarts, accepted>>

Roles == {"submitter", "supervisor", "admin"}   \* the other two see what a submitter sees
Tiers == {"free", "pro"}      \* "pro" for every tier that is paid

ASSUME IntakeAssumption ==
    /\ OrgOf \in [Members -> Orgs \cup {NoOrg}] /\ RoleOf \in [Members -> Roles]
    /\ SuperAdmins \subseteq Members
    /\ Teams \subseteq Orgs /\ NoOrg \notin Orgs /\ NoMember \notin Members
    /\ Uploads \subseteq Nat \ {0} /\ FreeTrialLimit \in Nat

NoTask == 0
Plan == [row : BOOLEAN, used : Nat, tier : Tiers]
ReviewTask == [st : {"none", "parsing", "done", "failed"}, by : Members \cup {NoMember},
               document : BOOLEAN, audit : BOOLEAN]
(* What an upload in progress has read of the plan, and its task id.       *)
Upload == [pc : {"idle", "checked", "saved"}, by : Members \cup {NoMember},
           plan : Plan, task : Uploads \cup {NoTask}]

NoPlanRow == [row |-> FALSE, used |-> 0, tier |-> "free"]
NoReview == [st |-> "none", by |-> NoMember, document |-> FALSE, audit |-> FALSE]
NoUpload == [pc |-> "idle", by |-> NoMember, plan |-> NoPlanRow, task |-> NoTask]

InitIntake ==
    /\ plan = [m \in Members |-> NoPlanRow]
    /\ file = {} /\ running = {}
    /\ task = [t \in Uploads |-> NoReview]
    /\ up = [w \in Workers |-> NoUpload]
    /\ overlap = FALSE /\ failed = FALSE /\ restarts = 0
    /\ accepted = [m \in Members |-> 0]
-----------------------------------------------------------------------------
(* --- quota ------------------------------------------------------------- *)

IsUnlimited(p) == p.tier = "pro"
Remaining(p) == IF p.used >= FreeTrialLimit THEN 0 ELSE FreeTrialLimit - p.used
CheckQuota(p) == IsUnlimited(p) \/ Remaining(p) > 0

(* Fault: nothing is counted.                                             *)
ConsumeNothing(row, read) == IF IsUnlimited(read) THEN row ELSE [row EXCEPT !.row = TRUE]

(* consume writes one more than it has read; a plan that is not limited is *)
(* not written.                                                            *)
Consume(row, read) ==
    IF IsUnlimited(read) THEN row ELSE [row EXCEPT !.row = TRUE, !.used = read.used + 1]

(* Settling an order or refunding it (module Payment) writes the tier.     *)
SetTier(m, tier) ==
    /\ plan[m].tier # tier
    /\ plan' = [plan EXCEPT ![m].row = TRUE, ![m].tier = tier]
    /\ UNCHANGED <<file, task, running, up, overlap, failed, restarts, accepted>>

(* --- upload ------------------------------------------------------------ *)

(* The plan is read, or inserted, and the limit checked.                   *)
BeginUpload(w, m) ==
    /\ up[w].pc = "idle" /\ CheckQuota(plan[m])
    /\ up' = [up EXCEPT ![w] = [NoUpload EXCEPT !.pc = "checked", !.by = m, !.plan = plan[m]]]
    /\ overlap' = (overlap \/ \E v \in Workers : up[v].pc # "idle")
    /\ UNCHANGED <<plan, file, task, running, failed, restarts, accepted>>

(* The plan is flushed, which waits for another upload of this member that *)
(* has flushed it and fails if that one has inserted it meanwhile; then    *)
(* save_upload writes the file under a new task id.                        *)
Locked(w) == \E v \in Workers \ {w} : up[v].pc = "saved" /\ up[v].by = up[w].by
                                      /\ ~IsUnlimited(up[v].plan) /\ ~IsUnlimited(up[w].plan)
NewTask == {t \in Uploads \ file : \A s \in Uploads \ file : t <= s}
SaveUpload(w) ==
    /\ up[w].pc = "checked" /\ ~Locked(w)
    /\ plan[up[w].by].row => (up[w].plan.row \/ IsUnlimited(up[w].plan))
    /\ \E t \in NewTask :
        /\ file' = file \cup {t}
        /\ up' = [up EXCEPT ![w].pc = "saved", ![w].task = t]
    /\ UNCHANGED <<plan, task, running, overlap, failed, restarts, accepted>>

(* Task, document, audit and plan in one commit; then create_task.         *)
UploadRow(m) == [st |-> "parsing", by |-> m, document |-> TRUE, audit |-> TRUE]
CommitUpload(w) ==
    LET u == up[w] IN
    /\ u.pc = "saved" /\ OrgOf[u.by] # NoOrg
    /\ plan' = [plan EXCEPT ![u.by] = Consume(@, u.plan)]
    /\ task' = [task EXCEPT ![u.task] = UploadRow(u.by)]
    /\ running' = running \cup {u.task}
    /\ accepted' = [accepted EXCEPT ![u.by] = @ + IF IsUnlimited(u.plan) THEN 0 ELSE 1]
    /\ up' = [up EXCEPT ![w] = NoUpload]
    /\ UNCHANGED <<file, overlap, failed, restarts>>

(* Empty or refused file, no organisation, a conflict: the session rolls   *)
(* back, what save_upload has written stays.                               *)
RollBack(rows) == rows
AbortUpload(w) ==
    /\ up[w].pc # "idle"
    /\ up' = [up EXCEPT ![w] = NoUpload] /\ failed' = TRUE
    /\ plan' = RollBack(plan)
    /\ UNCHANGED <<file, task, running, overlap, restarts, accepted>>

(* Fault: the row keeps its status.                                       *)
EndUnwritten(t, st) ==
    /\ t \in running
    /\ running' = running \ {t}
    /\ UNCHANGED <<plan, file, task, up, overlap, failed, restarts, accepted>>

(* The review's last node, or its exception handler, writes the task row   *)
(* ("done": ended for a human to look at).                                 *)
EndReview(t, st) ==
    /\ t \in running
    /\ running' = running \ {t}
    /\ task' = [task EXCEPT ![t].st = st]
    /\ UNCHANGED <<plan, file, up, overlap, failed, restarts, accepted>>

(* A restart takes requests and asyncio tasks with it.                     *)
RestartIntake ==
    /\ running' = {}
    /\ up' = [w \in Workers |-> NoUpload]
    /\ failed' = (failed \/ up # up') /\ restarts' = restarts + 1
    /\ UNCHANGED <<plan, file, task, overlap, accepted>>
-----------------------------------------------------------------------------
(* --- who sees a task --------------------------------------------------- *)

IsTeamOrg(o) == o \in Teams
IsSuperAdmin(m) == m \in SuperAdmins \/ RoleOf[m] = "admin"
IsTeam(m) == IsTeamOrg(OrgOf[m]) /\ ~IsSuperAdmin(m)     \* get_tenant_context

(* apply_org_filter_with_column, as list_tasks uses it                     *)
Listed(m, t) ==
    /\ task[t].st # "none"
    /\ \/ IsSuperAdmin(m)
       \/ IsTeamOrg(OrgOf[m]) /\ OrgOf[task[t].by] = OrgOf[m]
       \/ ~IsTeamOrg(OrgOf[m]) /\ task[t].by = m

(* global_search: tasks, documents and reports are filtered alike          *)
Found(m, t) ==
    /\ task[t].st # "none"
    /\ RoleOf[m] \in {"supervisor", "admin"} \/ task[t].by = m

(* Fault: nobody opens what a colleague has uploaded.                     *)
MayOpenOwn(m, t) == task[t].st # "none" /\ (RoleOf[m] \in {"supervisor", "admin"} \/ task[t].by = m)

(* _load_task, in front of every other route of tasks.py                   *)
MayOpen(m, t) ==
    /\ task[t].st # "none"
    /\ \/ RoleOf[m] \in {"supervisor", "admin"} \/ IsSuperAdmin(m)
       \/ IsTeam(m) /\ OrgOf[task[t].by] = OrgOf[m]
       \/ ~IsTeam(m) /\ task[t].by = m
-----------------------------------------------------------------------------
IntakeOK ==
    /\ plan \in [Members -> Plan] /\ file \subseteq Uploads /\ running \subseteq Uploads
    /\ task \in [Uploads -> ReviewTask] /\ up \in [Workers -> Upload]
    /\ overlap \in BOOLEAN /\ failed \in BOOLEAN /\ restarts \in Nat
    /\ accepted \in [Members -> Nat]

(* Nobody is charged for an upload that was not accepted, whichever        *)
(* overlap, fail or are cut off; and without overlap nobody is accepted    *)
(* that is not charged, and the free trial is never exceeded.              *)
TrialIsCharged ==
    \A m \in Members :
        /\ plan[m].used <= accepted[m]
        /\ ~overlap => plan[m].used = accepted[m] /\ accepted[m] <= FreeTrialLimit

(* A review runs only for a task whose rows are committed and whose file   *)
(* is there; a task without an end is being reviewed, unless a restart has *)
(* cut it off; and a file without a task is left by a failed upload.       *)
UploadsWhole ==
    /\ \A t \in Uploads : task[t].st # "none" =>
        /\ t \in file /\ task[t].document /\ task[t].audit /\ OrgOf[task[t].by] # NoOrg
        /\ task[t].st = "parsing" => t \in running \/ restarts > 0
    /\ \A t \in running : task[t].st = "parsing"
    /\ \A t \in file : task[t].st # "none" \/ failed \/ \E w \in Workers : up[w].task = t

(* Whatever the list or the search shows a member, the member can open:    *)
(* three pieces of code decide who sees a task, each in its own way.       *)
ListedCanBeOpened ==
    \A m \in Members, t \in Uploads : Listed(m, t) \/ Found(m, t) => MayOpen(m, t)
=============================================================================

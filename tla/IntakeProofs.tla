---------------------------- MODULE IntakeProofs ----------------------------
(* What every step of module Intake keeps, whatever surrounds it (module   *)
(* PlatformProofs): lemmas for any number of uploads, members and limits.  *)
EXTENDS Intake, TLAPS

USE DEF Tiers, Roles, NoTask

IntakeStep ==
    \/ \E m \in Members, tier \in Tiers : SetTier(m, tier)
    \/ \E w \in Workers : \/ \E m \in Members : BeginUpload(w, m)
                          \/ SaveUpload(w) \/ CommitUpload(w) \/ AbortUpload(w)
    \/ \E t \in Uploads, st \in {"done", "failed"} : EndReview(t, st)
    \/ RestartIntake
    \/ UNCHANGED intake

(* An upload under way has a member, and past the flush a file of its own  *)
(* under an id without a task.                                             *)
UploadHolds(w) ==
    /\ up[w].pc # "idle" => up[w].by \in Members
    /\ up[w].pc # "saved" => up[w].task = NoTask
    /\ up[w].pc = "saved" =>
        /\ up[w].task \in file /\ task[up[w].task].st = "none"
        /\ \A v \in Workers : up[v].task = up[w].task => v = w

TaskWhole(t) ==
    /\ task[t].st # "none" =>
        /\ t \in file /\ task[t].document /\ task[t].audit
        /\ task[t].by \in Members /\ OrgOf[task[t].by] # NoOrg
        /\ task[t].st = "parsing" => t \in running \/ restarts > 0
    /\ t \in running => task[t].st = "parsing"
    /\ t \in file => task[t].st # "none" \/ failed \/ \E w \in Workers : up[w].task = t

(* What an upload has read is at most what has been accepted, and what is  *)
(* stored while uploads do not overlap.                                    *)
Charged ==
    /\ \A m \in Members : plan[m].used <= accepted[m]
    /\ \A w \in Workers : up[w].pc # "idle" => up[w].plan.used <= accepted[up[w].by]

ChargedAlone ==
    ~overlap =>
        /\ \A m \in Members : plan[m].used = accepted[m] /\ accepted[m] <= FreeTrialLimit
        /\ \A v, w \in Workers : up[v].pc # "idle" /\ up[w].pc # "idle" => v = w
        /\ \A w \in Workers : up[w].pc # "idle" =>
                up[w].plan.used = plan[up[w].by].used /\ CheckQuota(up[w].plan)

IntakeInv ==
    /\ IntakeOK
    /\ \A w \in Workers : UploadHolds(w)
    /\ \A t \in Uploads : TaskWhole(t)
    /\ Charged /\ ChargedAlone

LEMMA IntakeTypes ==
    /\ NoPlanRow \in Plan /\ NoReview \in ReviewTask /\ NoUpload \in Upload
    /\ NoTask \notin Uploads /\ NoUpload.pc = "idle" /\ NoUpload.task = NoTask
BY IntakeAssumption DEF NoPlanRow, NoReview, NoUpload, Plan, ReviewTask, Upload

LEMMA IntakeInit == InitIntake => IntakeInv
<1> SUFFICES ASSUME InitIntake PROVE IntakeInv
  OBVIOUS
<1>1. /\ plan = [m \in Members |-> NoPlanRow] /\ file = {} /\ running = {}
      /\ task = [t \in Uploads |-> NoReview] /\ up = [w \in Workers |-> NoUpload]
      /\ overlap = FALSE /\ failed = FALSE /\ restarts = 0
      /\ accepted = [m \in Members |-> 0]
  BY DEF InitIntake
<1>2. IntakeOK
  BY <1>1, IntakeTypes DEF IntakeOK
<1>3. \A w \in Workers : up[w].pc = "idle" /\ up[w].task = NoTask
  BY <1>1, IntakeTypes
<1>4. \A t \in Uploads : task[t].st = "none"
  BY <1>1 DEF NoReview
<1>5. \A m \in Members : plan[m].used = 0 /\ accepted[m] = 0
  BY <1>1 DEF NoPlanRow
<1>6. \A w \in Workers : UploadHolds(w)
  BY <1>3 DEF UploadHolds
<1>7. \A t \in Uploads : TaskWhole(t)
  BY <1>1, <1>4 DEF TaskWhole
<1>8. FreeTrialLimit \in Nat
  BY IntakeAssumption
<1>9. Charged /\ ChargedAlone
  BY <1>3, <1>5, <1>8 DEF Charged, ChargedAlone
<1> QED
  BY <1>2, <1>6, <1>7, <1>9 DEF IntakeInv

LEMMA TierKeeps ==
    ASSUME IntakeInv, NEW m \in Members, NEW tier \in Tiers, SetTier(m, tier)
    PROVE  IntakeInv'
<1>1. /\ plan' = [plan EXCEPT ![m].row = TRUE, ![m].tier = tier]
      /\ UNCHANGED <<file, task, running, up, overlap, failed, restarts, accepted>>
  BY DEF SetTier
<1>2. plan \in [Members -> Plan]
  BY DEF IntakeInv, IntakeOK
<1>3. plan' \in [Members -> Plan] /\ \A a \in Members : plan'[a].used = plan[a].used
  BY <1>1, <1>2 DEF Plan
<1>4. IntakeOK'
  BY <1>1, <1>3 DEF IntakeInv, IntakeOK
<1>5. Charged' /\ ChargedAlone'
  BY <1>1, <1>3 DEF IntakeInv, Charged, ChargedAlone, UploadHolds
<1> QED
  BY <1>1, <1>4, <1>5 DEF IntakeInv, UploadHolds, TaskWhole

LEMMA BeginKeeps ==
    ASSUME IntakeInv, NEW w \in Workers, NEW m \in Members, BeginUpload(w, m)
    PROVE  IntakeInv'
<1>1. PICK q : q = [NoUpload EXCEPT !.pc = "checked", !.by = m, !.plan = plan[m]]
  OBVIOUS
<1>2. /\ q \in Upload /\ q.pc = "checked" /\ q.by = m /\ q.plan = plan[m] /\ q.task = NoTask
  BY <1>1, IntakeTypes DEF Upload, IntakeInv, IntakeOK
<1>3. /\ up[w].pc = "idle" /\ CheckQuota(plan[m]) /\ up' = [up EXCEPT ![w] = q]
      /\ overlap' = (overlap \/ \E v \in Workers : up[v].pc # "idle")
      /\ UNCHANGED <<plan, file, task, running, failed, restarts, accepted>>
  BY <1>1 DEF BeginUpload
<1>4. up \in [Workers -> Upload] /\ up'[w] = q /\ \A v \in Workers : v # w => up'[v] = up[v]
  BY <1>3 DEF IntakeInv, IntakeOK
<1>5. IntakeOK'
  BY <1>2, <1>3, <1>4 DEF IntakeInv, IntakeOK
<1>6. \A v \in Workers : UploadHolds(v)'
  <2>1. \A v \in Workers : UploadHolds(v) /\ up'[v].task = up[v].task
    BY <1>2, <1>3, <1>4 DEF IntakeInv, UploadHolds
  <2> QED
    BY <1>2, <1>3, <1>4, <2>1 DEF UploadHolds
<1>7. \A t \in Uploads : TaskWhole(t)'
  <2>1. \A v \in Workers : up'[v].task = up[v].task
    BY <1>2, <1>3, <1>4 DEF IntakeInv, UploadHolds
  <2> QED
    BY <1>3, <2>1 DEF IntakeInv, TaskWhole
<1>8. Charged'
  BY <1>2, <1>3, <1>4 DEF IntakeInv, Charged
<1>9. ChargedAlone'
  <2> SUFFICES ASSUME ~overlap' PROVE ChargedAlone'
    BY DEF ChargedAlone
  <2>1. ~overlap /\ \A v \in Workers : up[v].pc = "idle"
    BY <1>3
  <2>2. \A v \in Workers : v # w => up'[v].pc = "idle"
    BY <1>4, <2>1
  <2>3. CheckQuota(plan[m])
    BY <1>3
  <2>4. \A v, x \in Workers : up'[v].pc # "idle" /\ up'[x].pc # "idle" => v = x
    BY <2>2
  <2> QED
    BY <1>2, <1>3, <1>4, <2>1, <2>2, <2>3, <2>4
       DEF IntakeInv, ChargedAlone, CheckQuota, IsUnlimited, Remaining
<1> QED
  BY <1>5, <1>6, <1>7, <1>8, <1>9 DEF IntakeInv

LEMMA SaveKeeps ==
    ASSUME IntakeInv, NEW w \in Workers, SaveUpload(w)
    PROVE  IntakeInv'
<1>1. PICK t \in NewTask : file' = file \cup {t} /\ up' = [up EXCEPT ![w].pc = "saved", ![w].task = t]
  BY DEF SaveUpload
<1>2. t \in Uploads /\ t \notin file /\ t # NoTask /\ up[w].pc = "checked"
      /\ UNCHANGED <<plan, task, running, overlap, failed, restarts, accepted>>
  BY <1>1, IntakeTypes DEF NewTask, SaveUpload
<1>3. up \in [Workers -> Upload]
  BY DEF IntakeInv, IntakeOK
<1>4. /\ up'[w].pc = "saved" /\ up'[w].task = t /\ up'[w].by = up[w].by /\ up'[w].plan = up[w].plan
      /\ up' \in [Workers -> Upload] /\ \A v \in Workers : v # w => up'[v] = up[v]
  BY <1>1, <1>2, <1>3 DEF Upload
<1>5. IntakeOK'
  BY <1>1, <1>2, <1>4 DEF IntakeInv, IntakeOK
<1>6. task[t].st = "none" /\ \A v \in Workers : up[v].task # t
  BY <1>2 DEF IntakeInv, TaskWhole, UploadHolds
<1>7. \A v \in Workers : UploadHolds(v)'
  BY <1>1, <1>2, <1>4, <1>6 DEF IntakeInv, UploadHolds
<1>8. \A s \in Uploads : TaskWhole(s)'
  <2>1. up[w].task = NoTask
    BY <1>2 DEF IntakeInv, UploadHolds
  <2>2. \A s \in Uploads, v \in Workers : up[v].task = s => up'[v].task = s
    BY <1>4, <2>1, IntakeTypes
  <2> QED
    BY <1>1, <1>2, <1>4, <2>2 DEF IntakeInv, TaskWhole
<1>9. Charged' /\ ChargedAlone'
  BY <1>2, <1>4 DEF IntakeInv, Charged, ChargedAlone
<1> QED
  BY <1>5, <1>7, <1>8, <1>9 DEF IntakeInv

LEMMA CommitKeeps ==
    ASSUME IntakeInv, NEW w \in Workers, CommitUpload(w)
    PROVE  IntakeInv'
<1>1. PICK m, q, t : m = up[w].by /\ q = up[w].plan /\ t = up[w].task
  OBVIOUS
<1>2. /\ up[w].pc = "saved" /\ m \in Members /\ q \in Plan /\ t \in Uploads /\ t \in file /\ task[t].st = "none"
      /\ OrgOf[m] # NoOrg /\ up[w].by = m /\ up[w].task = t
  BY <1>1 DEF CommitUpload, IntakeInv, IntakeOK, UploadHolds, Upload
<1>3. /\ plan' = [plan EXCEPT ![m] = Consume(@, q)]
      /\ task' = [task EXCEPT ![t] = UploadRow(m)]
      /\ running' = running \cup {t}
      /\ accepted' = [accepted EXCEPT ![m] = @ + IF IsUnlimited(q) THEN 0 ELSE 1]
      /\ up' = [up EXCEPT ![w] = NoUpload]
      /\ UNCHANGED <<file, overlap, failed, restarts>>
  BY <1>1 DEF CommitUpload
<1>4. /\ plan \in [Members -> Plan] /\ task \in [Uploads -> ReviewTask] /\ up \in [Workers -> Upload]
      /\ accepted \in [Members -> Nat]
  BY DEF IntakeInv, IntakeOK
<1>5. PICK row, r : row = UploadRow(m) /\ r = Consume(plan[m], q)
  OBVIOUS
<1>6. row \in ReviewTask /\ row.st = "parsing" /\ row.document /\ row.audit /\ row.by = m
  BY <1>2, <1>5 DEF UploadRow, ReviewTask
<1>7. r \in Plan /\ r.used = IF IsUnlimited(q) THEN plan[m].used ELSE q.used + 1
  <2>1. plan[m] \in Plan /\ q.used + 1 \in Nat
    BY <1>2, <1>4 DEF Plan
  <2>2. CASE IsUnlimited(q)
    BY <1>5, <2>1, <2>2 DEF Consume
  <2>3. CASE ~IsUnlimited(q)
    <3>1. r = [plan[m] EXCEPT !.row = TRUE, !.used = q.used + 1]
      BY <1>5, <2>3 DEF Consume
    <3> QED
      BY <2>1, <2>3, <3>1 DEF Plan
  <2> QED
    BY <2>2, <2>3
<1>8. /\ plan' \in [Members -> Plan] /\ plan'[m] = r /\ \A a \in Members : a # m => plan'[a] = plan[a]
      /\ task' \in [Uploads -> ReviewTask] /\ task'[t] = row /\ \A s \in Uploads : s # t => task'[s] = task[s]
      /\ accepted' \in [Members -> Nat] /\ \A a \in Members : a # m => accepted'[a] = accepted[a]
      /\ accepted'[m] = accepted[m] + IF IsUnlimited(q) THEN 0 ELSE 1
      /\ up' \in [Workers -> Upload] /\ up'[w] = NoUpload /\ \A v \in Workers : v # w => up'[v] = up[v]
  BY <1>2, <1>3, <1>4, <1>5, <1>6, <1>7, IntakeTypes
<1>9. IntakeOK'
  BY <1>2, <1>3, <1>8 DEF IntakeInv, IntakeOK
<1>10. \A v \in Workers : UploadHolds(v)'
  <2>1. \A v \in Workers : v # w => up[v].task # t
    BY <1>2 DEF IntakeInv, UploadHolds
  <2> QED
    BY <1>2, <1>3, <1>8, <2>1, IntakeTypes DEF IntakeInv, IntakeOK, UploadHolds
<1>11. \A s \in Uploads : TaskWhole(s)'
  BY <1>2, <1>3, <1>6, <1>8 DEF IntakeInv, TaskWhole
<1>12. Charged'
  <2>1. q.used <= accepted[m] /\ q.used \in Nat /\ plan[m].used <= accepted[m]
    BY <1>1, <1>2 DEF IntakeInv, Charged, Plan
  <2>2. \A a \in Members : plan'[a].used <= accepted'[a]
    BY <1>4, <1>7, <1>8, <2>1 DEF IntakeInv, Charged
  <2>3. \A a \in Members : accepted[a] <= accepted'[a] /\ accepted[a] \in Nat /\ accepted'[a] \in Nat
    BY <1>4, <1>8
  <2>4. ASSUME NEW v \in Workers, up'[v].pc # "idle" PROVE up'[v].plan.used <= accepted'[up'[v].by]
    <3>1. up'[v] = up[v] /\ up[v].by \in Members /\ up[v].plan.used \in Nat
      BY <1>4, <1>8, <2>4, IntakeTypes DEF IntakeInv, UploadHolds, Upload, Plan
    <3>2. up[v].plan.used <= accepted[up[v].by]
      BY <2>4, <3>1 DEF IntakeInv, Charged
    <3> QED
      BY <2>3, <3>1, <3>2
  <2> QED
    BY <2>2, <2>4 DEF Charged
<1>13. ChargedAlone'
  <2> SUFFICES ASSUME ~overlap PROVE ChargedAlone'
    BY <1>3 DEF ChargedAlone
  <2>1. /\ \A a \in Members : plan[a].used = accepted[a] /\ accepted[a] <= FreeTrialLimit
        /\ q.used = plan[m].used /\ CheckQuota(q)
        /\ \A v \in Workers : v # w => up[v].pc = "idle"
    BY <1>1, <1>2 DEF IntakeInv, ChargedAlone
  <2>2. ~IsUnlimited(q) => q.used + 1 <= FreeTrialLimit
    BY <1>2, <2>1, IntakeAssumption DEF CheckQuota, Remaining, Plan
  <2>3. \A a \in Members : plan'[a].used = accepted'[a] /\ accepted'[a] <= FreeTrialLimit
    BY <1>2, <1>4, <1>7, <1>8, <2>1, <2>2
  <2>4. \A v \in Workers : up'[v].pc = "idle"
    BY <1>8, <2>1, IntakeTypes
  <2> QED
    BY <2>3, <2>4 DEF ChargedAlone
<1> QED
  BY <1>9, <1>10, <1>11, <1>12, <1>13 DEF IntakeInv

LEMMA AbortKeeps ==
    ASSUME IntakeInv, NEW w \in Workers, AbortUpload(w)
    PROVE  IntakeInv'
<1>1. /\ up' = [up EXCEPT ![w] = NoUpload] /\ failed' = TRUE
      /\ UNCHANGED <<plan, file, task, running, overlap, restarts, accepted>>
  BY DEF AbortUpload, RollBack
<1>2. /\ up' \in [Workers -> Upload] /\ up'[w].pc = "idle" /\ up'[w].task = NoTask
      /\ \A v \in Workers : v # w => up'[v] = up[v]
  BY <1>1, IntakeTypes DEF IntakeInv, IntakeOK
<1>3. IntakeOK'
  BY <1>1, <1>2 DEF IntakeInv, IntakeOK
<1>4. \A v \in Workers : UploadHolds(v)'
  BY <1>1, <1>2, IntakeTypes DEF IntakeInv, IntakeOK, UploadHolds, Upload
<1>5. \A t \in Uploads : TaskWhole(t)'
  BY <1>1 DEF IntakeInv, TaskWhole
<1>6. Charged' /\ ChargedAlone'
  BY <1>1, <1>2 DEF IntakeInv, Charged, ChargedAlone
<1> QED
  BY <1>3, <1>4, <1>5, <1>6 DEF IntakeInv

LEMMA EndKeeps ==
    ASSUME IntakeInv, NEW t \in Uploads, NEW st \in {"done", "failed"}, EndReview(t, st)
    PROVE  IntakeInv'
<1>1. /\ t \in running /\ running' = running \ {t} /\ task' = [task EXCEPT ![t].st = st]
      /\ UNCHANGED <<plan, file, up, overlap, failed, restarts, accepted>>
  BY DEF EndReview
<1>2. task \in [Uploads -> ReviewTask]
  BY DEF IntakeInv, IntakeOK
<1>3. /\ task' \in [Uploads -> ReviewTask] /\ \A s \in Uploads : s # t => task'[s] = task[s]
      /\ task'[t].st = st /\ task'[t].by = task[t].by
      /\ task'[t].document = task[t].document /\ task'[t].audit = task[t].audit
  BY <1>1, <1>2 DEF ReviewTask
<1>4. IntakeOK'
  BY <1>1, <1>3 DEF IntakeInv, IntakeOK
<1>5. task[t].st = "parsing"
  BY <1>1 DEF IntakeInv, TaskWhole
<1>6. \A v \in Workers : UploadHolds(v)'
  <2>1. \A v \in Workers : up[v].pc = "saved" => up[v].task \in Uploads /\ up[v].task # t
    BY <1>5 DEF IntakeInv, IntakeOK, UploadHolds
  <2> QED
    BY <1>1, <1>3, <2>1 DEF IntakeInv, UploadHolds
<1>7. \A s \in Uploads : TaskWhole(s)'
  BY <1>1, <1>3, <1>5 DEF IntakeInv, TaskWhole
<1>8. Charged' /\ ChargedAlone'
  BY <1>1 DEF IntakeInv, Charged, ChargedAlone
<1> QED
  BY <1>4, <1>6, <1>7, <1>8 DEF IntakeInv

LEMMA IntakeRestarts == ASSUME IntakeInv, RestartIntake PROVE IntakeInv'
<1>1. /\ running' = {} /\ up' = [w \in Workers |-> NoUpload]
      /\ failed' = (failed \/ up # up') /\ restarts' = restarts + 1
      /\ UNCHANGED <<plan, file, task, overlap, accepted>>
  BY DEF RestartIntake
<1>2. \A w \in Workers : up'[w].pc = "idle" /\ up'[w].task = NoTask
  BY <1>1, IntakeTypes
<1>3. restarts' \in Nat /\ restarts' > 0 /\ failed' \in BOOLEAN
  BY <1>1 DEF IntakeInv, IntakeOK
<1>4. IntakeOK'
  BY <1>1, <1>3, IntakeTypes DEF IntakeInv, IntakeOK
<1>5. \A w \in Workers : UploadHolds(w)'
  BY <1>2, IntakeTypes DEF UploadHolds
<1>6. \A t \in Uploads : TaskWhole(t)'
  <2>1. \A t \in Uploads, w \in Workers : up[w].task = t => failed'
    BY <1>1, <1>2, IntakeTypes
  <2> QED
    BY <1>1, <1>3, <2>1 DEF IntakeInv, TaskWhole
<1>7. Charged' /\ ChargedAlone'
  BY <1>1, <1>2 DEF IntakeInv, Charged, ChargedAlone
<1> QED
  BY <1>4, <1>5, <1>6, <1>7 DEF IntakeInv

LEMMA IntakeKeeps == ASSUME IntakeInv, IntakeStep PROVE IntakeInv'
<1>1. CASE UNCHANGED intake
  BY <1>1 DEF intake, IntakeInv, IntakeOK, UploadHolds, TaskWhole, Charged, ChargedAlone
<1> QED
  BY <1>1, TierKeeps, BeginKeeps, SaveKeeps, CommitKeeps, AbortKeeps, EndKeeps, IntakeRestarts DEF IntakeStep

-----------------------------------------------------------------------------
(* What the properties need of it.                                         *)
LEMMA ChargesFollow == ASSUME IntakeInv PROVE TrialIsCharged
BY DEF IntakeInv, Charged, ChargedAlone, TrialIsCharged

LEMMA WholeFollows == ASSUME IntakeInv PROVE UploadsWhole
BY DEF IntakeInv, IntakeOK, TaskWhole, UploadsWhole

LEMMA OpenFollows == ASSUME IntakeInv PROVE ListedCanBeOpened
<1> SUFFICES ASSUME NEW m \in Members, NEW t \in Uploads, Listed(m, t) \/ Found(m, t)
             PROVE  MayOpen(m, t)
  BY DEF ListedCanBeOpened
<1>1. task[t].st # "none"
  BY DEF Listed, Found
<1> QED
  BY <1>1 DEF Listed, Found, MayOpen, IsTeam

=============================================================================

------------------------ MODULE FollowWaypointsProofs ------------------------
(***************************************************************************)
(* The FollowWaypoints server implements WaypointList, for lists of every  *)
(* length, every number of requests and of goals sent to Nav2.             *)
(***************************************************************************)
EXTENDS FollowWaypoints, SequenceTheorems, FiniteSetTheorems, TLAPS

\* Where the execute thread can be; away from "idle" a list is at work.
Places == {"idle", "cancel", "canceling", "process", "spin", "blocked", "dead"}
Working == thread.at # "idle"

Lists == {NoGoal} \cup [id : Nat \ {0}, len : Nat]
NavGoals == [list : Nat \ {0}, index : Nat,
             state : {"sent", "accepted", "rejected", "running", "ended", "settled"},
             code : {"none", "succeeded", "aborted", "canceled"}]
Failures == [list : Nat \ {0}, index : Nat]
Statuses == {"unknown", "processing", "failed", "succeeded"}

FollowTypeOK ==
    /\ srv \in [active : BOOLEAN, current : Lists, pending : Lists, cancel : BOOLEAN,
                requests : Nat]
    /\ thread \in [at : Places, list : Lists, index : Nat, newGoal : BOOLEAN]
    /\ status \in Statuses
    /\ goals \in Seq(NavGoals)
    /\ failedIds \in Seq(Failures)
    /\ report.verdict \in {"none", "terminated", "succeeded"}

\* Lists are numbered in the order they were requested.
IdsWereGiven ==
    /\ srv.current.id <= srv.requests /\ srv.pending.id <= srv.requests
    /\ \A i \in 1..Len(goals) : goals[i].list <= srv.requests
    /\ \A i \in 1..Len(failedIds) : failedIds[i].list <= srv.requests

\* A list at work is the server's current one, and the index stays inside it.
ThreadFollowsServer ==
    /\ ~Working => thread = Idle
    /\ Working => /\ srv.current # NoGoal /\ thread.list = srv.current
                  /\ thread.index < srv.current.len

\* No goal and no failure belongs to a list that was not started yet.
Untouched(id) ==
    /\ \A i \in 1..Len(goals) : goals[i].list # id
    /\ \A i \in 1..Len(failedIds) : failedIds[i].list # id

ListsStartClean ==
    /\ srv.pending # NoGoal => /\ Untouched(srv.pending.id)
                               /\ srv.pending.id # srv.current.id
    /\ (srv.current # NoGoal /\ ~Working) => Untouched(srv.current.id)

\* A waypoint of the current list that the records account for.
Recorded(k) ==
    \/ \E i \in 1..Len(goals) : /\ goals[i].list = srv.current.id
                                /\ goals[i].index = k /\ goals[i].state = "settled"
    \/ \E i \in 1..Len(failedIds) : /\ failedIds[i].list = srv.current.id
                                    /\ failedIds[i].index = k

\* Goals of the list at work are sent in its order, each when those before it are
\* over; once the goal of the index is sent it is the latest one, whatever lists
\* and goals went before.
GoalsFollowIndex ==
    Working =>
        /\ \A i \in 1..Len(goals) : goals[i].list = srv.current.id =>
             goals[i].index < thread.index \/ (~thread.newGoal /\ i = Len(goals))
        /\ \A i \in 1..Len(failedIds) :
             failedIds[i].list = srv.current.id => failedIds[i].index < thread.index
        /\ \A k \in 0..(thread.index - 1) : Recorded(k)
        /\ ~thread.newGoal =>
             /\ Len(goals) > 0
             /\ goals[Len(goals)].list = srv.current.id
             /\ goals[Len(goals)].index = thread.index
             /\ status = "succeeded" => goals[Len(goals)].state = "settled"
        /\ thread.at = "process" => ~thread.newGoal

FollowInv ==
    FollowTypeOK /\ IdsWereGiven /\ ThreadFollowsServer /\ ListsStartClean /\ GoalsFollowIndex

\* The waypoint at the index is over: its own goal was answered, or the loop holds
\* it for failed.
Over == /\ ~thread.newGoal
        /\ status = "failed" \/ goals[Len(goals)].state = "settled"

\* How many waypoints of the current list are over, and how many it has.
Count == IF srv.current = NoGoal \/ ~Working THEN 0
         ELSE thread.index + (IF Over THEN 1 ELSE 0)
Wanted == IF srv.current = NoGoal THEN -1 ELSE srv.current.len

\* The actions of WaypointList on what the follower counts.
CountNext ==
    \/ Wanted' \in Nat /\ Count' = 0 /\ report'.verdict = report.verdict
    \/ /\ Wanted # -1 /\ Count < Wanted /\ Count' = Count + 1
       /\ Wanted' = Wanted /\ report'.verdict = report.verdict
    \/ /\ Wanted # -1 /\ Count = Wanted
       /\ Wanted' = -1 /\ Count' = 0 /\ report'.verdict = "succeeded"
    \/ /\ Wanted # -1 /\ Wanted' = -1 /\ Count' = 0 /\ report'.verdict = "terminated"
    \/ Wanted' = Wanted /\ Count' = Count /\ report'.verdict = report.verdict

-----------------------------------------------------------------------------
(* The count is what the mapping of the refinement counts.                 *)

\* The types of the follower's records, field by field.
LEMMA FollowFields ==
    ASSUME FollowTypeOK
    PROVE  /\ srv.active \in BOOLEAN /\ srv.cancel \in BOOLEAN
           /\ srv.current \in Lists /\ srv.pending \in Lists /\ srv.requests \in Nat
           /\ srv.current # NoGoal => srv.current.id \in Nat \ {0} /\ srv.current.len \in Nat
           /\ srv.pending # NoGoal => srv.pending.id \in Nat \ {0} /\ srv.pending.len \in Nat
           /\ srv.current.id \in Nat /\ srv.pending.id \in Nat
           /\ thread.at \in Places /\ thread.list \in Lists /\ thread.index \in Nat
           /\ thread.newGoal \in BOOLEAN
           /\ Len(goals) \in Nat /\ Len(failedIds) \in Nat
           /\ DOMAIN goals = 1..Len(goals) /\ DOMAIN failedIds = 1..Len(failedIds)
           /\ \A i \in 1..Len(goals) :
                /\ goals[i] \in NavGoals
                /\ goals[i].list \in Nat /\ goals[i].list # 0 /\ goals[i].index \in Nat
           /\ \A i \in 1..Len(failedIds) :
                /\ failedIds[i].list \in Nat /\ failedIds[i].list # 0
                /\ failedIds[i].index \in Nat
<1>1. /\ srv.active \in BOOLEAN /\ srv.cancel \in BOOLEAN
      /\ srv.current \in Lists /\ srv.pending \in Lists /\ srv.requests \in Nat
  BY DEF FollowTypeOK
<1>2. /\ thread.at \in Places /\ thread.list \in Lists /\ thread.index \in Nat
      /\ thread.newGoal \in BOOLEAN
  BY DEF FollowTypeOK
<1>3. \A l \in Lists : /\ l # NoGoal => l.id \in Nat \ {0} /\ l.len \in Nat
                       /\ l.id \in Nat
  BY DEF Lists, NoGoal
<1>4. /\ Len(goals) \in Nat /\ DOMAIN goals = 1..Len(goals)
      /\ \A i \in 1..Len(goals) : goals[i] \in NavGoals
  BY DEF FollowTypeOK
<1>5. /\ Len(failedIds) \in Nat /\ DOMAIN failedIds = 1..Len(failedIds)
      /\ \A i \in 1..Len(failedIds) : failedIds[i] \in Failures
  BY DEF FollowTypeOK
<1>6. \A i \in 1..Len(goals) :
        goals[i].list \in Nat /\ goals[i].list # 0 /\ goals[i].index \in Nat
  BY <1>4 DEF NavGoals
<1>7. \A i \in 1..Len(failedIds) :
        failedIds[i].list \in Nat /\ failedIds[i].list # 0 /\ failedIds[i].index \in Nat
  BY <1>5 DEF Failures
<1> QED
  BY <1>1, <1>2, <1>3, <1>4, <1>5, <1>6, <1>7

\* The first indices, counted.
LEMMA CountFromZero ==
    ASSUME NEW n \in Int, n >= -1
    PROVE  Cardinality(0..n) = n + 1
<1>1. Cardinality(0..n) = IF 0 > n THEN 0 ELSE n - 0 + 1
  BY FS_Interval
<1> QED
  BY <1>1

\* The accounted waypoints of the current list are the first ones, without a gap.
LEMMA CountIsSettled ==
    ASSUME FollowInv, srv.current # NoGoal
    PROVE  Cardinality(Accounted(srv.current.id)) = Count
<1> USE DEF FollowInv
<1> DEFINE id == srv.current.id
           A == Accounted(id)
<1>0. /\ DOMAIN goals = 1..Len(goals) /\ DOMAIN failedIds = 1..Len(failedIds)
      /\ thread.index \in Nat /\ Len(goals) \in Nat /\ id \in Nat \ {0}
      /\ \A i \in 1..Len(goals) : goals[i].index \in Nat
      /\ \A i \in 1..Len(failedIds) : failedIds[i].index \in Nat
  BY FollowFields
<1>0i. thread.index \in Nat
  BY <1>0
<1>0l. Len(goals) \in Nat
  BY <1>0
<1>1. \A k : k \in A <=>
        \/ Recorded(k)
        \/ status = "failed" /\ thread.list.id = id /\ ~thread.newGoal /\ k = thread.index
  BY <1>0 DEF Accounted, Recorded
<1>2. CASE ~Working
  <2>1. thread = Idle /\ thread.list.id = 0
    BY <1>2 DEF ThreadFollowsServer, Idle, NoGoal
  <2>2. \A k : ~Recorded(k)
    BY <1>2 DEF ListsStartClean, Untouched, Recorded
  <2>3. A = {}
    BY <1>0, <1>1, <2>1, <2>2
  <2> HIDE DEF A
  <2> QED
    BY <1>2, <2>3, FS_EmptySet DEF Count, A
<1>3. CASE Working
  <2>1. thread.list.id = id
    BY <1>3 DEF ThreadFollowsServer
  <2>0. /\ \A i \in 1..Len(goals) : goals[i].list = srv.current.id =>
             goals[i].index < thread.index \/ (~thread.newGoal /\ i = Len(goals))
        /\ \A i \in 1..Len(failedIds) :
             failedIds[i].list = srv.current.id => failedIds[i].index < thread.index
        /\ ~thread.newGoal =>
             /\ Len(goals) > 0
             /\ goals[Len(goals)].list = srv.current.id
             /\ goals[Len(goals)].index = thread.index
    BY <1>3 DEF GoalsFollowIndex
  <2>2. \A k \in 0..(thread.index - 1) : Recorded(k)
    BY <1>3 DEF GoalsFollowIndex
  <2>3. \A k : Recorded(k) => \/ k \in 0..(thread.index - 1)
                              \/ k = thread.index /\ Over
    <3> SUFFICES ASSUME NEW k, Recorded(k)
                 PROVE  k \in 0..(thread.index - 1) \/ (k = thread.index /\ Over)
      OBVIOUS
    <3>1. CASE \E i \in 1..Len(failedIds) : /\ failedIds[i].list = srv.current.id
                                            /\ failedIds[i].index = k
      <4>1. PICK i \in 1..Len(failedIds) : /\ failedIds[i].list = srv.current.id
                                           /\ failedIds[i].index = k
        BY <3>1
      <4>2. failedIds[i].index \in Nat /\ failedIds[i].index < thread.index
        BY <1>0, <2>0, <4>1
      <4> QED
        BY <1>0i, <4>1, <4>2
    <3>2. CASE \E i \in 1..Len(goals) : /\ goals[i].list = srv.current.id
                                        /\ goals[i].index = k /\ goals[i].state = "settled"
      <4>1. PICK i \in 1..Len(goals) : /\ goals[i].list = srv.current.id
                                       /\ goals[i].index = k /\ goals[i].state = "settled"
        BY <3>2
      <4>2. goals[i].index < thread.index \/ (~thread.newGoal /\ i = Len(goals))
        BY <2>0, <4>1
      <4>3. CASE goals[i].index < thread.index
        BY <1>0, <4>1, <4>3
      <4>4. CASE ~thread.newGoal /\ i = Len(goals)
        BY <2>0, <4>1, <4>4 DEF Over
      <4> QED
        BY <4>2, <4>3, <4>4
    <3> QED
      BY <3>1, <3>2 DEF Recorded
  <2>4. Over => \/ Recorded(thread.index)
                \/ status = "failed" /\ ~thread.newGoal
    <3> SUFFICES ASSUME Over, status # "failed" PROVE Recorded(thread.index)
      BY DEF Over
    <3>1. Len(goals) \in 1..Len(goals) /\ goals[Len(goals)].list = srv.current.id
      <4>1. Len(goals) > 0 /\ goals[Len(goals)].list = srv.current.id
        BY <2>0 DEF Over
      <4> QED
        BY <1>0l, <4>1
    <3>2. goals[Len(goals)].index = thread.index /\ goals[Len(goals)].state = "settled"
      BY <2>0 DEF Over
    <3> QED
      BY <3>1, <3>2 DEF Recorded
  <2>5. CASE Over
    <3>1. A = 0..thread.index
      <4>1. \A k : k \in A <=> k \in 0..(thread.index - 1) \/ k = thread.index
        BY <1>1, <2>1, <2>2, <2>3, <2>4, <2>5
      <4>2. \A k : k \in 0..(thread.index - 1) \/ k = thread.index <=> k \in 0..thread.index
        BY <1>0
      <4> HIDE DEF A
      <4> QED
        BY <4>1, <4>2
    <3>2. Cardinality(0..thread.index) = thread.index + 1
      <4>1. thread.index \in Int /\ thread.index >= -1
        BY <1>0i
      <4> QED
        BY <4>1, CountFromZero
    <3> HIDE DEF A
    <3> QED
      BY <1>3, <2>5, <3>1, <3>2 DEF Count, A
  <2>6. CASE ~Over
    <3>1. A = 0..(thread.index - 1)
      <4>1. \A k : k \in A <=> k \in 0..(thread.index - 1)
        BY <1>1, <2>1, <2>2, <2>3, <2>6 DEF Over
      <4> HIDE DEF A
      <4> QED
        BY <4>1
    <3>2. Cardinality(0..(thread.index - 1)) = thread.index
      <4>1. Cardinality(0..(thread.index - 1)) = (thread.index - 1) + 1
        <5>1. thread.index - 1 \in Int /\ thread.index - 1 >= -1
          BY <1>0i
        <5> QED
          BY <5>1, CountFromZero
      <4> QED
        BY <1>0i, <4>1
    <3> HIDE DEF A
    <3> QED
      BY <1>0, <1>3, <2>6, <3>1, <3>2 DEF Count, A
  <2> QED
    BY <2>5, <2>6
<1> QED
  BY <1>2, <1>3

\* While a list is at work its count is at most its length.
LEMMA CountBounds ==
    ASSUME FollowInv
    PROVE  /\ Count \in Nat /\ Wanted \in Int
           /\ srv.current # NoGoal => Wanted \in Nat /\ Count <= Wanted
  <1>1. /\ thread.index \in Nat
        /\ srv.current # NoGoal => srv.current.len \in Nat
    BY FollowFields DEF FollowInv
  <1> QED
    BY <1>1 DEF FollowInv, ThreadFollowsServer, Count, Wanted

\* A step on the counts is a step of WaypointList under the refinement mapping.
LEMMA CountStep ==
    ASSUME FollowInv, FollowInv', CountNext
    PROVE  [Promise!ListNext]_(Promise!listVars)
<1> DEFINE s == IF srv.current = NoGoal THEN 0
                ELSE Cardinality(Accounted(srv.current.id))
           w == IF srv.current = NoGoal THEN -1 ELSE srv.current.len
<1>1. s = Count /\ w = Wanted
  BY CountIsSettled DEF Count, Wanted
<1>2. s' = Count' /\ w' = Wanted'
  <2>1. srv'.current # NoGoal => Cardinality(Accounted(srv.current.id)') = Count'
    <3>1. (FollowInv /\ srv.current # NoGoal => Cardinality(Accounted(srv.current.id)) = Count)'
      BY CountIsSettled, PTL
    <3> QED
      BY <3>1
  <2> QED
    BY <2>1 DEF Count, Wanted
<1>3. /\ Count \in Nat /\ Wanted \in Int
  BY CountBounds
<1> HIDE DEF s, w
<1>4. \/ w' \in Nat /\ s' = 0 /\ report'.verdict = report.verdict
      \/ w # -1 /\ s < w /\ s' = s + 1 /\ w' = w /\ report'.verdict = report.verdict
      \/ w # -1 /\ s = w /\ w' = -1 /\ s' = 0 /\ report'.verdict = "succeeded"
      \/ w # -1 /\ w' = -1 /\ s' = 0 /\ report'.verdict = "terminated"
      \/ w' = w /\ s' = s /\ report'.verdict = report.verdict
  BY <1>1, <1>2 DEF CountNext
<1> QED
  BY <1>4 DEF Promise!ListNext, Promise!listVars, Promise!Take, Promise!Settle,
     Promise!Complete, Promise!GiveUp, Promise!NoList, s, w

-----------------------------------------------------------------------------
(* One lemma per kind of step: the invariant survives it, and what it does *)
(* to the counts is an action of WaypointList.                             *)

\* A step that moves the thread on without touching list, index, status and the
\* records of what is settled; a new list may be pending after it, or none.
LEMMA QuietStep ==
    ASSUME FollowInv, FollowTypeOK',
           srv'.current = srv.current,
           \/ srv'.pending = srv.pending /\ srv'.requests = srv.requests
           \/ /\ srv.requests <= srv'.requests /\ srv'.pending.id <= srv'.requests
              /\ srv'.pending # NoGoal => /\ Untouched(srv'.pending.id)
                                         /\ srv'.pending.id # srv.current.id,
           thread'.list = thread.list, thread'.index = thread.index,
           thread'.newGoal = thread.newGoal,
           \/ thread' = thread
           \/ /\ Working /\ thread'.at # "idle"
              /\ thread'.at = "process" => ~thread.newGoal,
           Len(goals') = Len(goals),
           \A i \in 1..Len(goals) :
             /\ goals'[i].list = goals[i].list /\ goals'[i].index = goals[i].index
             /\ goals'[i].state = "settled" <=> goals[i].state = "settled",
           status' = status, failedIds' = failedIds, report'.verdict = report.verdict
    PROVE  FollowInv' /\ CountNext
<1> USE DEF FollowInv
<1>1. Working' <=> Working
  BY DEF Working
<1>2. \A k : Recorded(k)' <=> Recorded(k)
  BY DEF Recorded
<1>3. IdsWereGiven'
  <2>0. /\ srv.requests \in Nat /\ srv'.requests \in Nat /\ srv.current.id \in Nat
        /\ \A i \in 1..Len(goals) : goals[i].list \in Nat
        /\ \A i \in 1..Len(failedIds) : failedIds[i].list \in Nat
    BY FollowFields DEF FollowTypeOK
  <2>1. srv.requests <= srv'.requests /\ srv'.pending.id <= srv'.requests
    BY <2>0 DEF IdsWereGiven
  <2>2. srv'.current.id <= srv'.requests
    BY <2>0, <2>1 DEF IdsWereGiven
  <2>3. \A i \in 1..Len(goals) : goals[i].list <= srv'.requests
    BY <2>0, <2>1 DEF IdsWereGiven
  <2>4. \A i \in 1..Len(failedIds) : failedIds[i].list <= srv'.requests
    BY <2>0, <2>1 DEF IdsWereGiven
  <2> QED
    BY <2>1, <2>2, <2>3, <2>4 DEF IdsWereGiven
<1>4. ThreadFollowsServer'
  BY <1>1 DEF ThreadFollowsServer, Working
<1>5. ListsStartClean'
  BY <1>1 DEF ListsStartClean, Untouched
<1>6. Len(goals) \in Nat
  BY FollowFields
<1>7. Len(goals) > 0 => (Over' <=> Over)
  <2>1. Len(goals) > 0 => Len(goals) \in 1..Len(goals)
    BY <1>6
  <2> QED
    BY <2>1 DEF Over
<1>8. GoalsFollowIndex'
  <2> SUFFICES ASSUME Working
               PROVE  GoalsFollowIndex'
    BY <1>1 DEF GoalsFollowIndex
  <2>1. /\ \A i \in 1..Len(goals) : goals[i].list = srv.current.id =>
             goals[i].index < thread.index \/ (~thread.newGoal /\ i = Len(goals))
        /\ \A i \in 1..Len(failedIds) :
             failedIds[i].list = srv.current.id => failedIds[i].index < thread.index
        /\ \A k \in 0..(thread.index - 1) : Recorded(k)
    BY DEF GoalsFollowIndex
  <2>2. /\ ~thread.newGoal =>
             /\ Len(goals) > 0
             /\ goals[Len(goals)].list = srv.current.id
             /\ goals[Len(goals)].index = thread.index
             /\ status = "succeeded" => goals[Len(goals)].state = "settled"
        /\ thread.at = "process" => ~thread.newGoal
    BY DEF GoalsFollowIndex
  <2>3. ~thread.newGoal =>
             /\ goals'[Len(goals)].list = srv.current.id
             /\ goals'[Len(goals)].index = thread.index
             /\ status = "succeeded" => goals'[Len(goals)].state = "settled"
    <3> SUFFICES ASSUME ~thread.newGoal
                 PROVE  /\ goals'[Len(goals)].list = srv.current.id
                        /\ goals'[Len(goals)].index = thread.index
                        /\ status = "succeeded" => goals'[Len(goals)].state = "settled"
      OBVIOUS
    <3>1. Len(goals) \in 1..Len(goals)
      BY <1>6, <2>2
    <3> QED
      BY <2>2, <3>1
  <2> QED
    BY <1>2, <2>1, <2>2, <2>3 DEF GoalsFollowIndex
<1>9. Count' = Count /\ Wanted' = Wanted
  <2>1. srv.current # NoGoal /\ Working => (Over' <=> Over)
    <3> SUFFICES ASSUME Working, ~thread.newGoal PROVE Over' <=> Over
      BY DEF Over
    <3>1. Len(goals) > 0
      BY DEF GoalsFollowIndex
    <3> QED
      BY <1>7, <3>1
  <2> QED
    BY <1>1, <2>1 DEF Count, Wanted
<1> QED
  BY <1>3, <1>4, <1>5, <1>8, <1>9 DEF CountNext

\* A goal's answer arrives while the thread spins: what it settles is the waypoint
\* at the index, or nothing that was not settled before.
LEMMA SettlingStep ==
    ASSUME FollowInv, FollowTypeOK', Working, NEW i \in 1..Len(goals),
           UNCHANGED <<srv, thread, failedIds, report>>, Len(goals') = Len(goals),
           \A j \in 1..Len(goals) :
             /\ goals'[j].list = goals[j].list /\ goals'[j].index = goals[j].index
             /\ j # i => goals'[j].state = goals[j].state,
           goals'[i].state = "settled",
           status' = "failed" \/ status' = status \/ i = Len(goals),
           thread.at # "process"
    PROVE  FollowInv' /\ CountNext
<1> USE DEF FollowInv
<1>0. /\ thread.index \in Nat /\ Len(goals) \in Nat
      /\ srv.current # NoGoal => srv.current.len \in Nat
  BY FollowFields
<1>1. \A k : Recorded(k) => Recorded(k)'
  BY DEF Recorded
<1>2. IdsWereGiven'
  BY DEF IdsWereGiven
<1>3. ThreadFollowsServer' /\ Working'
  BY DEF ThreadFollowsServer, Working
<1>4. ListsStartClean'
  BY <1>3 DEF ListsStartClean, Untouched
<1>5. ~thread.newGoal =>
        /\ Len(goals) \in 1..Len(goals)
        /\ goals[Len(goals)].list = srv.current.id
        /\ goals[Len(goals)].index = thread.index
        /\ status = "succeeded" => goals[Len(goals)].state = "settled"
  BY <1>0 DEF GoalsFollowIndex
<1>6. ~thread.newGoal => (status' = "succeeded" => goals'[Len(goals)].state = "settled")
  BY <1>5
<1>7. GoalsFollowIndex'
  <2>1. /\ \A j \in 1..Len(goals) : goals[j].list = srv.current.id =>
             goals[j].index < thread.index \/ (~thread.newGoal /\ j = Len(goals))
        /\ \A j \in 1..Len(failedIds) :
             failedIds[j].list = srv.current.id => failedIds[j].index < thread.index
        /\ \A k \in 0..(thread.index - 1) : Recorded(k)
    BY DEF GoalsFollowIndex
  <2>2. \A j \in 1..Len(goals') : goals'[j].list = srv'.current.id =>
             goals'[j].index < thread'.index \/ (~thread'.newGoal /\ j = Len(goals'))
    BY <2>1
  <2>3. \A k \in 0..(thread'.index - 1) : Recorded(k)'
    BY <1>1, <2>1
  <2>4. ~thread'.newGoal =>
          /\ Len(goals') > 0
          /\ goals'[Len(goals')].list = srv'.current.id
          /\ goals'[Len(goals')].index = thread'.index
          /\ status' = "succeeded" => goals'[Len(goals')].state = "settled"
    BY <1>0, <1>5, <1>6
  <2> QED
    BY <2>1, <2>2, <2>3, <2>4 DEF GoalsFollowIndex
<1>8. Over => Over'
  BY <1>5 DEF Over
<1>9. Wanted' = Wanted /\ Wanted = srv.current.len /\ thread.index < Wanted
  BY DEF Wanted, ThreadFollowsServer
<1>10. /\ Count = thread.index + (IF Over THEN 1 ELSE 0)
       /\ Count' = thread.index + (IF Over' THEN 1 ELSE 0)
  BY <1>3 DEF Count, ThreadFollowsServer
<1>11. CountNext
  <2>1. CASE ~Over /\ Over'
    BY <1>0, <1>9, <1>10, <2>1, CountBounds DEF CountNext
  <2>2. CASE Over <=> Over'
    BY <1>9, <1>10, <2>2 DEF CountNext
  <2> QED
    BY <1>8, <2>1, <2>2
<1> QED
  BY <1>2, <1>3, <1>4, <1>7, <1>11

\* The list at work ends; a pending one stays or is dropped with it.
LEMMA EndingStep ==
    ASSUME FollowInv, FollowTypeOK', srv.current # NoGoal,
           srv'.current = NoGoal, srv'.requests = srv.requests,
           srv'.pending = srv.pending \/ srv'.pending = NoGoal,
           thread' = Idle, goals' = goals,
           failedIds' = failedIds \/ failedIds' = <<>>,
           \/ report'.verdict = "terminated"
           \/ report'.verdict = "succeeded" /\ Count = srv.current.len
    PROVE  FollowInv' /\ CountNext
<1> USE DEF FollowInv
<1>1. ~Working' /\ NoGoal.id = 0
  BY DEF Working, Idle, NoGoal
<1>2. \A i \in 1..Len(failedIds') : i \in 1..Len(failedIds) /\ failedIds'[i] = failedIds[i]
  <2>1. CASE failedIds' = <<>>
    <3>1. Len(failedIds') = 0
      BY <2>1
    <3> QED
      BY <3>1
  <2> QED
    BY <2>1
<1>3. IdsWereGiven'
  BY <1>1, <1>2, FollowFields DEF IdsWereGiven
<1>4. ThreadFollowsServer' /\ GoalsFollowIndex'
  BY <1>1 DEF ThreadFollowsServer, GoalsFollowIndex
<1>5. ListsStartClean'
  <2>1. srv'.pending # NoGoal => srv.pending # NoGoal /\ srv'.pending = srv.pending
    OBVIOUS
  <2>2. srv.pending # NoGoal => srv.pending.id # 0 /\ Untouched(srv.pending.id)
    BY FollowFields DEF ListsStartClean
  <2> QED
    BY <1>1, <1>2, <2>1, <2>2 DEF ListsStartClean, Untouched
<1>6. Wanted' = -1 /\ Count' = 0 /\ Wanted = srv.current.len /\ Wanted # -1
  BY FollowFields DEF Wanted, Count
<1>7. CountNext
  BY <1>6 DEF CountNext
<1> QED
  BY <1>3, <1>4, <1>5, <1>7

\* A list is taken up from rest: it counts nothing yet.
LEMMA TakingStep ==
    ASSUME FollowInv, FollowTypeOK', ~Working, srv.current = NoGoal,
           srv'.current # NoGoal, Untouched(srv'.current.id),
           srv'.current.id <= srv'.requests, srv.requests <= srv'.requests,
           srv'.pending = NoGoal,
           UNCHANGED <<thread, goals, failedIds, report>>
    PROVE  FollowInv' /\ CountNext
<1> USE DEF FollowInv
<1>0. /\ srv.requests \in Nat /\ srv'.requests \in Nat
      /\ \A i \in 1..Len(goals) : goals[i].list \in Nat
      /\ \A i \in 1..Len(failedIds) : failedIds[i].list \in Nat
  BY FollowFields DEF FollowTypeOK
<1>1. ~Working' /\ NoGoal.id = 0
  BY DEF Working, NoGoal
<1>2. IdsWereGiven'
  <2>1. \A i \in 1..Len(goals) : goals[i].list <= srv'.requests
    BY <1>0 DEF IdsWereGiven
  <2>2. \A i \in 1..Len(failedIds) : failedIds[i].list <= srv'.requests
    BY <1>0 DEF IdsWereGiven
  <2> QED
    BY <1>0, <1>1, <2>1, <2>2 DEF IdsWereGiven
<1>3. ThreadFollowsServer' /\ GoalsFollowIndex'
  BY <1>1 DEF ThreadFollowsServer, GoalsFollowIndex
<1>4. ListsStartClean'
  BY <1>1 DEF ListsStartClean, Untouched
<1>5. srv'.current.len \in Nat
  BY DEF FollowTypeOK, Lists
<1>6. CountNext
  BY <1>1, <1>5 DEF CountNext, Wanted, Count
<1> QED
  BY <1>2, <1>3, <1>4, <1>6

\* The next waypoint of the list: the one at the index was over and is recorded.
LEMMA AdvancingStep ==
    ASSUME FollowInv, FollowTypeOK', thread.at = "process",
           thread.index + 1 < thread.list.len,
           \/ status = "succeeded" /\ failedIds' = failedIds
           \/ status = "failed" /\ failedIds' = Missed,
           thread' = [thread EXCEPT !.at = "spin", !.index = @ + 1, !.newGoal = TRUE],
           UNCHANGED <<srv, status, goals, report>>
    PROVE  FollowInv' /\ CountNext
<1> USE DEF FollowInv
<1> DEFINE f == [list |-> thread.list.id, index |-> thread.index]
<1>0. /\ thread.index \in Nat /\ Len(goals) \in Nat /\ Len(failedIds) \in Nat
      /\ srv.requests \in Nat
      /\ srv.current # NoGoal => srv.current.len \in Nat /\ srv.current.id \in Nat \ {0}
      /\ \A i \in 1..Len(goals) : goals[i].index \in Nat
      /\ \A i \in 1..Len(failedIds) : failedIds[i].index \in Nat
  BY FollowFields
<1>1. /\ Working /\ Working' /\ srv.current # NoGoal /\ thread.list = srv.current
      /\ ~thread.newGoal
      /\ thread'.list = thread.list /\ thread'.index = thread.index + 1
      /\ thread'.newGoal = TRUE /\ thread'.at = "spin"
  BY DEF Working, ThreadFollowsServer, FollowTypeOK, GoalsFollowIndex
<1>2. Over /\ ~Over' /\ Len(goals) \in 1..Len(goals)
  BY <1>0, <1>1 DEF Over, GoalsFollowIndex
<1>3. \/ Len(failedIds') = Len(failedIds) /\ failedIds' = failedIds
      \/ /\ status = "failed"
         /\ Len(failedIds') = Len(failedIds) + 1
         /\ failedIds'[Len(failedIds) + 1] = f
         /\ \A i \in 1..Len(failedIds) : failedIds'[i] = failedIds[i]
  BY DEF Missed, FollowTypeOK
<1>4. f.list = srv.current.id /\ f.index = thread.index
  BY <1>1
<1> HIDE DEF f
<1>5. \A i \in 1..Len(failedIds') :
        \/ i \in 1..Len(failedIds) /\ failedIds'[i] = failedIds[i]
        \/ failedIds'[i] = f
  BY <1>0, <1>3
<1>6. \A i \in 1..Len(failedIds) : i \in 1..Len(failedIds') /\ failedIds'[i] = failedIds[i]
  BY <1>0, <1>3
<1>7. IdsWereGiven'
  <2>1. srv.current.id <= srv.requests
    BY DEF IdsWereGiven
  <2> QED
    BY <1>4, <1>5, <2>1 DEF IdsWereGiven
<1>8. ThreadFollowsServer'
  BY <1>1 DEF ThreadFollowsServer
<1>9. ListsStartClean'
  <2>1. srv.pending # NoGoal => srv.pending.id # srv.current.id /\ Untouched(srv.pending.id)
    BY DEF ListsStartClean
  <2> QED
    BY <1>1, <1>4, <1>5, <2>1 DEF ListsStartClean, Untouched
<1>10. GoalsFollowIndex'
  <2>1. \A i \in 1..Len(goals) : goals[i].list = srv.current.id => goals[i].index < thread.index + 1
    <3> SUFFICES ASSUME NEW i \in 1..Len(goals), goals[i].list = srv.current.id
                 PROVE  goals[i].index < thread.index + 1
      OBVIOUS
    <3>1. goals[i].index < thread.index \/ i = Len(goals)
      BY <1>1 DEF GoalsFollowIndex
    <3>2. goals[Len(goals)].index = thread.index
      BY <1>1 DEF GoalsFollowIndex
    <3>3. goals[i].index \in Nat
      BY <1>0
    <3> QED
      BY <1>0, <3>1, <3>2, <3>3
  <2>2. \A i \in 1..Len(failedIds') :
          failedIds'[i].list = srv.current.id => failedIds'[i].index < thread.index + 1
    <3> SUFFICES ASSUME NEW i \in 1..Len(failedIds'), failedIds'[i].list = srv.current.id
                 PROVE  failedIds'[i].index < thread.index + 1
      OBVIOUS
    <3>1. CASE failedIds'[i] = f
      BY <1>0, <1>4, <3>1
    <3>2. CASE i \in 1..Len(failedIds) /\ failedIds'[i] = failedIds[i]
      <4>1. failedIds[i].index \in Nat /\ failedIds[i].index < thread.index
        BY <1>0, <1>1, <3>2 DEF GoalsFollowIndex
      <4> QED
        BY <1>0, <3>2, <4>1
    <3> QED
      BY <1>5, <3>1, <3>2
  <2>3. \A k : Recorded(k) => Recorded(k)'
    BY <1>6 DEF Recorded
  <2>4. \A k \in 0..(thread.index + 1 - 1) : Recorded(k)'
    <3> SUFFICES ASSUME NEW k \in 0..(thread.index + 1 - 1) PROVE Recorded(k)'
      OBVIOUS
    <3>1. k \in 0..(thread.index - 1) \/ k = thread.index
      BY <1>0
    <3>2. CASE k \in 0..(thread.index - 1)
      <4>1. Recorded(k)
        BY <1>1, <3>2 DEF GoalsFollowIndex
      <4> QED
        BY <2>3, <4>1
    <3>3. CASE k = thread.index
      <4>1. CASE status = "succeeded"
        <5>1. /\ goals[Len(goals)].list = srv.current.id
              /\ goals[Len(goals)].index = thread.index
              /\ goals[Len(goals)].state = "settled"
          BY <1>1, <4>1 DEF GoalsFollowIndex
        <5>2. Recorded(k)
          BY <1>2, <3>3, <5>1 DEF Recorded
        <5> QED
          BY <2>3, <5>2
      <4>2. CASE status = "failed" /\ failedIds' = Missed
        <5>1. /\ Len(failedIds') = Len(failedIds) + 1
              /\ failedIds'[Len(failedIds) + 1] = f
          BY <4>2 DEF Missed, FollowTypeOK, f
        <5>2. Len(failedIds) + 1 \in 1..Len(failedIds')
          BY <1>0, <5>1
        <5> QED
          BY <1>4, <3>3, <5>1, <5>2 DEF Recorded
      <4> QED
        BY <4>1, <4>2
    <3> QED
      BY <3>1, <3>2, <3>3
  <2>5. \A k \in 0..(thread'.index - 1) : Recorded(k)'
    <3> DEFINE n == thread'.index
               m == thread.index
    <3>0. n = m + 1 /\ m \in Nat
      BY <1>0, <1>1
    <3> HIDE DEF n, m
    <3>1. \A k : k \in 0..(n - 1) => k \in 0..(m + 1 - 1)
      BY <3>0
    <3> USE DEF n, m
    <3> QED
      BY <2>4, <3>1
  <2>6. \A i \in 1..Len(goals') :
          goals'[i].list = srv'.current.id => goals'[i].index < thread'.index
    BY <1>1, <2>1
  <2>7. \A i \in 1..Len(failedIds') :
          failedIds'[i].list = srv'.current.id => failedIds'[i].index < thread'.index
    BY <1>1, <2>2
  <2>8. thread'.newGoal = TRUE /\ thread'.at # "process"
    BY <1>1
  <2> HIDE DEF FollowInv
  <2> QED
    BY <2>5, <2>6, <2>7, <2>8 DEF GoalsFollowIndex
<1>11. CountNext
  <2>1. Count = thread.index + 1 /\ Count' = (thread.index + 1) + 0
    BY <1>1, <1>2 DEF Count
  <2> QED
    BY <1>0, <2>1 DEF CountNext, Wanted
<1> QED
  BY <1>7, <1>8, <1>9, <1>10, <1>11

\* The goal of a waypoint is sent: of the one at the index, or the first one of
\* the list that preempts.
LEMMA SendingStep ==
    ASSUME FollowInv, FollowTypeOK', Working, srv'.requests = srv.requests,
           srv'.pending = NoGoal, srv'.current # NoGoal,
           thread'.at = "process", thread'.list = srv'.current, thread'.newGoal = FALSE,
           \/ /\ srv'.current = srv.current /\ srv.pending = NoGoal
              /\ thread'.index = thread.index /\ thread.newGoal
           \/ /\ srv.pending # NoGoal /\ srv'.current = srv.pending
              /\ srv.pending.len > 0 /\ thread'.index = 0,
           goals' = Append(goals, [list |-> srv'.current.id, index |-> thread'.index,
                                   state |-> "sent", code |-> "none"]),
           status' = "processing", failedIds' = failedIds, report' = report
    PROVE  FollowInv' /\ CountNext
<1> USE DEF FollowInv
<1>0. /\ thread.index \in Nat /\ Len(goals) \in Nat
      /\ srv.current.id \in Nat /\ srv.pending.id \in Nat /\ srv.requests \in Nat
  BY FollowFields
<1>1. Working' /\ NoGoal.id = 0
  BY DEF Working, NoGoal
<1>2. /\ Len(goals') = Len(goals) + 1
      /\ \A i \in 1..Len(goals) : goals'[i] = goals[i]
      /\ goals'[Len(goals) + 1].list = srv'.current.id
      /\ goals'[Len(goals) + 1].index = thread'.index
      /\ goals'[Len(goals) + 1].state = "sent"
  BY DEF FollowTypeOK
<1>3. /\ \A i \in 1..Len(goals') : i \in 1..Len(goals) \/ i = Len(goals')
      /\ \A i \in 1..Len(goals) : i \in 1..Len(goals')
      /\ Len(goals') > 0 /\ Len(goals') = Len(goals) + 1
  BY <1>0, <1>2
<1>4. \A k : Recorded(k)' <=>
        \/ \E i \in 1..Len(goals) : /\ goals[i].list = srv'.current.id
                                    /\ goals[i].index = k /\ goals[i].state = "settled"
        \/ \E i \in 1..Len(failedIds) : /\ failedIds[i].list = srv'.current.id
                                        /\ failedIds[i].index = k
  BY <1>2, <1>3 DEF Recorded
<1>5. /\ srv'.current.id <= srv.requests
      /\ srv'.current.id = srv.current.id \/ srv'.current.id = srv.pending.id
  BY DEF IdsWereGiven
<1>6. IdsWereGiven'
  BY <1>0, <1>1, <1>2, <1>3, <1>5 DEF IdsWereGiven
<1>7. ThreadFollowsServer'
  BY <1>1 DEF ThreadFollowsServer
<1>8. ListsStartClean'
  BY <1>1 DEF ListsStartClean
<1>9. ~Over'
  BY <1>2 DEF Over
<1>10. CASE srv'.current = srv.current /\ thread'.index = thread.index /\ thread.newGoal
  <2>1. /\ \A i \in 1..Len(goals) : goals[i].list = srv.current.id =>
             goals[i].index < thread.index
        /\ \A i \in 1..Len(failedIds) :
             failedIds[i].list = srv.current.id => failedIds[i].index < thread.index
        /\ \A k \in 0..(thread.index - 1) : Recorded(k)
    BY <1>10 DEF GoalsFollowIndex
  <2>2. \A k : Recorded(k)' <=> Recorded(k)
    BY <1>4, <1>10 DEF Recorded
  <2>3. GoalsFollowIndex'
    BY <1>2, <1>3, <1>10, <2>1, <2>2 DEF GoalsFollowIndex
  <2>4. CountNext
    BY <1>1, <1>9, <1>10 DEF CountNext, Wanted, Count, Over
  <2> QED
    BY <1>6, <1>7, <1>8, <2>3, <2>4
<1>11. CASE srv.pending # NoGoal /\ srv'.current = srv.pending /\ thread'.index = 0
  <2>1. Untouched(srv'.current.id)
    BY <1>11 DEF ListsStartClean
  <2>2. GoalsFollowIndex'
    BY <1>2, <1>3, <1>11, <2>1 DEF GoalsFollowIndex, Untouched
  <2>3. srv'.current.len \in Nat
    BY DEF FollowTypeOK, Lists
  <2>4. CountNext
    BY <1>1, <1>9, <1>11, <2>3 DEF CountNext, Wanted, Count
  <2> QED
    BY <1>6, <1>7, <1>8, <2>2, <2>4
<1> QED
  BY <1>10, <1>11

-----------------------------------------------------------------------------
\* Rewriting the state of one goal keeps the others and their number.
LEMMA GoalRewritten ==
    ASSUME FollowTypeOK, NEW i \in 1..Len(goals), NEW r \in NavGoals,
           r.list = goals[i].list, r.index = goals[i].index,
           goals' = [goals EXCEPT ![i] = r]
    PROVE  /\ goals' \in Seq(NavGoals) /\ Len(goals') = Len(goals) /\ goals'[i] = r
           /\ \A j \in 1..Len(goals) :
                /\ goals'[j].list = goals[j].list /\ goals'[j].index = goals[j].index
                /\ j # i => goals'[j] = goals[j]
<1>1. goals \in Seq(NavGoals)
  BY DEF FollowTypeOK
<1>2. /\ goals' \in Seq(NavGoals) /\ Len(goals') = Len(goals) /\ goals'[i] = r
      /\ \A j \in 1..Len(goals) : j # i => goals'[j] = goals[j]
  BY <1>1, ExceptSeq
<1> QED
  BY <1>2

\* The answer of Nav2 to a goal, its end, and the acceptance a callback notes.
LEMMA AnswerStep ==
    ASSUME FollowInv, NEW i \in 1..Len(goals),
           NEW s \in {"accepted", "rejected", "running", "ended"},
           NEW c \in {"none", "succeeded", "aborted", "canceled"},
           goals[i].state # "settled",
           goals' = [goals EXCEPT ![i] = [goals[i] EXCEPT !.state = s, !.code = c]],
           UNCHANGED <<srv, thread, status, failedIds, report>>
    PROVE  FollowInv' /\ CountNext
<1> USE DEF FollowInv
<1> DEFINE r == [goals[i] EXCEPT !.state = s, !.code = c]
<1>1. goals[i] \in NavGoals
  BY FollowFields
<1>2. /\ r \in NavGoals /\ r.list = goals[i].list /\ r.index = goals[i].index
      /\ r.state = s
  BY <1>1 DEF NavGoals
<1> HIDE DEF r
<1>3. /\ goals' \in Seq(NavGoals) /\ Len(goals') = Len(goals) /\ goals'[i] = r
      /\ \A j \in 1..Len(goals) :
           /\ goals'[j].list = goals[j].list /\ goals'[j].index = goals[j].index
           /\ j # i => goals'[j] = goals[j]
  BY <1>2, GoalRewritten DEF r
<1>4. \A j \in 1..Len(goals) : goals'[j].state = "settled" <=> goals[j].state = "settled"
  BY <1>2, <1>3
<1>5. FollowTypeOK'
  BY <1>3 DEF FollowTypeOK
<1> QED
  BY <1>3, <1>4, <1>5, QuietStep

\* The life cycle, requests and cancels that do not start a list, and the loop's
\* steps that decide nothing.
LEMMA OtherThreads ==
    ASSUME FollowInv,
           \/ OnConfigure \/ OnActivate \/ RequestCancel
           \/ \E v \in BOOLEAN : SetStopOnFailure(v)
           \/ Wait \/ SpinSomeDone \/ PreemptedByEmpty
    PROVE  FollowInv' /\ CountNext
<1> USE DEF FollowInv
<1>1. /\ UNCHANGED <<status, goals, failedIds, report>>
      /\ \/ srv' = srv
         \/ srv' = [srv EXCEPT !.active = TRUE] \/ srv' = [srv EXCEPT !.active = FALSE]
         \/ srv' = [srv EXCEPT !.cancel = TRUE]
      /\ \/ thread' = thread
         \/ \E a \in {"spin", "cancel", "dead"} : Working /\ thread' = [thread EXCEPT !.at = a]
  BY DEF OnConfigure, OnActivate, RequestCancel, SetStopOnFailure, Wait, SpinSomeDone,
     PreemptedByEmpty, Working
<1>2. /\ srv' \in [active : BOOLEAN, current : Lists, pending : Lists, cancel : BOOLEAN,
                   requests : Nat]
      /\ srv'.current = srv.current /\ srv'.pending = srv.pending
      /\ srv'.requests = srv.requests
  BY <1>1 DEF FollowTypeOK
<1>3. /\ thread' \in [at : Places, list : Lists, index : Nat, newGoal : BOOLEAN]
      /\ thread'.list = thread.list /\ thread'.index = thread.index
      /\ thread'.newGoal = thread.newGoal
      /\ thread' = thread \/ (Working /\ thread'.at \notin {"idle", "process"})
  BY <1>1 DEF FollowTypeOK, Places
<1>4. FollowTypeOK'
  BY <1>1, <1>2, <1>3 DEF FollowTypeOK
<1> QED
  BY <1>1, <1>2, <1>3, <1>4, QuietStep

\* A cancel ends every goal that runs at Nav2; none of them is settled by it.
LEMMA CancelAllStep == ASSUME FollowInv, CancelAll PROVE FollowInv' /\ CountNext
<1> USE DEF FollowInv
<1> DEFINE e(i) == IF goals[i].state = "running"
                   THEN [goals[i] EXCEPT !.state = "ended", !.code = "canceled"]
                   ELSE goals[i]
<1>1. /\ goals' = [i \in 1..Len(goals) |-> e(i)]
      /\ thread' = [thread EXCEPT !.at = "canceling"] /\ Working
      /\ UNCHANGED <<srv, status, failedIds, report>>
  BY FollowFields DEF CancelAll, Working
<1>2. \A i \in 1..Len(goals) :
        /\ e(i) \in NavGoals /\ e(i).list = goals[i].list /\ e(i).index = goals[i].index
        /\ e(i).state = "settled" <=> goals[i].state = "settled"
  <2>1. \A i \in 1..Len(goals) : goals[i] \in NavGoals
    BY FollowFields
  <2> QED
    BY <2>1 DEF NavGoals
<1> HIDE DEF e
<1>3. Len(goals) \in Nat
  BY FollowFields
<1>4. goals' \in [1..Len(goals) -> NavGoals]
  BY <1>1, <1>2
<1>5. goals' \in Seq(NavGoals) /\ DOMAIN goals' = 1..Len(goals)
  BY <1>3, <1>4
<1>6. Len(goals') = Len(goals)
  BY <1>3, <1>5
<1>7. \A i \in 1..Len(goals) :
        /\ goals'[i].list = goals[i].list /\ goals'[i].index = goals[i].index
        /\ goals'[i].state = "settled" <=> goals[i].state = "settled"
  BY <1>1, <1>2
<1>8. /\ thread' \in [at : Places, list : Lists, index : Nat, newGoal : BOOLEAN]
      /\ thread'.list = thread.list /\ thread'.index = thread.index
      /\ thread'.newGoal = thread.newGoal /\ thread'.at = "canceling"
  BY <1>1 DEF FollowTypeOK, Places
<1>9. FollowTypeOK'
  BY <1>1, <1>5, <1>8 DEF FollowTypeOK
<1> QED
  BY <1>1, <1>6, <1>7, <1>8, <1>9, QuietStep

\* goalResponseCallback: an acceptance is noted, a rejection settles the goal.
LEMMA GoalResponseStep ==
    ASSUME FollowInv, NEW i \in 1..Len(goals), GoalResponse(i)
    PROVE  FollowInv' /\ CountNext
<1> USE DEF FollowInv
<1>0. goals[i] \in NavGoals /\ goals \in Seq(NavGoals)
  BY FollowFields DEF FollowTypeOK
<1>1. UNCHANGED <<srv, thread, failedIds, report>>
  BY DEF GoalResponse
<1>2. CASE goals[i].state = "accepted"
  <2>1. goals' = [goals EXCEPT ![i] = [goals[i] EXCEPT !.state = "running",
                                                        !.code = goals[i].code]]
    BY <1>0, <1>2 DEF GoalResponse, NavGoals
  <2>2. goals[i].code \in {"none", "succeeded", "aborted", "canceled"} /\ status' = status
    BY <1>0, <1>2 DEF GoalResponse, NavGoals
  <2> QED
    BY <1>1, <1>2, <2>1, <2>2, AnswerStep
<1>3. CASE goals[i].state = "rejected"
  <2> DEFINE r == [goals[i] EXCEPT !.state = "settled"]
  <2>1. goals' = [goals EXCEPT ![i] = r] /\ status' = "failed"
    BY <1>0, <1>3 DEF GoalResponse
  <2>2. /\ r \in NavGoals /\ r.list = goals[i].list /\ r.index = goals[i].index
        /\ r.state = "settled"
    BY <1>0 DEF NavGoals
  <2> HIDE DEF r
  <2>3. /\ goals' \in Seq(NavGoals) /\ Len(goals') = Len(goals) /\ goals'[i] = r
        /\ \A j \in 1..Len(goals) :
             /\ goals'[j].list = goals[j].list /\ goals'[j].index = goals[j].index
             /\ j # i => goals'[j] = goals[j]
    BY <2>1, <2>2, GoalRewritten
  <2>4. FollowTypeOK'
    BY <1>1, <2>1, <2>3 DEF FollowTypeOK, Statuses
  <2>5. Working /\ thread.at # "process"
    BY DEF GoalResponse, Spinning, Working
  <2> QED
    BY <1>1, <2>1, <2>2, <2>3, <2>4, <2>5, SettlingStep
<1> QED
  BY <1>2, <1>3 DEF GoalResponse

\* resultCallback: it blocks the thread, or settles the goal; the status follows
\* only the result of the latest goal.
LEMMA ResultStep ==
    ASSUME FollowInv, NEW i \in 1..Len(goals), ResultOf(i)
    PROVE  FollowInv' /\ CountNext
<1> USE DEF FollowInv
<1>0. goals[i] \in NavGoals /\ goals \in Seq(NavGoals)
  BY FollowFields DEF FollowTypeOK
<1>1. UNCHANGED <<srv, failedIds, report>> /\ Working /\ thread.at # "process"
  BY DEF ResultOf, Spinning, Working
<1>2. CASE ~HandleIsHere
  <2>1. thread' = [thread EXCEPT !.at = "blocked"] /\ UNCHANGED <<status, goals>>
    BY <1>2 DEF ResultOf
  <2>2. /\ thread' \in [at : Places, list : Lists, index : Nat, newGoal : BOOLEAN]
        /\ thread'.list = thread.list /\ thread'.index = thread.index
        /\ thread'.newGoal = thread.newGoal /\ thread'.at = "blocked"
    BY <2>1 DEF FollowTypeOK, Places
  <2>3. FollowTypeOK'
    BY <1>1, <2>1, <2>2 DEF FollowTypeOK
  <2> QED
    BY <1>1, <2>1, <2>2, <2>3, QuietStep
<1>3. CASE HandleIsHere
  <2> DEFINE r == [goals[i] EXCEPT !.state = "settled"]
  <2>1. goals' = [goals EXCEPT ![i] = r] /\ thread' = thread
    BY <1>0, <1>3 DEF ResultOf
  <2>2. /\ r \in NavGoals /\ r.list = goals[i].list /\ r.index = goals[i].index
        /\ r.state = "settled"
    BY <1>0 DEF NavGoals
  <2> HIDE DEF r
  <2>3. /\ goals' \in Seq(NavGoals) /\ Len(goals') = Len(goals) /\ goals'[i] = r
        /\ \A j \in 1..Len(goals) :
             /\ goals'[j].list = goals[j].list /\ goals'[j].index = goals[j].index
             /\ j # i => goals'[j] = goals[j]
    BY <2>1, <2>2, GoalRewritten
  <2>4. (status' = status \/ i = Len(goals)) /\ status' \in Statuses
    BY <1>3 DEF ResultOf, FollowTypeOK, Statuses
  <2>5. FollowTypeOK'
    BY <1>1, <2>1, <2>3, <2>4 DEF FollowTypeOK
  <2> QED
    BY <1>1, <2>1, <2>2, <2>3, <2>4, <2>5, SettlingStep
<1> QED
  BY <1>2, <1>3

\* navigate_to_pose answers a goal or ends it.
LEMMA NavStep ==
    ASSUME FollowInv, NEW i \in 1..Len(goals),
           \/ \E a \in {"accepted", "rejected"} : NavResponds(i, a)
           \/ \E c \in {"succeeded", "aborted", "canceled"} : NavEnds(i, c)
    PROVE  FollowInv' /\ CountNext
<1> USE DEF FollowInv
<1>0. goals[i] \in NavGoals /\ goals \in Seq(NavGoals)
  BY FollowFields DEF FollowTypeOK
<1>1. CASE \E a \in {"accepted", "rejected"} : NavResponds(i, a)
  <2>1. PICK a \in {"accepted", "rejected"} : NavResponds(i, a)
    BY <1>1
  <2>2. /\ goals' = [goals EXCEPT ![i] = [goals[i] EXCEPT !.state = a, !.code = goals[i].code]]
        /\ goals[i].code \in {"none", "succeeded", "aborted", "canceled"}
        /\ goals[i].state # "settled"
        /\ UNCHANGED <<srv, thread, status, failedIds, report>>
    BY <1>0, <2>1 DEF NavResponds, NavGoals
  <2> QED
    BY <2>2, AnswerStep
<1>2. CASE \E c \in {"succeeded", "aborted", "canceled"} : NavEnds(i, c)
  <2>1. PICK c \in {"succeeded", "aborted", "canceled"} : NavEnds(i, c)
    BY <1>2
  <2>2. /\ goals' = [goals EXCEPT ![i] = [goals[i] EXCEPT !.state = "ended", !.code = c]]
        /\ goals[i].state # "settled"
        /\ UNCHANGED <<srv, thread, status, failedIds, report>>
    BY <1>0, <2>1 DEF NavEnds, NavGoals
  <2> QED
    BY <2>2, AnswerStep
<1> QED
  BY <1>1, <1>2

-----------------------------------------------------------------------------
(* The steps that start, replace, advance or end a list.                   *)

\* The node is deactivated at rest: its lists are dropped.
LEMMA OnDeactivateStep == ASSUME FollowInv, OnDeactivate PROVE FollowInv' /\ CountNext
<1> USE DEF FollowInv
<1>1. /\ ~Working /\ thread' = thread /\ thread = Idle
      /\ UNCHANGED <<status, goals, failedIds>>
  BY DEF OnDeactivate, Working, ThreadFollowsServer
<1>2. /\ srv' \in [active : BOOLEAN, current : Lists, pending : Lists, cancel : BOOLEAN,
                   requests : Nat]
      /\ srv'.current = NoGoal /\ srv'.pending = NoGoal /\ srv'.requests = srv.requests
  BY DEF OnDeactivate, FollowTypeOK, Lists
<1>3. CASE srv.current = NoGoal
  <2>1. report' = report
    BY <1>3 DEF OnDeactivate
  <2>2. FollowTypeOK'
    BY <1>1, <1>2, <2>1 DEF FollowTypeOK
  <2>3. srv.requests \in Nat /\ NoGoal.id = 0
    BY FollowFields DEF NoGoal
  <2>4. srv.requests <= srv'.requests /\ srv'.pending.id <= srv'.requests
    BY <1>2, <2>3
  <2> QED
    BY <1>1, <1>2, <1>3, <2>1, <2>2, <2>4, QuietStep
<1>4. CASE srv.current # NoGoal
  <2>1. report'.verdict = "terminated"
    BY <1>4 DEF OnDeactivate
  <2>2. FollowTypeOK'
    BY <1>1, <1>2, <2>1 DEF FollowTypeOK
  <2> QED
    BY <1>1, <1>2, <1>4, <2>1, <2>2, EndingStep
<1> QED
  BY <1>3, <1>4

\* A request starts its list at rest, and is pending otherwise.
LEMMA RequestStep ==
    ASSUME FollowInv, NEW n \in Nat, Request(n)
    PROVE  FollowInv' /\ CountNext
<1> USE DEF FollowInv
<1> DEFINE new == [id |-> srv.requests + 1, len |-> n]
<1>0. /\ srv.requests \in Nat /\ srv.current.id \in Nat
      /\ \A i \in 1..Len(goals) : goals[i].list \in Nat
      /\ \A i \in 1..Len(failedIds) : failedIds[i].list \in Nat
  BY FollowFields
<1>1. /\ new \in Lists /\ new # NoGoal /\ new.id = srv.requests + 1
      /\ NoGoal \in Lists /\ NoGoal.id = 0
  BY <1>0 DEF Lists, NoGoal
<1>2. /\ srv' = [srv EXCEPT !.requests = @ + 1,
                            !.current = IF Rests THEN new ELSE @,
                            !.pending = IF Rests THEN NoGoal ELSE new]
      /\ UNCHANGED <<thread, status, failedIds, goals, report>>
  BY DEF Request
<1> HIDE DEF new
<1>3. /\ srv' \in [active : BOOLEAN, current : Lists, pending : Lists, cancel : BOOLEAN,
                   requests : Nat]
      /\ srv'.requests = srv.requests + 1
      /\ Rests => srv'.current = new /\ srv'.pending = NoGoal
      /\ ~Rests => srv'.current = srv.current /\ srv'.pending = new
  <2>0. /\ srv \in [active : BOOLEAN, current : Lists, pending : Lists, cancel : BOOLEAN,
                    requests : Nat]
        /\ srv.requests + 1 \in Nat
    BY <1>0 DEF FollowTypeOK
  <2> HIDE DEF FollowInv
  <2>1. CASE Rests
    <3>1. srv' = [srv EXCEPT !.requests = @ + 1, !.current = new, !.pending = NoGoal]
      BY <1>2, <2>1
    <3> QED
      BY <1>0, <1>1, <2>1, <3>1, <2>0
  <2>2. CASE ~Rests
    <3>1. srv' = [srv EXCEPT !.requests = @ + 1, !.current = srv.current, !.pending = new]
      BY <1>2, <2>2
    <3> QED
      BY <1>0, <1>1, <2>2, <3>1, <2>0
  <2> QED
    BY <2>1, <2>2
<1>4. FollowTypeOK'
  BY <1>2, <1>3 DEF FollowTypeOK
<1>5. Untouched(new.id) /\ new.id # srv.current.id
  BY <1>0, <1>1 DEF Untouched, IdsWereGiven
<1>6. srv.requests <= srv'.requests /\ new.id <= srv'.requests
  BY <1>0, <1>1, <1>3
<1>7. CASE Rests
  <2>1. ~Working /\ srv.current = NoGoal
    BY <1>7 DEF Rests, Working
  <2> QED
    BY <1>1, <1>2, <1>3, <1>4, <1>5, <1>6, <1>7, <2>1, TakingStep
<1>8. CASE ~Rests
  BY <1>1, <1>2, <1>3, <1>4, <1>5, <1>6, <1>8, QuietStep
<1> QED
  BY <1>7, <1>8

\* The list that was pending when the other ended is taken up.
LEMMA AcceptPendingStep == ASSUME FollowInv, AcceptPending PROVE FollowInv' /\ CountNext
<1> USE DEF FollowInv
<1>0. srv.requests \in Nat
  BY FollowFields
<1>1. /\ ~Working /\ srv.current = NoGoal /\ srv.pending # NoGoal
      /\ UNCHANGED <<thread, status, failedIds, goals, report>>
  BY DEF AcceptPending, Working
<1>2. /\ srv' \in [active : BOOLEAN, current : Lists, pending : Lists, cancel : BOOLEAN,
                   requests : Nat]
      /\ srv'.current = srv.pending /\ srv'.pending = NoGoal
      /\ srv'.requests = srv.requests
  BY DEF AcceptPending, FollowTypeOK, Lists
<1>3. FollowTypeOK'
  BY <1>1, <1>2 DEF FollowTypeOK
<1>4. Untouched(srv.pending.id) /\ srv.pending.id <= srv.requests
  BY <1>1 DEF ListsStartClean, IdsWereGiven
<1>5. srv.requests <= srv'.requests
  BY <1>0, <1>2
<1> QED
  BY <1>1, <1>2, <1>3, <1>4, <1>5, TakingStep

\* The thread starts on the list, or ends it at once when it is empty.
LEMMA ExecuteStep == ASSUME FollowInv, Execute PROVE FollowInv' /\ CountNext
<1> USE DEF FollowInv
<1>0. /\ srv.current # NoGoal /\ ~Working /\ thread = Idle
      /\ UNCHANGED <<status, failedIds, goals>>
  BY DEF Execute, Working, ThreadFollowsServer
<1>1. CASE srv.current.len = 0
  <2>1. /\ report'.verdict = "succeeded" /\ thread' = Idle
        /\ srv' = [srv EXCEPT !.current = NoGoal, !.cancel = FALSE]
    BY <1>1 DEF Execute, Conclude
  <2>2. /\ srv' \in [active : BOOLEAN, current : Lists, pending : Lists, cancel : BOOLEAN,
                     requests : Nat]
        /\ srv'.current = NoGoal /\ srv'.pending = srv.pending
        /\ srv'.requests = srv.requests
    BY <2>1 DEF FollowTypeOK, Lists
  <2>3. FollowTypeOK'
    BY <1>0, <2>1, <2>2 DEF FollowTypeOK
  <2>4. Count = srv.current.len
    BY <1>0, <1>1 DEF Count
  <2> QED
    BY <1>0, <2>1, <2>2, <2>3, <2>4, EndingStep
<1>2. CASE srv.current.len # 0
  <2>1. /\ thread' = [at |-> "cancel", list |-> srv.current, index |-> 0, newGoal |-> TRUE]
        /\ UNCHANGED <<srv, report>>
    BY <1>2 DEF Execute
  <2>2. srv.current \in Lists /\ srv.current.len \in Nat /\ srv.current.len > 0
    BY <1>0, <1>2, FollowFields
  <2>3. FollowTypeOK'
    BY <1>0, <2>1, <2>2 DEF FollowTypeOK, Places
  <2>4. /\ Working' /\ thread'.list = srv.current /\ thread'.index = 0
        /\ thread'.newGoal = TRUE /\ thread'.at # "process"
    BY <2>1 DEF Working
  <2>5. Untouched(srv.current.id)
    BY <1>0 DEF ListsStartClean
  <2>6. IdsWereGiven' /\ ListsStartClean'
    BY <1>0, <2>1, <2>4 DEF IdsWereGiven, ListsStartClean, Untouched
  <2>7. ThreadFollowsServer'
    BY <1>0, <2>1, <2>2, <2>4 DEF ThreadFollowsServer
  <2>8. GoalsFollowIndex'
    BY <1>0, <2>1, <2>4, <2>5 DEF GoalsFollowIndex, Untouched
  <2>9. CountNext
    BY <1>0, <2>1, <2>4 DEF CountNext, Count, Wanted, Over
  <2> QED
    BY <2>3, <2>6, <2>7, <2>8, <2>9
<1> QED
  BY <1>1, <1>2

\* The cancelled lists are terminated.
LEMMA TerminateAllStep == ASSUME FollowInv, TerminateAll PROVE FollowInv' /\ CountNext
<1> USE DEF FollowInv
<1>1. /\ srv.current # NoGoal /\ thread' = Idle /\ report'.verdict = "terminated"
      /\ UNCHANGED <<status, failedIds, goals>>
  BY DEF TerminateAll, Working, ThreadFollowsServer
<1>2. /\ srv' \in [active : BOOLEAN, current : Lists, pending : Lists, cancel : BOOLEAN,
                   requests : Nat]
      /\ srv'.current = NoGoal /\ srv'.pending = NoGoal /\ srv'.requests = srv.requests
  BY DEF TerminateAll, FollowTypeOK, Lists
<1>3. FollowTypeOK'
  BY <1>1, <1>2 DEF FollowTypeOK, Idle, Places, Lists
<1> QED
  BY <1>1, <1>2, <1>3, EndingStep

\* The loop reads the flags, is preempted or not, and sends the goal if it is new.
LEMMA SendGoalStep == ASSUME FollowInv, SendGoal PROVE FollowInv' /\ CountNext
<1> USE DEF FollowInv
<1> DEFINE preempt == srv.pending # NoGoal
           list    == IF preempt THEN srv.pending ELSE thread.list
           index   == IF preempt THEN 0 ELSE thread.index
           goal    == [list |-> list.id, index |-> index, state |-> "sent", code |-> "none"]
<1>1. /\ Working /\ srv.current # NoGoal /\ thread.list = srv.current
      /\ srv.pending = NoGoal \/ srv.pending.len > 0
      /\ thread' = [at |-> "process", list |-> list, index |-> index, newGoal |-> FALSE]
      /\ UNCHANGED <<failedIds, report>>
  BY DEF SendGoal, Working, ThreadFollowsServer
<1>2. /\ preempt \/ thread.newGoal => /\ goals' = Append(goals, goal)
                                      /\ status' = "processing"
      /\ ~(preempt \/ thread.newGoal) => goals' = goals /\ status' = status
  BY DEF SendGoal
<1>3. /\ srv' \in [active : BOOLEAN, current : Lists, pending : Lists, cancel : BOOLEAN,
                   requests : Nat]
      /\ srv'.requests = srv.requests /\ srv'.pending = NoGoal
      /\ preempt => srv'.current = srv.pending
      /\ ~preempt => srv'.current = srv.current
  BY DEF SendGoal, FollowTypeOK, Lists
<1>4. /\ list \in Lists /\ list # NoGoal /\ list = srv'.current /\ index \in Nat
      /\ list.id \in Nat \ {0}
  <2>1. thread.index \in Nat
    BY FollowFields
  <2>2. /\ preempt => srv.pending \in Lists /\ srv.pending.id \in Nat \ {0}
        /\ srv.current \in Lists /\ srv.current.id \in Nat \ {0}
    BY <1>1, FollowFields
  <2> QED
    BY <1>1, <1>3, <2>1, <2>2
<1>5. /\ thread'.at = "process" /\ thread'.list = list /\ thread'.index = index
      /\ thread'.newGoal = FALSE
      /\ thread' \in [at : Places, list : Lists, index : Nat, newGoal : BOOLEAN]
  BY <1>1, <1>4 DEF Places
<1>6. goal \in NavGoals
  BY <1>4 DEF NavGoals
<1>7. /\ preempt => list = srv.pending /\ index = 0
      /\ ~preempt => list = thread.list /\ index = thread.index
  OBVIOUS
<1>8. CASE preempt \/ thread.newGoal
  <2>1. goals' \in Seq(NavGoals) /\ status' \in Statuses
    <3>1. goals \in Seq(NavGoals)
      BY DEF FollowTypeOK
    <3>2. goals' = Append(goals, goal) /\ status' = "processing"
      BY <1>2, <1>8
    <3> HIDE DEF goal
    <3> QED
      BY <1>6, <3>1, <3>2 DEF Statuses
  <2>2. FollowTypeOK'
    BY <1>1, <1>3, <1>5, <2>1 DEF FollowTypeOK
  <2>3. goals' = Append(goals, [list |-> srv'.current.id, index |-> thread'.index,
                                state |-> "sent", code |-> "none"])
    BY <1>2, <1>4, <1>5, <1>8
  <2>4. \/ /\ srv'.current = srv.current /\ srv.pending = NoGoal
           /\ thread'.index = thread.index /\ thread.newGoal
        \/ /\ srv.pending # NoGoal /\ srv'.current = srv.pending
           /\ srv.pending.len > 0 /\ thread'.index = 0
    BY <1>1, <1>3, <1>5, <1>8
  <2>5. /\ srv'.requests = srv.requests /\ srv'.pending = NoGoal /\ srv'.current # NoGoal
        /\ thread'.list = srv'.current /\ status' = "processing"
        /\ failedIds' = failedIds /\ report' = report
    BY <1>1, <1>2, <1>3, <1>4, <1>5, <1>8
  <2> HIDE DEF list, index, goal, preempt, FollowInv
  <2> QED
    BY <1>1, <1>5, <2>2, <2>3, <2>4, <2>5, SendingStep
<1>9. CASE ~(preempt \/ thread.newGoal)
  <2>1. UNCHANGED <<goals, status>>
    BY <1>2, <1>9
  <2>2. FollowTypeOK'
    BY <1>1, <1>3, <1>5, <2>1 DEF FollowTypeOK
  <2>3. /\ srv'.current = srv.current /\ srv'.pending = srv.pending
        /\ srv'.requests = srv.requests
    BY <1>3, <1>9
  <2>4. /\ thread'.list = thread.list /\ thread'.index = thread.index
        /\ thread'.newGoal = thread.newGoal
    BY <1>5, <1>9, FollowFields
  <2> HIDE DEF list, index, goal, preempt
  <2> QED
    BY <1>1, <1>5, <2>1, <2>2, <2>3, <2>4, QuietStep
<1> QED
  BY <1>8, <1>9

\* The status of the waypoint is final: the list ends, or its next waypoint is due.
LEMMA ProcessedStep ==
    ASSUME FollowInv, NEW t \in BOOLEAN, Processed(t)
    PROVE  FollowInv' /\ CountNext
<1> USE DEF FollowInv
<1> DEFINE bad    == status = "failed" \/ ~t
           missed == IF status = "failed" \/ (bad /\ stopOnFailure) THEN Missed ELSE failedIds
           over   == thread.index + 1 >= thread.list.len
<1>1. /\ thread.at = "process" /\ status \in {"failed", "succeeded"}
      /\ Working /\ srv.current # NoGoal /\ thread.list = srv.current /\ ~thread.newGoal
      /\ thread.index < srv.current.len
      /\ UNCHANGED <<status, goals>>
  BY DEF Processed, Working, ThreadFollowsServer, GoalsFollowIndex
<1>2. /\ thread.index \in Nat /\ srv.current.len \in Nat /\ srv.current.id \in Nat \ {0}
  BY <1>1, FollowFields
<1>3. Over
  BY <1>1 DEF Over, GoalsFollowIndex
<1>4. CASE (bad /\ stopOnFailure) \/ over
  <2>1. /\ report'.verdict = IF bad /\ stopOnFailure THEN "terminated" ELSE "succeeded"
        /\ srv' = [srv EXCEPT !.current = NoGoal, !.cancel = FALSE]
        /\ thread' = Idle /\ failedIds' = <<>>
    BY <1>4 DEF Processed, Conclude
  <2>2. /\ srv' \in [active : BOOLEAN, current : Lists, pending : Lists, cancel : BOOLEAN,
                     requests : Nat]
        /\ srv'.current = NoGoal /\ srv'.pending = srv.pending
        /\ srv'.requests = srv.requests
    BY <2>1 DEF FollowTypeOK, Lists
  <2>3. FollowTypeOK'
    <3>1. failedIds' \in Seq(Failures)
      BY <2>1
    <3>2. thread' \in [at : Places, list : Lists, index : Nat, newGoal : BOOLEAN]
      BY <2>1 DEF Idle, Places, Lists
    <3>3. report'.verdict \in {"none", "terminated", "succeeded"}
      BY <2>1
    <3> QED
      BY <1>1, <2>2, <3>1, <3>2, <3>3 DEF FollowTypeOK
  <2>4. \/ report'.verdict = "terminated"
        \/ report'.verdict = "succeeded" /\ Count = srv.current.len
    <3>1. CASE bad /\ stopOnFailure
      BY <2>1, <3>1
    <3>2. CASE ~(bad /\ stopOnFailure)
      <4>1. thread.index + 1 = srv.current.len
        BY <1>1, <1>2, <1>4, <3>2
      <4> QED
        BY <1>1, <1>3, <2>1, <3>2, <4>1 DEF Count
    <3> QED
      BY <3>1, <3>2
  <2> QED
    BY <1>1, <2>1, <2>2, <2>3, <2>4, EndingStep
<1>5. CASE ~((bad /\ stopOnFailure) \/ over)
  <2>1. /\ thread' = [thread EXCEPT !.at = "spin", !.index = @ + 1, !.newGoal = TRUE]
        /\ failedIds' = missed /\ UNCHANGED <<srv, report>>
    BY <1>5 DEF Processed
  <2>2. \/ status = "succeeded" /\ failedIds' = failedIds
        \/ status = "failed" /\ failedIds' = Missed
    BY <1>1, <1>5, <2>1
  <2>3. thread.index + 1 < thread.list.len
    BY <1>1, <1>2, <1>5
  <2>4. failedIds' \in Seq(Failures)
    <3>1. [list |-> thread.list.id, index |-> thread.index] \in Failures
      BY <1>1, <1>2 DEF Failures
    <3>2. failedIds \in Seq(Failures)
      BY DEF FollowTypeOK
    <3>3. Missed \in Seq(Failures)
      BY <3>1, <3>2 DEF Missed
    <3> QED
      BY <2>2, <3>2, <3>3
  <2>5. thread' \in [at : Places, list : Lists, index : Nat, newGoal : BOOLEAN]
    <3>1. /\ thread \in [at : Places, list : Lists, index : Nat, newGoal : BOOLEAN]
          /\ thread.index + 1 \in Nat /\ "spin" \in Places /\ TRUE \in BOOLEAN
      BY <1>2 DEF FollowTypeOK, Places
    <3> QED
      BY <2>1, <3>1
  <2>6. FollowTypeOK'
    BY <1>1, <2>1, <2>4, <2>5 DEF FollowTypeOK
  <2> HIDE DEF bad, missed, over, FollowInv
  <2> QED
    BY <1>1, <2>1, <2>2, <2>3, <2>6, AdvancingStep
<1> QED
  BY <1>4, <1>5

-----------------------------------------------------------------------------
(* The theorems.                                                           *)

\* The invariant holds at the start.
LEMMA FollowInvInit == ASSUME FollowInit PROVE FollowInv
<1>1. /\ srv.current = NoGoal /\ srv.pending = NoGoal /\ srv.requests = 0
      /\ thread = Idle /\ goals = <<>> /\ failedIds = <<>> /\ NoGoal.id = 0
  BY DEF FollowInit, NoGoal
<1>2. ~Working /\ Len(goals) = 0 /\ Len(failedIds) = 0
  BY <1>1 DEF Working, Idle
<1>3. FollowTypeOK
  BY DEF FollowInit, FollowTypeOK, Lists, Idle, Places, Statuses
<1>4. IdsWereGiven
  BY <1>1, <1>2 DEF IdsWereGiven
<1>5. ThreadFollowsServer /\ ListsStartClean /\ GoalsFollowIndex
  BY <1>1, <1>2 DEF ThreadFollowsServer, ListsStartClean, GoalsFollowIndex
<1> QED
  BY <1>3, <1>4, <1>5 DEF FollowInv

\* Every step keeps the invariant and is, on the counts, a step of WaypointList.
LEMMA FollowStep ==
    ASSUME FollowInv, [FollowNext]_followVars
    PROVE  FollowInv' /\ CountNext
<1>1. CASE UNCHANGED followVars
  <2>1. UNCHANGED <<srv, thread, status, failedIds, goals, report>>
    BY <1>1 DEF followVars
  <2>2. FollowTypeOK'
    BY <2>1 DEF FollowInv, FollowTypeOK
  <2> QED
    BY <2>1, <2>2, QuietStep
<1>2. CASE \/ OnConfigure \/ OnActivate \/ RequestCancel
           \/ \E v \in BOOLEAN : SetStopOnFailure(v)
           \/ Wait \/ SpinSomeDone \/ PreemptedByEmpty
  BY <1>2, OtherThreads
<1>3. CASE OnDeactivate
  BY <1>3, OnDeactivateStep
<1>4. CASE \E n \in 0 .. MaxList : Request(n)
  <2>1. PICK n \in 0 .. MaxList : Request(n)
    BY <1>4
  <2>2. n \in Nat
    BY FollowAssumption
  <2> QED
    BY <2>1, <2>2, RequestStep
<1>5. CASE AcceptPending
  BY <1>5, AcceptPendingStep
<1>6. CASE Execute
  BY <1>6, ExecuteStep
<1>7. CASE CancelAll
  BY <1>7, CancelAllStep
<1>8. CASE TerminateAll
  BY <1>8, TerminateAllStep
<1>9. CASE SendGoal
  BY <1>9, SendGoalStep
<1>10. CASE \E t \in BOOLEAN : Processed(t)
  BY <1>10, ProcessedStep
<1>11. CASE \E i \in DOMAIN goals :
              \/ GoalResponse(i) \/ ResultOf(i)
              \/ \E a \in {"accepted", "rejected"} : NavResponds(i, a)
              \/ \E c \in {"succeeded", "aborted", "canceled"} : NavEnds(i, c)
  <2>1. DOMAIN goals = 1..Len(goals)
    BY FollowFields DEF FollowInv
  <2> QED
    BY <1>11, <2>1, GoalResponseStep, ResultStep, NavStep
<1> QED
  BY <1>1, <1>2, <1>3, <1>4, <1>5, <1>6, <1>7, <1>8, <1>9, <1>10, <1>11 DEF FollowNext

\* In every state of the server the thread works on the server's current list, its
\* records are those of the waypoints before the index and of the one at it, and no
\* goal and no failure belongs to a list that was not started.
THEOREM FollowInvariance == FollowSpec => []FollowInv
<1>1. FollowInv /\ [FollowNext]_followVars => FollowInv'
  BY FollowStep
<1> QED
  BY FollowInvInit, <1>1, PTL DEF FollowSpec

\* KeepsItsPromise: followWaypoints implements WaypointList for lists of every
\* length.  Each list is worked through from its start, its waypoints are accounted
\* for one by one, and it is reported as succeeded only when every one is, however
\* late and in whatever order Nav2 answers the goals.
THEOREM ServerKeepsItsPromise == FollowSpec => KeepsItsPromise
<1>1. FollowInit => Promise!ListInit
  BY DEF FollowInit, Promise!ListInit, Promise!NoList
<1>2. FollowInv /\ FollowInv' /\ [FollowNext]_followVars
        => [Promise!ListNext]_(Promise!listVars)
  BY FollowStep, CountStep
<1> QED
  BY <1>1, <1>2, FollowInvariance, PTL DEF FollowSpec, KeepsItsPromise, Promise!ListSpec
=============================================================================

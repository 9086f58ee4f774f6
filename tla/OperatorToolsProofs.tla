------------------------- MODULE OperatorToolsProofs -------------------------
(***************************************************************************)
(* For any replica set, any number of role changes and of runs, the        *)
(* promises of compact_after_delete.sh; for any number of rows and any     *)
(* size of the channel, those of encore, whose pushes come in order and    *)
(* whose "Job done!" is true of an undisturbed replay.                     *)
(***************************************************************************)
EXTENDS OperatorTools, TLAPS

-----------------------------------------------------------------------------
(***************************************************************************)
(* compact_after_delete.sh                                                 *)
(***************************************************************************)
\* What the script believes of a pod is still so, unless the pod's role has
\* changed since, or it is the primary that has stepped down.
BeliefsOK ==
    \A p \in Asked \ changed :
        \/ role[p] = answered[p]
        \/ /\ p = PRIMARY_POD /\ pc # "discover"
           /\ answered[p] = "PRIMARY" /\ role[p] = "SECONDARY"

\* Each pod is where its answer put it.
ListsOK ==
    /\ \A p, q \in Primaries : p = q
    /\ PRIMARY_POD # NoPod => answered[PRIMARY_POD] = "PRIMARY"
    /\ \A p \in Pods : answered[p] = "PRIMARY" => p = PRIMARY_POD \/ p \in changed
    /\ \A p \in remaining : answered[p] = "SECONDARY"
    /\ \A p \in Pods : answered[p] = "SECONDARY" =>
          \/ p \in remaining \cup tried
          \/ pc \in {"compact", "poll"} /\ p = pod
          \/ pc = "aborted"

\* What each step has behind it.  The primary's turn comes last, and after it
\* has been told to step down.
StepsOK ==
    /\ pc \notin {"discover", "aborted"} => Asked = Pods /\ PRIMARY_POD \in Pods
    /\ pc \in {"secondaries", "stepDown", "catchUp"} => MODE_CHOICE = "1"
    /\ pc \in {"stepDown", "catchUp"} => remaining = {}
    /\ pc = "catchUp" => pod = PRIMARY_POD
    /\ pc \in {"compact", "poll"} /\ pod # PRIMARY_POD => answered[pod] = "SECONDARY"
    /\ MODE_CHOICE = "1" /\ pc \in {"compact", "poll"} /\ pod = PRIMARY_POD => remaining = {}
    /\ MODE_CHOICE = "1" /\ pc = "done" => remaining = {} /\ pod = PRIMARY_POD /\ pod \in tried

SteppedDown ==
    /\ MODE_CHOICE = "1" /\ pc \in {"catchUp", "compact"}
    /\ pod = PRIMARY_POD /\ role[pod] = "PRIMARY"
    => pod \in changed \/ refused

\* A compact of this run that is still to begin is on a pod the script has
\* asked; if that is a primary, the script could not know, or it refused.
JobsOK ==
    /\ \A j \in starting \cup running : j[2] <= runs
    /\ \A j \in starting : j[2] = runs =>
          /\ j[1] \in Asked
          /\ pc \notin {"discover", "choose"}
          /\ MODE_CHOICE = "1" /\ role[j[1]] = "PRIMARY" =>
                j[1] \in changed \/ (refused /\ j[1] = PRIMARY_POD)
    /\ pc \in {"discover", "choose", "secondaries", "stepDown"} => ~refused
    /\ pc \in {"compact", "poll"} /\ pod # PRIMARY_POD => ~refused

\* The script waits for one job at most, begun or not.
WaitsForOne ==
    /\ (starting \cup running) \ adrift \subseteq {ownJob}
    /\ (starting \cup running) \ adrift # {} => pc = "poll"

CompactInv ==
    TypeOK /\ BeliefsOK /\ ListsOK /\ StepsOK /\ SteppedDown /\ JobsOK /\ WaitsForOne

LEMMA InitCompactInv == Init => CompactInv
<1> SUFFICES ASSUME Init PROVE CompactInv
  OBVIOUS
<1>1. TypeOK
  <2>1. refused \in BOOLEAN
    BY DEF Init
  <2>2. /\ role \in [Pods -> Roles] /\ answered \in [Pods -> Roles \cup {"UNKNOWN"}]
        /\ starting = {} /\ running = {} /\ adrift = {}
        /\ remaining = {} /\ tried = {} /\ changed = {}
        /\ pc = "discover" /\ PRIMARY_POD = NoPod /\ MODE_CHOICE = "unset" /\ pod = NoPod
        /\ changes = 0 /\ runs = 1
    BY DEF Init
  <2> QED
    BY <2>1, <2>2, BoundAssumption DEF TypeOK, Steps
<1>2. BeliefsOK /\ ListsOK /\ StepsOK /\ SteppedDown
  BY DEF Init, BeliefsOK, ListsOK, StepsOK, SteppedDown, Asked
<1>3. JobsOK /\ WaitsForOne
  BY DEF Init, JobsOK, WaitsForOne
<1> QED
  BY <1>1, <1>2, <1>3 DEF CompactInv

\* The loop over the pods.
LEMMA DiscoverStep ==
  ASSUME CompactInv, NEW p \in Pods, Discover(p)
  PROVE  CompactInv'
<1> USE PodAssumption DEF Discover, serverVars, jobVars, environment
<1>1. /\ TypeOK /\ pc = "discover" /\ pc' = "discover" /\ answered[p] = "UNKNOWN"
      /\ answered' = [answered EXCEPT ![p] = role[p]]
      /\ Asked' = Asked \cup {p} /\ p \notin Asked
  BY DEF CompactInv, Asked, TypeOK, Roles
<1>2. TypeOK'
  BY <1>1 DEF TypeOK, Roles
<1>3. BeliefsOK'
  BY <1>1 DEF CompactInv, BeliefsOK, TypeOK
<1>4. \A q \in Primaries : q # p /\ role[p] = "PRIMARY" => FALSE
  BY DEF CompactInv, ListsOK, Primaries
<1>5. ListsOK'
  <2>1. ASSUME role[p] = "PRIMARY", NEW q \in Pods, answered[q] = "PRIMARY"
        PROVE  q \in changed
    BY <1>1, <1>4, <2>1 DEF CompactInv, BeliefsOK, ListsOK, Primaries, Asked, TypeOK
  <2>2. \A q \in Pods : answered'[q] = "PRIMARY" => q = PRIMARY_POD' \/ q \in changed'
    BY <1>1, <2>1 DEF CompactInv, ListsOK, TypeOK
  <2>3. PRIMARY_POD' # NoPod => answered'[PRIMARY_POD'] = "PRIMARY"
    BY <1>1 DEF CompactInv, ListsOK, TypeOK
  <2>4. \A q \in remaining' : answered'[q] = "SECONDARY"
    BY <1>1 DEF CompactInv, ListsOK, TypeOK
  <2>5. \A q \in Pods : answered'[q] = "SECONDARY" => q \in remaining' \cup tried'
    BY <1>1 DEF CompactInv, ListsOK, TypeOK
  <2>6. \A q, r \in Primaries' : q = r
    BY <1>1 DEF CompactInv, ListsOK, Primaries
  <2> QED
    BY <2>2, <2>3, <2>4, <2>5, <2>6 DEF ListsOK
<1>6. StepsOK' /\ SteppedDown'
  BY <1>1 DEF CompactInv, StepsOK, SteppedDown
<1>7. JobsOK' /\ WaitsForOne'
  BY <1>1 DEF CompactInv, JobsOK, WaitsForOne, ownJob
<1> QED
  BY <1>2, <1>3, <1>5, <1>6, <1>7 DEF CompactInv

\* The steps that ask no pod anything, tell none to step down and launch
\* nothing.
LEMMA ScriptStep ==
  ASSUME CompactInv,
         \/ \E p \in Pods : NextSecondary(p)
         \/ Discovered \/ Choose \/ SecondariesDone \/ CatchUp \/ Poll
  PROVE  CompactInv'
<1> USE PodAssumption DEF serverVars, jobVars, environment
<1> USE DEF CompactInv
<1>1. CASE \E p \in Pods : NextSecondary(p)
  <2> PICK p \in Pods : NextSecondary(p)
    BY <1>1
  <2>1. TypeOK'
    BY DEF NextSecondary, TypeOK, Steps
  <2>2. BeliefsOK'
    BY DEF NextSecondary, BeliefsOK, Asked
  <2>3. ListsOK'
    BY DEF NextSecondary, ListsOK, Primaries
  <2>4. StepsOK' /\ SteppedDown'
    BY DEF NextSecondary, TypeOK, ListsOK, StepsOK, SteppedDown, Asked
  <2>5. JobsOK' /\ WaitsForOne'
    BY DEF NextSecondary, JobsOK, WaitsForOne, Asked
  <2> QED
    BY <2>1, <2>2, <2>3, <2>4, <2>5
<1>2. CASE Discovered
  <2>1. TypeOK' /\ BeliefsOK' /\ ListsOK'
    BY <1>2 DEF Discovered, TypeOK, Steps, BeliefsOK, ListsOK, StepsOK, Asked, Primaries
  <2>2. StepsOK' /\ SteppedDown'
    BY <1>2 DEF Discovered, TypeOK, BeliefsOK, ListsOK, StepsOK, SteppedDown, Asked
  <2>3. JobsOK' /\ WaitsForOne'
    BY <1>2 DEF Discovered, TypeOK, JobsOK, WaitsForOne, ownJob, Asked
  <2> QED
    BY <2>1, <2>2, <2>3
<1>3. CASE Choose
  <2>1. TypeOK' /\ BeliefsOK' /\ ListsOK'
    BY <1>3 DEF Choose, TypeOK, Steps, BeliefsOK, ListsOK, StepsOK, Asked, Primaries
  <2>2. StepsOK' /\ SteppedDown'
    BY <1>3 DEF Choose, TypeOK, BeliefsOK, ListsOK, StepsOK, SteppedDown, Asked
  <2>3. JobsOK' /\ WaitsForOne'
    BY <1>3 DEF Choose, TypeOK, JobsOK, WaitsForOne, ownJob, Asked
  <2> QED
    BY <2>1, <2>2, <2>3
<1>4. CASE SecondariesDone
  <2>1. TypeOK' /\ BeliefsOK' /\ ListsOK'
    BY <1>4 DEF SecondariesDone, TypeOK, Steps, BeliefsOK, ListsOK, StepsOK, Asked, Primaries
  <2>2. StepsOK' /\ SteppedDown'
    BY <1>4 DEF SecondariesDone, TypeOK, BeliefsOK, ListsOK, StepsOK, SteppedDown, Asked
  <2>3. JobsOK' /\ WaitsForOne'
    BY <1>4 DEF SecondariesDone, TypeOK, JobsOK, WaitsForOne, ownJob, Asked
  <2> QED
    BY <2>1, <2>2, <2>3
<1>5. CASE CatchUp
  <2>1. TypeOK' /\ BeliefsOK' /\ ListsOK'
    BY <1>5 DEF CatchUp, TypeOK, Steps, BeliefsOK, ListsOK, StepsOK, Asked, Primaries
  <2>2. StepsOK' /\ SteppedDown'
    BY <1>5 DEF CatchUp, TypeOK, BeliefsOK, ListsOK, StepsOK, SteppedDown, Asked
  <2>3. JobsOK' /\ WaitsForOne'
    BY <1>5 DEF CatchUp, TypeOK, StepsOK, JobsOK, WaitsForOne, ownJob, Asked
  <2> QED
    BY <2>1, <2>2, <2>3
<1>6. CASE Poll
  <2>1. TypeOK' /\ BeliefsOK' /\ ListsOK'
    BY <1>6 DEF Poll, AfterCompact, TypeOK, Steps, BeliefsOK, ListsOK, StepsOK, Asked, Primaries
  <2>2. StepsOK' /\ SteppedDown'
    BY <1>6 DEF Poll, AfterCompact, TypeOK, BeliefsOK, ListsOK, StepsOK, SteppedDown, Asked
  <2>3. JobsOK'
    BY <1>6 DEF Poll, AfterCompact, JobsOK, StepsOK, Asked
  <2>4. WaitsForOne'
    <3>1. ownJob[1] = pod
      BY DEF ownJob
    <3>2. ownJob \notin running
      BY <1>6, <3>1 DEF Poll, Compacting
    <3>3. adrift' = adrift \cup ({ownJob} \cap starting) /\ UNCHANGED <<starting, running>>
      BY <1>6 DEF Poll
    <3>4. (starting' \cup running') \ adrift' = {}
      BY <3>2, <3>3 DEF WaitsForOne
    <3> QED
      BY <3>4 DEF WaitsForOne
  <2> QED
    BY <2>1, <2>2, <2>3, <2>4
<1> QED
  BY <1>1, <1>2, <1>3, <1>4, <1>5, <1>6

\* A job is launched on a pod whose turn it is.
LEMMA CompactPodStep == CompactInv /\ CompactPod => CompactInv'
<1> SUFFICES ASSUME CompactInv, CompactPod PROVE CompactInv'
  OBVIOUS
<1> USE PodAssumption DEF CompactPod, CompactInv, environment
<1>1. /\ pc = "compact" /\ pc' = "poll" /\ pod \in Pods /\ runs \in 1 .. MaxRuns
      /\ starting' \subseteq starting \cup {ownJob} /\ starting \subseteq starting'
      /\ ownJob \in Jobs /\ ownJob[1] = pod /\ ownJob[2] = runs
      /\ UNCHANGED <<role, running, adrift, answered, PRIMARY_POD, remaining, MODE_CHOICE, pod,
                     tried, refused, changed, changes, runs>>
  BY DEF TypeOK, Jobs, ownJob
<1>2. TypeOK'
  BY <1>1 DEF TypeOK, Steps
<1>3. BeliefsOK' /\ ListsOK'
  BY <1>1 DEF BeliefsOK, ListsOK, Asked, Primaries
<1>4. StepsOK' /\ SteppedDown'
  BY <1>1 DEF StepsOK, SteppedDown, Asked
<1>5. JobsOK'
  <2>1. pod \in Asked
    BY <1>1 DEF StepsOK
  <2>2. MODE_CHOICE = "1" /\ role[pod] = "PRIMARY" =>
           pod \in changed \/ (refused /\ pod = PRIMARY_POD)
    <3>1. CASE pod = PRIMARY_POD
      BY <1>1, <3>1 DEF SteppedDown
    <3>2. CASE pod # PRIMARY_POD
      BY <1>1, <2>1, <3>2 DEF StepsOK, BeliefsOK
    <3> QED
      BY <3>1, <3>2
  <2> HIDE DEF CompactPod
  <2>3. \A j \in starting' \cup running' : j[2] <= runs'
    BY <1>1 DEF JobsOK
  <2>4. ASSUME NEW j \in starting', j[2] = runs'
        PROVE  /\ j[1] \in Asked'
               /\ MODE_CHOICE' = "1" /\ role'[j[1]] = "PRIMARY" =>
                     j[1] \in changed' \/ (refused' /\ j[1] = PRIMARY_POD')
    <3>1. CASE j \in starting
      BY <1>1, <2>4, <3>1 DEF JobsOK, Asked
    <3>2. CASE j = ownJob
      BY <1>1, <2>1, <2>2, <3>2 DEF Asked
    <3> QED
      BY <1>1, <3>1, <3>2
  <2> QED
    BY <1>1, <2>3, <2>4 DEF JobsOK
<1>6. WaitsForOne'
  BY <1>1 DEF WaitsForOne, ownJob
<1> QED
  BY <1>2, <1>3, <1>4, <1>5, <1>6

LEMMA StepDownStep == CompactInv /\ stepDown => CompactInv'
<1> SUFFICES ASSUME CompactInv, stepDown PROVE CompactInv'
  OBVIOUS
<1> USE PodAssumption DEF stepDown, CompactInv, jobVars, environment
<1>1. TypeOK'
  BY DEF TypeOK, Steps, Roles, StepsOK
<1>2. BeliefsOK'
  BY DEF TypeOK, BeliefsOK, ListsOK, StepsOK, Asked
<1>3. ListsOK'
  BY DEF TypeOK, ListsOK, StepsOK, Primaries
<1>4. StepsOK' /\ SteppedDown'
  BY DEF TypeOK, StepsOK, SteppedDown, Asked
<1>5. JobsOK' /\ WaitsForOne'
  <2>1. ~refused
    BY DEF JobsOK
  <2>2. \A p \in Pods : role'[p] = "PRIMARY" => role[p] = "PRIMARY"
    BY DEF TypeOK
  <2>3. \A j \in starting : j[1] \in Pods
    BY DEF TypeOK, Jobs
  <2> QED
    BY <2>1, <2>2, <2>3 DEF JobsOK, WaitsForOne, Asked
<1> QED
  BY <1>1, <1>2, <1>3, <1>4, <1>5

\* Whatever the replica set does, the history knows.
LEMMA ChangeRolesStep ==
  ASSUME CompactInv, NEW r \in [Pods -> Roles], ChangeRoles(r),
         \A p, q \in Pods : r[p] = "PRIMARY" /\ r[q] = "PRIMARY" => p = q
  PROVE  CompactInv'
<1> USE DEF CompactInv, ChangeRoles, scriptVars, jobVars
<1>1. TypeOK'
  BY BoundAssumption DEF TypeOK, Asked
<1>2. BeliefsOK'
  BY DEF TypeOK, BeliefsOK, Asked
<1>3. ListsOK'
  BY DEF TypeOK, ListsOK, Primaries
<1>4. StepsOK'
  BY DEF StepsOK, Asked
<1>5. SteppedDown'
  BY DEF TypeOK, StepsOK, SteppedDown, Asked
<1>6. JobsOK'
  <2>1. \A p \in Asked : r[p] = "PRIMARY" => p \in changed' \/ role[p] = "PRIMARY"
    OBVIOUS
  <2> QED
    BY <2>1 DEF JobsOK, Asked
<1>7. WaitsForOne'
  BY DEF WaitsForOne, ownJob
<1> QED
  BY <1>1, <1>2, <1>3, <1>4, <1>5, <1>6, <1>7

LEMMA JobStep ==
  ASSUME CompactInv, NEW j \in Jobs, CompactStarts(j) \/ CompactEnds(j)
  PROVE  CompactInv'
<1> USE DEF CompactInv
<1>1. /\ starting' \subseteq starting
      /\ starting' \cup running' \subseteq starting \cup running
      /\ adrift' \subseteq starting' \cup running'
      /\ (starting' \cup running') \ adrift' \subseteq (starting \cup running) \ adrift
  BY DEF CompactStarts, CompactEnds, TypeOK
<1>2. /\ running' \subseteq Jobs
      /\ UNCHANGED <<role, pc, answered, PRIMARY_POD, remaining, MODE_CHOICE, pod, tried, refused,
                     changed, changes, runs>>
  BY DEF CompactStarts, CompactEnds, TypeOK, scriptVars, environment
<1>3. TypeOK' /\ BeliefsOK' /\ ListsOK'
  BY <1>1, <1>2 DEF TypeOK, BeliefsOK, ListsOK, Asked, Primaries
<1>4. StepsOK' /\ SteppedDown'
  BY <1>2 DEF StepsOK, SteppedDown, Asked
<1>5. JobsOK' /\ WaitsForOne'
  BY <1>1, <1>2 DEF JobsOK, WaitsForOne, ownJob, Asked
<1> QED
  BY <1>3, <1>4, <1>5

LEMMA ReplicaSetStep == CompactInv /\ ReplicaSet => CompactInv'
<1> SUFFICES ASSUME CompactInv, NEW p \in Pods, Elect(p) \/ Down(p) \/ Up(p)
             PROVE  CompactInv'
  BY JobStep DEF ReplicaSet
<1>0. /\ role \in [Pods -> Roles]
      /\ \A q, s \in Pods : role[q] = "PRIMARY" /\ role[s] = "PRIMARY" => q = s
  BY DEF CompactInv, TypeOK, ListsOK, Primaries
<1>1. CASE Elect(p)
  <2> DEFINE r == [q \in Pods |-> IF q = p THEN "PRIMARY"
                                  ELSE IF q \in Primaries THEN "SECONDARY" ELSE role[q]]
  <2>1. /\ r \in [Pods -> Roles]
        /\ \A q, s \in Pods : r[q] = "PRIMARY" /\ r[s] = "PRIMARY" => q = s
    BY <1>0 DEF Roles, Primaries
  <2>2. ChangeRoles(r)
    BY <1>1 DEF Elect
  <2> HIDE DEF r
  <2> QED
    BY <2>1, <2>2, ChangeRolesStep
<1>2. CASE Down(p)
  <2> DEFINE r == [role EXCEPT ![p] = "OTHER"]
  <2>1. /\ r \in [Pods -> Roles]
        /\ \A q, s \in Pods : r[q] = "PRIMARY" /\ r[s] = "PRIMARY" => q = s
    BY <1>0 DEF Roles
  <2>2. ChangeRoles(r)
    BY <1>2 DEF Down
  <2> HIDE DEF r
  <2> QED
    BY <2>1, <2>2, ChangeRolesStep
<1>3. CASE Up(p)
  <2> DEFINE r == [role EXCEPT ![p] = "SECONDARY"]
  <2>1. /\ r \in [Pods -> Roles]
        /\ \A q, s \in Pods : r[q] = "PRIMARY" /\ r[s] = "PRIMARY" => q = s
    BY <1>0 DEF Roles
  <2>2. ChangeRoles(r)
    BY <1>3 DEF Up
  <2> HIDE DEF r
  <2> QED
    BY <2>1, <2>2, ChangeRolesStep
<1> QED
  BY <1>1, <1>2, <1>3

\* A run ends, and the next one knows nothing of it.
LEMMA RunStep == CompactInv /\ (Abort \/ Rerun) => CompactInv'
<1> SUFFICES ASSUME CompactInv, Abort \/ Rerun PROVE CompactInv'
  OBVIOUS
<1>1. CASE Abort
  <2>1. /\ pc' = "aborted" /\ adrift' = starting \cup running
        /\ UNCHANGED <<role, starting, running, answered, PRIMARY_POD, remaining, MODE_CHOICE, pod,
                       tried, refused, changed, changes, runs>>
    BY <1>1 DEF Abort, environment
  <2>2. TypeOK' /\ BeliefsOK' /\ ListsOK' /\ StepsOK' /\ SteppedDown'
    BY <1>1, <2>1 DEF Abort, CompactInv, TypeOK, Steps, BeliefsOK, ListsOK, StepsOK, SteppedDown,
                      Asked, Primaries
  <2>3. JobsOK' /\ WaitsForOne'
    BY <2>1 DEF CompactInv, JobsOK, WaitsForOne, Asked
  <2> QED
    BY <2>2, <2>3 DEF CompactInv
<1>2. CASE Rerun
  <2>1. /\ UNCHANGED <<role, starting, running, adrift, changes>>
        /\ answered' = [p \in Pods |-> "UNKNOWN"]
        /\ remaining' = {} /\ tried' = {} /\ changed' = {} /\ refused' = FALSE
        /\ pc' = "discover" /\ PRIMARY_POD' = NoPod /\ MODE_CHOICE' = "unset" /\ pod' = NoPod
        /\ pc # "poll" /\ runs < MaxRuns /\ runs' = runs + 1
    BY <1>2 DEF Rerun, serverVars, jobVars
  <2>2. TypeOK'
    <3>1. refused' \in BOOLEAN
      BY <2>1
    <3>2. answered' \in [Pods -> Roles \cup {"UNKNOWN"}]
      BY <2>1
    <3>3. runs' \in 1 .. MaxRuns
      BY <2>1, BoundAssumption DEF CompactInv, TypeOK
    <3> QED
      BY <2>1, <3>1, <3>2, <3>3 DEF CompactInv, TypeOK, Steps
  <2>3. BeliefsOK' /\ ListsOK' /\ StepsOK' /\ SteppedDown'
    BY <2>1 DEF CompactInv, BeliefsOK, ListsOK, StepsOK, SteppedDown, Asked, Primaries
  <2>4. JobsOK'
    <3>1. runs \in Nat /\ \A j \in starting \cup running : j[2] \in Nat /\ j[2] <= runs
      BY DEF CompactInv, TypeOK, Jobs, JobsOK
    <3> QED
      BY <2>1, <3>1 DEF JobsOK
  <2>5. WaitsForOne'
    BY <2>1 DEF CompactInv, WaitsForOne
  <2> QED
    BY <2>2, <2>3, <2>4, <2>5 DEF CompactInv
<1> QED
  BY <1>1, <1>2

LEMMA CompactInductive == Spec => []CompactInv
<1>1. CompactInv /\ [Next]_vars => CompactInv'
  <2> SUFFICES ASSUME CompactInv, [Next]_vars PROVE CompactInv'
    OBVIOUS
  <2>1. CASE Script
    BY <2>1, DiscoverStep, ScriptStep, CompactPodStep, StepDownStep DEF Script
  <2>2. CASE ReplicaSet
    BY <2>2, ReplicaSetStep
  <2>3. CASE Abort \/ Rerun
    BY <2>3, RunStep
  <2>4. CASE UNCHANGED vars
    BY <2>4 DEF vars, serverVars, jobVars, scriptVars, environment, CompactInv, TypeOK, BeliefsOK,
                ListsOK, StepsOK, SteppedDown, JobsOK, WaitsForOne, ownJob, Asked, Primaries
  <2> QED
    BY <2>1, <2>2, <2>3, <2>4 DEF Next
<1> QED
  BY <1>1, InitCompactInv, PTL DEF Spec

\* Each variable keeps its type.
THEOREM CompactTypeCorrect == Spec => []TypeOK
<1>1. CompactInv => TypeOK
  BY DEF CompactInv
<1> QED
  BY <1>1, CompactInductive, PTL

\* Two members compact at a time only if one of the compacts began after the
\* script had looked for it, or was left behind by a run that ended.
THEOREM CompactsOneByOne == Spec => []OneCompactAtATime
<1>1. CompactInv => OneCompactAtATime
  BY DEF CompactInv, WaitsForOne, OneCompactAtATime
<1> QED
  BY <1>1, CompactInductive, PTL

\* A run that is done leaves out no member whose role stayed as it was found.
THEOREM NoMemberIsForgotten == Spec => []EveryMemberIsCompacted
<1>1. ASSUME CompactInv PROVE EveryMemberIsCompacted
  <2> SUFFICES ASSUME pc = "done", MODE_CHOICE = "1", NEW p \in Pods \ changed,
                      answered[p] # "OTHER"
               PROVE  p \in tried
    BY DEF EveryMemberIsCompacted
  <2>1. answered[p] \in {"PRIMARY", "SECONDARY"}
    BY <1>1 DEF CompactInv, StepsOK, Asked, TypeOK, Roles
  <2> QED
    BY <1>1, <2>1 DEF CompactInv, StepsOK, ListsOK
<1> QED
  BY <1>1, CompactInductive, PTL

\* In non-blocking mode no compact of the run begins, late or not, on a primary
\* the script could have known of, unless that refused to step down.
THEOREM PrimaryStaysInService == Spec => PrimaryIsSpared
<1> DEFINE Spared == \A j \in running' \ running :
                        j[2] = runs /\ MODE_CHOICE = "1" /\ role[j[1]] = "PRIMARY" =>
                            j[1] \in changed \/ (refused /\ j[1] = PRIMARY_POD)
<1>1. ASSUME CompactInv, [Next]_vars PROVE Spared
  <2> SUFFICES ASSUME NEW j \in running' \ running
               PROVE  j \in starting
    BY <1>1 DEF CompactInv, JobsOK
  <2>1. CASE \E i \in Jobs : CompactStarts(i)
    BY <2>1 DEF CompactStarts
  <2>2. CASE ~ \E i \in Jobs : CompactStarts(i)
    BY <1>1, <2>2 DEF Next, Script, Discover, NextSecondary, Discovered, Choose, SecondariesDone,
                stepDown, CatchUp, CompactPod, Poll, ReplicaSet, Elect, Down, Up, ChangeRoles,
                CompactEnds, Abort, Rerun, vars, serverVars, jobVars
  <2> QED
    BY <2>1, <2>2
<1>2. CompactInv /\ [Next]_vars => [Spared]_vars
  BY <1>1
<1> HIDE DEF Spared
<1>3. Spec => [][Spared]_vars
  BY <1>2, CompactInductive, PTL DEF Spec
<1> QED
  BY <1>3 DEF PrimaryIsSpared, Spared

-----------------------------------------------------------------------------
(***************************************************************************)
(* encore: a row is in one place at a time; the queue, the wire, main's    *)
(* hand, the channel and the producer's hand hold consecutive rows.        *)
(***************************************************************************)
\* Between the producer and main.
RowsInside ==
    /\ \A k \in 1 .. Len(msgs) : msgs[k] = m + k
    /\ cur = m + Len(msgs) + (IF producer = "send" THEN 1 ELSE 0)
    /\ m = count \/ m = count + 1
    /\ main \in {"dial", "declare", "range"} => m = count
    /\ main = "publish" => m = count + 1

\* Between main and the queue: in order, and consecutive if the queue stayed.
RowsInOrder ==
    /\ \A j, k \in 1 .. Len(arrived) : j < k => arrived[j] < arrived[k]
    /\ \A j, k \in 1 .. Len(wire) : j < k => wire[j] < wire[k]
    /\ \A j \in 1 .. Len(arrived), k \in 1 .. Len(wire) : arrived[j] < wire[k]
    /\ \A j \in 1 .. Len(arrived) : arrived[j] <= count
    /\ \A j \in 1 .. Len(wire) : wire[j] <= count

RowsOutside ==
    /\ Len(arrived) + Len(wire) <= count
    /\ ~deleted => \A k \in 1 .. Len(arrived) : arrived[k] = k
    /\ ~deleted => \A k \in 1 .. Len(wire) : wire[k] = Len(arrived) + k
    /\ ~deleted /\ connection \in {"none", "open"} => Len(arrived) + Len(wire) = count

\* What each step has behind it.
Progress ==
    /\ main = "dial" => connection = "none"
    /\ connection = "none" => main \notin {"declare", "range", "publish"}
    /\ main \in {"dial", "declare"} => count = 0 /\ wire = <<>> /\ arrived = <<>>
    /\ ~deleted /\ queue = "absent" => main \notin {"range", "publish"} /\ wire = <<>>
    /\ main \in {"close", "ended"} /\ ~gaveUp =>
          closed /\ msgs = <<>> /\ m = count /\ connection # "none"
    /\ closed => producer \in {"dying", "ended"}
    /\ producer \in {"disconnect", "close", "dying", "ended"} => failed \/ cur = Rows
    /\ exit = "success" => main = "ended" /\ ~gaveUp
    /\ exit = "success" /\ connection = "open" => wire = <<>>

PlaceInv == ReplayTypeOK /\ RowsInside /\ RowsOutside /\ Progress

ReplayInv == PlaceInv /\ RowsInOrder

-----------------------------------------------------------------------------
LEMMA AppendFacts ==
  ASSUME NEW S, NEW s \in Seq(S), NEW e \in S
  PROVE  /\ Append(s, e) \in Seq(S) /\ Len(Append(s, e)) = Len(s) + 1 /\ Len(s) \in Nat
         /\ \A k \in 1 .. Len(s) : Append(s, e)[k] = s[k]
         /\ Append(s, e)[Len(s) + 1] = e
  OBVIOUS

LEMMA TailFacts ==
  ASSUME NEW S, NEW s \in Seq(S), s # <<>>
  PROVE  /\ Tail(s) \in Seq(S) /\ Len(Tail(s)) = Len(s) - 1 /\ Len(s) \in Nat \ {0}
         /\ \A k \in 1 .. Len(s) - 1 : Tail(s)[k] = s[k + 1]
         /\ Head(s) \in S /\ Head(s) = s[1]
  OBVIOUS

LEMMA ReplayInitInv == ReplayInit => ReplayInv
<1> SUFFICES ASSUME ReplayInit PROVE ReplayInv
  OBVIOUS
<1> USE RowAssumption, BufferAssumption
<1>1. ReplayTypeOK
  <2>1. msgs \in Seq(1 .. Rows) /\ wire \in Seq(1 .. Rows) /\ arrived \in Seq(1 .. Rows)
    BY DEF ReplayInit
  <2>2. Len(msgs) <= bufferSize
    BY DEF ReplayInit
  <2>3. FlagsOK
    BY DEF ReplayInit, FlagsOK
  <2> QED
    BY <2>1, <2>2, <2>3 DEF ReplayInit, ReplayTypeOK, ProducerSteps, MainSteps
<1>2. RowsInside /\ RowsInOrder /\ RowsOutside /\ Progress
  BY DEF ReplayInit, RowsInside, RowsInOrder, RowsOutside, Progress
<1> QED
  BY <1>1, <1>2 DEF ReplayInv, PlaceInv

LEMMA FlagsStep == FlagsOK /\ [ReplayNext]_replayVars => FlagsOK'
<1> SUFFICES ASSUME FlagsOK, [ReplayNext]_replayVars PROVE FlagsOK'
  OBVIOUS
<1>1. CASE Producer
  BY <1>1 DEF Producer, FlagsOK, Connect, Find, NextRow, BadRow, EndOfRows, CursorFails, Send,
              Disconnect, CloseMsgs, Die, ProducerGoto, Panic, mainVars, brokerVars
<1>2. CASE Main
  BY <1>2 DEF Main, FlagsOK, Dial, QueueDeclare, Receive, JobDone, Publish, PublishFails, Close,
              MainGoto, GiveUp, producerVars, brokerVars
<1>3. CASE Broker
  BY <1>3 DEF Broker, FlagsOK, Route, Break, Noticed, DeleteQueue, ConsumerDeclares,
              producerVars, mainVars
<1>4. CASE UNCHANGED replayVars
  BY <1>4 DEF replayVars, producerVars, mainVars, brokerVars, FlagsOK
<1> QED
  BY <1>1, <1>2, <1>3, <1>4 DEF ReplayNext

\* The producer takes rows from the cursor to the channel.
LEMMA ProducerStep == PlaceInv /\ Producer => PlaceInv'
<1> SUFFICES ASSUME PlaceInv, Producer PROVE PlaceInv'
  OBVIOUS
<1>0. FlagsOK'
  BY FlagsStep DEF PlaceInv, ReplayTypeOK, ReplayNext
<1> USE <1>0
<1> USE RowAssumption, BufferAssumption
    DEF PlaceInv, ReplayTypeOK, RowsInside, RowsOutside, Progress,
        ProducerSteps, MainSteps, producerVars, mainVars, brokerVars, Running
<1>1. CASE Connect
  <2>1. CASE ProducerGoto("find") /\ UNCHANGED <<cur, failed, msgs, closed>>
    BY <1>1, <2>1 DEF Connect, ProducerGoto
  <2>2. CASE Panic("close")
    BY <1>1, <2>2 DEF Connect, ProducerGoto, Panic
  <2> QED
    BY <1>1, <2>1, <2>2 DEF Connect
<1>2. CASE Find
  <2>1. CASE ProducerGoto("next") /\ UNCHANGED <<cur, failed, msgs, closed>>
    BY <1>2, <2>1 DEF Find, ProducerGoto
  <2>2. CASE Panic("disconnect")
    BY <1>2, <2>2 DEF Find, ProducerGoto, Panic
  <2> QED
    BY <1>2, <2>1, <2>2 DEF Find
<1>3. CASE NextRow
  BY <1>3 DEF NextRow, ProducerGoto
<1>4. CASE BadRow
  BY <1>4 DEF BadRow, ProducerGoto, Panic
<1>5. CASE EndOfRows
  BY <1>5 DEF EndOfRows, ProducerGoto
<1>6. CASE CursorFails
  BY <1>6 DEF CursorFails, ProducerGoto, Panic
<1>7. CASE Send
  <2>1. cur \in 1 .. Rows
    BY <1>7 DEF Send
  <2>2. /\ msgs' \in Seq(1 .. Rows) /\ Len(msgs') = Len(msgs) + 1 /\ Len(msgs) \in Nat
        /\ \A k \in 1 .. Len(msgs) : msgs'[k] = msgs[k]
        /\ msgs'[Len(msgs) + 1] = cur
    BY <1>7, <2>1, AppendFacts DEF Send
  <2>3. ReplayTypeOK'
    BY <1>7, <2>2 DEF Send, ProducerGoto
  <2>4. \A k \in 1 .. Len(msgs') : msgs'[k] = m + k
    <3>1. /\ cur = m + Len(msgs) + 1 /\ m \in Nat
          /\ \A k \in 1 .. Len(msgs) : msgs[k] = m + k
      BY <1>7 DEF Send
    <3> HIDE DEF PlaceInv, ReplayTypeOK, RowsInside, RowsOutside, Progress
    <3> QED
      BY <2>2, <3>1
  <2>5. RowsInside'
    <3>1. /\ m' = m /\ cur' = cur /\ producer' = "next" /\ main' = main /\ count' = count
          /\ cur = m + Len(msgs) + 1 /\ m \in Nat
      BY <1>7 DEF Send, ProducerGoto
    <3> QED
      BY <2>2, <2>4, <3>1
  <2>6. RowsOutside' /\ Progress'
    BY <1>7 DEF Send, ProducerGoto
  <2> QED
    BY <2>3, <2>5, <2>6
<1>8. CASE Disconnect
  BY <1>8 DEF Disconnect, ProducerGoto
<1>9. CASE CloseMsgs
  BY <1>9 DEF CloseMsgs, ProducerGoto
<1>10. CASE Die
  BY <1>10 DEF Die
<1> QED
  BY <1>1, <1>2, <1>3, <1>4, <1>5, <1>6, <1>7, <1>8, <1>9, <1>10 DEF Producer

\* Main takes them from there to the wire.
LEMMA MainStep == PlaceInv /\ Main => PlaceInv'
<1> SUFFICES ASSUME PlaceInv, Main PROVE PlaceInv'
  OBVIOUS
<1>0. FlagsOK'
  BY FlagsStep DEF PlaceInv, ReplayTypeOK, ReplayNext
<1> USE <1>0
<1> USE RowAssumption, BufferAssumption
    DEF PlaceInv, ReplayTypeOK, RowsInside, RowsOutside, Progress,
        ProducerSteps, MainSteps, producerVars, mainVars, brokerVars, Running
<1>1. CASE Dial
  <2>1. CASE GiveUp
    BY <1>1, <2>1 DEF Dial, GiveUp, MainGoto
  <2>2. CASE ~ GiveUp
    <3>1. ReplayTypeOK'
      BY <1>1, <2>2 DEF Dial, MainGoto
    <3>2. RowsInside'
      BY <1>1, <2>2 DEF Dial, MainGoto
    <3>3. RowsOutside'
      BY <1>1, <2>2 DEF Dial, MainGoto
    <3>4. Progress'
      BY <1>1, <2>2 DEF Dial, MainGoto
    <3> QED
      BY <3>1, <3>2, <3>3, <3>4
  <2> QED
    BY <2>1, <2>2
<1>2. CASE QueueDeclare
  <2>1. CASE GiveUp
    BY <1>2, <2>1 DEF QueueDeclare, GiveUp, MainGoto
  <2>2. CASE ~ GiveUp
    <3>1. ReplayTypeOK'
      BY <1>2, <2>2 DEF QueueDeclare, MainGoto
    <3>2. RowsInside'
      BY <1>2, <2>2 DEF QueueDeclare, MainGoto
    <3>3. RowsOutside'
      BY <1>2, <2>2 DEF QueueDeclare, MainGoto
    <3>4. Progress'
      BY <1>2, <2>2 DEF QueueDeclare, MainGoto
    <3> QED
      BY <3>1, <3>2, <3>3, <3>4
  <2> QED
    BY <2>1, <2>2
<1>3. CASE Receive
  <2>1. /\ msgs' \in Seq(1 .. Rows) /\ Len(msgs') = Len(msgs) - 1 /\ Len(msgs) \in Nat \ {0}
        /\ \A k \in 1 .. Len(msgs) - 1 : msgs'[k] = msgs[k + 1]
        /\ m' \in 1 .. Rows /\ m' = msgs[1]
    BY <1>3, TailFacts DEF Receive
  <2>2. ReplayTypeOK'
    BY <1>3, <2>1 DEF Receive, MainGoto
  <2>3. m' = m + 1
    BY <2>1
  <2>4. \A k \in 1 .. Len(msgs') : msgs'[k] = m' + k
    <3>1. ASSUME NEW k \in 1 .. Len(msgs')
          PROVE  msgs'[k] = m' + k
      <4>1. k + 1 \in 1 .. Len(msgs) /\ msgs'[k] = msgs[k + 1] /\ m \in Nat
        BY <2>1
      <4> QED
        BY <2>3, <4>1
    <3> QED
      BY <3>1
  <2>5. RowsInside'
    <3>1. m = count /\ m \in Nat /\ main' = "publish" /\ count' = count
          /\ producer' = producer /\ cur' = cur
      BY <1>3 DEF Receive, MainGoto
    <3> QED
      BY <2>1, <2>3, <2>4, <3>1
  <2>6. RowsOutside' /\ Progress'
    BY <1>3 DEF Receive, MainGoto
  <2> QED
    BY <2>2, <2>5, <2>6
<1>4. CASE JobDone
  BY <1>4 DEF JobDone, MainGoto
<1>5. CASE Publish
  <2>1. m \in 1 .. Rows
    BY <1>5 DEF Publish
  <2>2. connection = "open" =>
           /\ wire' \in Seq(1 .. Rows) /\ Len(wire') = Len(wire) + 1 /\ Len(wire) \in Nat
           /\ \A k \in 1 .. Len(wire) : wire'[k] = wire[k]
           /\ wire'[Len(wire) + 1] = m
    BY <1>5, <2>1, AppendFacts DEF Publish
  <2>3. connection # "open" => wire' = wire
    BY <1>5 DEF Publish
  <2>4. ReplayTypeOK'
    BY <1>5, <2>2, <2>3 DEF Publish, MainGoto
  <2>5. RowsInside'
    BY <1>5 DEF Publish, MainGoto
  <2>6. RowsOutside'
    <3>1. CASE connection = "open"
      <4>1. /\ Len(wire') = Len(wire) + 1 /\ Len(wire) \in Nat
            /\ \A k \in 1 .. Len(wire) : wire'[k] = wire[k]
            /\ wire'[Len(wire) + 1] = m
        BY <2>2, <3>1
      <4>2. /\ arrived' = arrived /\ deleted' = deleted
            /\ count' = count + 1 /\ connection' = connection
            /\ count \in Nat /\ Len(arrived) \in Nat /\ m = count + 1
        BY <1>5 DEF Publish, MainGoto
      <4>3. /\ ~deleted => \A k \in 1 .. Len(arrived) : arrived[k] = k
            /\ Len(arrived) + Len(wire) <= count
            /\ ~deleted => Len(arrived) + Len(wire) = count
            /\ ~deleted => \A k \in 1 .. Len(wire) : wire[k] = Len(arrived) + k
        BY <3>1
      <4>4. /\ Len(arrived) + Len(wire) <= count
            /\ ~deleted => Len(arrived) + Len(wire) = count
        BY <4>3
      <4>5. Len(wire') = Len(wire) + 1 /\ Len(wire) \in Nat
        BY <4>1
      <4>6. count \in Nat /\ Len(arrived) \in Nat /\ m = count + 1
        BY <4>2
      <4> HIDE DEF PlaceInv, ReplayTypeOK, RowsInside, RowsOutside, Progress
      <4>7. ASSUME ~deleted, NEW k \in 1 .. Len(wire')
            PROVE  wire'[k] = Len(arrived) + k
        <5>1. k \in 1 .. Len(wire) \/ k = Len(wire) + 1
          BY <4>1
        <5>2. CASE k \in 1 .. Len(wire)
          BY <4>1, <4>3, <4>7, <5>2
        <5>3. CASE k = Len(wire) + 1
          <6>1. wire'[k] = count + 1
            BY <4>1, <4>6, <5>3
          <6>2. Len(arrived) + Len(wire) = count
            BY <4>7, <4>4
          <6> QED
            BY <4>5, <4>6, <5>3, <6>1, <6>2
        <5> QED
          BY <5>1, <5>2, <5>3
      <4>8. /\ Len(arrived) + Len(wire') <= count + 1
            /\ ~deleted => Len(arrived) + Len(wire') = count + 1
        BY <4>4, <4>5, <4>6
      <4> QED
        BY <3>1, <4>2, <4>3, <4>7, <4>8 DEF RowsOutside
    <3>2. CASE connection # "open"
      BY <1>5, <2>3, <3>2 DEF Publish, MainGoto
    <3> QED
      BY <3>1, <3>2
  <2>7. Progress'
    BY <1>5, <2>3 DEF Publish, MainGoto
  <2> QED
    BY <2>4, <2>5, <2>6, <2>7
<1>6. CASE PublishFails
  BY <1>6 DEF PublishFails, MainGoto, GiveUp
<1>7. CASE Close
  BY <1>7 DEF Close
<1> QED
  BY <1>1, <1>2, <1>3, <1>4, <1>5, <1>6, <1>7 DEF Main

\* The broker takes them from the wire to the queue, or they are lost.
LEMMA BrokerStep == PlaceInv /\ Broker => PlaceInv'
<1> SUFFICES ASSUME PlaceInv, Broker PROVE PlaceInv'
  OBVIOUS
<1>0. FlagsOK'
  BY FlagsStep DEF PlaceInv, ReplayTypeOK, ReplayNext
<1> USE <1>0
<1> USE RowAssumption, BufferAssumption
    DEF PlaceInv, ReplayTypeOK, RowsInside, RowsOutside, Progress,
        ProducerSteps, MainSteps, producerVars, mainVars, brokerVars, Running
<1>1. CASE Route
  <2>1. /\ wire' \in Seq(1 .. Rows) /\ Len(wire') = Len(wire) - 1 /\ Len(wire) \in Nat \ {0}
        /\ \A k \in 1 .. Len(wire) - 1 : wire'[k] = wire[k + 1]
        /\ Head(wire) \in 1 .. Rows /\ Head(wire) = wire[1]
    BY <1>1, TailFacts DEF Route
  <2>2. queue = "declared" =>
           /\ arrived' \in Seq(1 .. Rows) /\ Len(arrived') = Len(arrived) + 1
           /\ Len(arrived) \in Nat
           /\ \A k \in 1 .. Len(arrived) : arrived'[k] = arrived[k]
           /\ arrived'[Len(arrived) + 1] = Head(wire)
    BY <1>1, <2>1, AppendFacts DEF Route
  <2>3. queue # "declared" => arrived' = arrived /\ deleted
    BY <1>1 DEF Route
  <2>4. ReplayTypeOK'
    BY <1>1, <2>1, <2>2, <2>3 DEF Route
  <2>5. RowsInside' /\ Progress'
    BY <1>1 DEF Route
  <2>6. RowsOutside'
    <3>1. CASE ~deleted
      <4>1. /\ Len(arrived') = Len(arrived) + 1
            /\ \A k \in 1 .. Len(arrived) : arrived'[k] = arrived[k]
            /\ arrived'[Len(arrived) + 1] = Head(wire)
        BY <2>2, <2>3, <3>1
      <4>2. /\ count' = count /\ deleted' = deleted /\ connection' = connection /\ count \in Nat
            /\ Len(arrived) \in Nat /\ Len(wire) \in Nat
        BY <1>1 DEF Route
      <4>3. /\ \A k \in 1 .. Len(arrived) : arrived[k] = k
            /\ Len(arrived) + Len(wire) <= count
            /\ connection \in {"none", "open"} => Len(arrived) + Len(wire) = count
            /\ \A k \in 1 .. Len(wire) : wire[k] = Len(arrived) + k
        BY <3>1
      <4> HIDE DEF PlaceInv, ReplayTypeOK, RowsInside, RowsOutside, Progress
      <4>4. wire[1] = Len(arrived) + 1
        BY <2>1, <4>3
      <4>5. ASSUME NEW k \in 1 .. Len(arrived')
            PROVE  arrived'[k] = k
        <5>1. k \in 1 .. Len(arrived) \/ k = Len(arrived) + 1
          BY <4>1, <4>2
        <5> QED
          BY <2>1, <4>1, <4>2, <4>3, <4>4, <5>1
      <4>6. ASSUME NEW k \in 1 .. Len(wire')
            PROVE  wire'[k] = Len(arrived') + k
        <5>1. k + 1 \in 1 .. Len(wire) /\ k \in 1 .. Len(wire) - 1
          BY <2>1
        <5>2. wire'[k] = wire[k + 1]
          BY <2>1, <5>1
        <5>3. wire[k + 1] = Len(arrived) + (k + 1)
          BY <4>3, <5>1
        <5> QED
          BY <4>1, <4>2, <5>1, <5>2, <5>3
      <4>7. /\ Len(arrived') + Len(wire') <= count
            /\ connection \in {"none", "open"} => Len(arrived') + Len(wire') = count
        <5>1. Len(arrived') + Len(wire') = Len(arrived) + Len(wire)
          BY <2>1, <4>1, <4>2
        <5> QED
          BY <4>3, <5>1
      <4> QED
        BY <3>1, <4>2, <4>5, <4>6, <4>7 DEF RowsOutside
    <3>2. CASE deleted
      <4>1. count' = count /\ deleted' = deleted
        BY <1>1 DEF Route
      <4>2. /\ Len(arrived) \in Nat /\ Len(wire) \in Nat /\ count \in Nat
            /\ Len(arrived) + Len(wire) <= count
        OBVIOUS
      <4> HIDE DEF PlaceInv, ReplayTypeOK, RowsInside, RowsOutside, Progress
      <4>3. Len(arrived') + Len(wire') <= Len(arrived) + Len(wire)
        <5>1. Len(arrived') = Len(arrived) \/ Len(arrived') = Len(arrived) + 1
          BY <2>2, <2>3
        <5>2. Len(wire') = Len(wire) - 1
          BY <2>1
        <5> QED
          BY <4>2, <5>1, <5>2
      <4> QED
        BY <3>2, <4>1, <4>2, <4>3 DEF RowsOutside
    <3> QED
      BY <3>1, <3>2
  <2> QED
    BY <2>4, <2>5, <2>6
<1>2. CASE Break
  BY <1>2 DEF Break
<1>3. CASE Noticed
  BY <1>3 DEF Noticed
<1>4. CASE DeleteQueue
  BY <1>4 DEF DeleteQueue
<1>5. CASE ConsumerDeclares
  BY <1>5 DEF ConsumerDeclares
<1> QED
  BY <1>1, <1>2, <1>3, <1>4, <1>5 DEF Broker

\* No row overtakes another, and none passes twice.
LEMMA OrderStep == ReplayInv /\ [ReplayNext]_replayVars => RowsInOrder'
<1> SUFFICES ASSUME ReplayInv, [ReplayNext]_replayVars PROVE RowsInOrder'
  OBVIOUS
<1>1. /\ wire \in Seq(1 .. Rows) /\ arrived \in Seq(1 .. Rows) /\ count \in Nat /\ Rows \in Nat
      /\ \A k \in 1 .. Len(wire) : wire[k] \in Nat
      /\ \A k \in 1 .. Len(arrived) : arrived[k] \in Nat
      /\ Len(wire) \in Nat /\ Len(arrived) \in Nat
  BY RowAssumption DEF ReplayInv, PlaceInv, ReplayTypeOK
<1>2. ASSUME UNCHANGED <<wire, arrived>>, count' \in {count, count + 1}
      PROVE  RowsInOrder'
  BY <1>1, <1>2 DEF ReplayInv, RowsInOrder
<1>3. CASE Publish /\ connection = "open"
  <2>1. /\ m \in 1 .. Rows /\ m = count + 1 /\ count' = count + 1
        /\ wire' = Append(wire, m) /\ arrived' = arrived
    BY <1>3 DEF Publish, MainGoto, ReplayInv, PlaceInv, ReplayTypeOK, RowsInside
  <2>2. /\ Len(wire') = Len(wire) + 1
        /\ \A k \in 1 .. Len(wire) : wire'[k] = wire[k] /\ wire'[k] < m
        /\ wire'[Len(wire) + 1] = m
        /\ \A k \in 1 .. Len(arrived) : arrived[k] < m
    BY <1>1, <2>1, AppendFacts DEF ReplayInv, RowsInOrder
  <2> QED
    BY <1>1, <2>1, <2>2 DEF ReplayInv, RowsInOrder
<1>4. CASE Route
  <2>1. /\ wire # <<>> /\ wire' = Tail(wire) /\ count' = count
        /\ arrived' = IF queue = "declared" THEN Append(arrived, Head(wire)) ELSE arrived
    BY <1>4 DEF Route, mainVars
  <2>2. /\ Len(wire') = Len(wire) - 1 /\ Len(wire) \in Nat \ {0}
        /\ \A k \in 1 .. Len(wire) - 1 : wire'[k] = wire[k + 1]
        /\ Head(wire) \in 1 .. Rows /\ Head(wire) = wire[1]
    BY <1>1, <2>1, TailFacts
  <2>3. /\ \A j, k \in 1 .. Len(wire') : j < k => wire'[j] < wire'[k]
        /\ \A k \in 1 .. Len(wire') : wire[1] < wire'[k] /\ wire'[k] <= count
        /\ \A j \in 1 .. Len(arrived), k \in 1 .. Len(wire') : arrived[j] < wire'[k]
    <3>1. \A k \in 1 .. Len(wire') : k \in 1 .. Len(wire) - 1 /\ k + 1 \in 1 .. Len(wire)
      BY <2>2
    <3>2. \A j, k \in 1 .. Len(wire') : j < k => j + 1 < k + 1
      BY <2>2
    <3>3. 1 \in 1 .. Len(wire) /\ \A k \in 1 .. Len(wire') : 1 < k + 1
      BY <2>2
    <3> QED
      BY <2>2, <3>1, <3>2, <3>3 DEF ReplayInv, RowsInOrder
  <2>4. CASE queue = "declared"
    <3>1. /\ Len(arrived') = Len(arrived) + 1
          /\ \A k \in 1 .. Len(arrived) : arrived'[k] = arrived[k] /\ arrived'[k] < wire[1]
          /\ arrived'[Len(arrived) + 1] = wire[1] /\ wire[1] <= count
      <4>1. 1 \in 1 .. Len(wire)
        BY <2>2
      <4> QED
        BY <1>1, <2>1, <2>2, <2>4, <4>1, AppendFacts DEF ReplayInv, RowsInOrder
    <3>2. \A k \in 1 .. Len(arrived') : k \in 1 .. Len(arrived) \/ k = Len(arrived) + 1
      BY <1>1, <3>1
    <3>3. \A j, k \in 1 .. Len(arrived') : j < k => arrived'[j] < arrived'[k]
      <4> SUFFICES ASSUME NEW j \in 1 .. Len(arrived'), NEW k \in 1 .. Len(arrived'), j < k
                   PROVE  arrived'[j] < arrived'[k]
        OBVIOUS
      <4>1. j \in 1 .. Len(arrived)
        BY <1>1, <3>1
      <4> QED
        BY <3>1, <3>2, <4>1 DEF ReplayInv, RowsInOrder
    <3>4. \A j \in 1 .. Len(arrived'), k \in 1 .. Len(wire') : arrived'[j] < wire'[k]
      BY <2>3, <3>1, <3>2
    <3>5. \A j \in 1 .. Len(arrived') : arrived'[j] <= count
      BY <3>1, <3>2 DEF ReplayInv, RowsInOrder
    <3> QED
      BY <2>1, <2>3, <3>3, <3>4, <3>5 DEF RowsInOrder
  <2>5. CASE queue # "declared"
    BY <2>1, <2>3, <2>5 DEF ReplayInv, RowsInOrder
  <2> QED
    BY <2>4, <2>5
<1>5. CASE Break
  <2>1. wire' = <<>> /\ arrived' = arrived /\ count' = count
    BY <1>5 DEF Break, mainVars
  <2>2. Len(wire') = 0
    BY <2>1
  <2> QED
    BY <2>1, <2>2 DEF ReplayInv, RowsInOrder
<1>6. CASE ~ (Publish /\ connection = "open") /\ ~Route /\ ~Break
  <2>1. CASE Producer
    BY <1>1, <1>2, <2>1 DEF Producer, Connect, Find, NextRow, BadRow, EndOfRows, CursorFails, Send,
          Disconnect, CloseMsgs, Die, ProducerGoto, Panic, mainVars, brokerVars
  <2>2. CASE Main
    BY <1>1, <1>2, <1>6, <2>2 DEF Main, Dial, QueueDeclare, Receive, JobDone, Publish, PublishFails,
          Close, MainGoto, GiveUp, brokerVars
  <2>3. CASE Noticed \/ DeleteQueue \/ ConsumerDeclares
    BY <1>1, <1>2, <2>3 DEF Noticed, DeleteQueue, ConsumerDeclares, mainVars
  <2>4. CASE UNCHANGED replayVars
    BY <1>1, <1>2, <2>4 DEF replayVars, mainVars, brokerVars
  <2> QED
    BY <1>6, <2>1, <2>2, <2>3, <2>4 DEF ReplayNext, Broker
<1> QED
  BY <1>3, <1>4, <1>5, <1>6

LEMMA ReplayInductive == ReplaySpec => []ReplayInv
<1>1. ASSUME PlaceInv, UNCHANGED replayVars
      PROVE  PlaceInv'
  BY <1>1, FlagsStep
     DEF PlaceInv, ReplayTypeOK, RowsInside, RowsOutside, Progress, replayVars, producerVars, mainVars,
              brokerVars
<1>2. ReplayInv /\ [ReplayNext]_replayVars => ReplayInv'
  BY <1>1, ProducerStep, MainStep, BrokerStep, OrderStep DEF ReplayInv, ReplayNext
<1> QED
  BY <1>2, ReplayInitInv, PTL DEF ReplaySpec

-----------------------------------------------------------------------------
\* Each variable keeps its type.
THEOREM ReplayTypeCorrect == ReplaySpec => []ReplayTypeOK
<1>1. ReplayInv => ReplayTypeOK
  BY DEF ReplayInv, PlaceInv
<1> QED
  BY <1>1, ReplayInductive, PTL

\* What the queue gets of a replay comes in order, each row once, whatever
\* panics, breaks or is deleted; it is an initial part of the rows, unless the
\* queue was deleted.
THEOREM ReplayedInOrder == ReplaySpec => []PushedInOrder
<1>1. ReplayInv => PushedInOrder
  BY DEF ReplayInv, PlaceInv, ReplayTypeOK, RowsInOrder, RowsOutside, PushedInOrder
<1> QED
  BY <1>1, ReplayInductive, PTL

\* An undisturbed replay that says "Job done!" has pushed what it counted,
\* and all rows if its producer did not panic.
THEOREM DoneIsTrue == ReplaySpec => []DoneMeansPushed
<1>1. ReplayInv => DoneMeansPushed
  BY DEF ReplayInv, PlaceInv, ReplayTypeOK, RowsInside, RowsOutside, Progress, DoneMeansPushed,
         Undisturbed
<1> QED
  BY <1>1, ReplayInductive, PTL

-----------------------------------------------------------------------------
(***************************************************************************)
(* Both.                                                                   *)
(***************************************************************************)
\* Whichever tool is run, the state of either is as its own specification
\* allows.
THEOREM ToolsImplementBoth == ToolsSpec => Spec /\ ReplaySpec
<1>1. ToolsInit => Init /\ ReplayInit
  BY DEF ToolsInit
<1>2. [ToolsNext]_toolsVars => [Next]_vars /\ [ReplayNext]_replayVars
  BY DEF ToolsNext, CompactStep, ReplayStep, toolsVars
<1> QED
  BY <1>1, <1>2, PTL DEF ToolsSpec, Spec, ReplaySpec

\* An operator who runs one tool does not run the other.
OneTool == tool \in {"compact", "encore"}

\* Each variable of both tools keeps its type.
THEOREM ToolsTypeCorrect == ToolsSpec => []ToolsTypeOK
<1>1. ToolsInit => OneTool
  BY DEF ToolsInit, OneTool
<1>2. OneTool /\ [ToolsNext]_toolsVars => OneTool'
  BY DEF OneTool, ToolsNext, CompactStep, ReplayStep, toolsVars
<1>3. ToolsSpec => []OneTool
  BY <1>1, <1>2, PTL DEF ToolsSpec
<1>4. OneTool /\ TypeOK /\ ReplayTypeOK => ToolsTypeOK
  BY DEF OneTool, ToolsTypeOK
<1> QED
  BY <1>3, <1>4, ToolsImplementBoth, CompactTypeCorrect, ReplayTypeCorrect, PTL
=============================================================================

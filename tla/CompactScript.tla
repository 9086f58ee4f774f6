---------------------------- MODULE CompactScript ----------------------------
(***************************************************************************)
(* devops/mongo/compact_after_delete.sh against a replica set: the script  *)
(* asks each pod for its role once, compacts the secondaries one after     *)
(* another, makes the primary step down and compacts it last ("non-        *)
(* blocking"), or compacts the primary as it is ("blocking").              *)
(*                                                                         *)
(* Meanwhile the replica set elects whom it likes and members come and go. *)
(* A compact is a mongosh in the background (nohup): it reaches its server *)
(* when it does, also after the script has looked for it, and outlives the *)
(* script, which ends at the first kubectl that fails (set -e) and may be  *)
(* run again.                                                              *)
(***************************************************************************)
EXTENDS Naturals

CONSTANTS
    Pods,
    NoPod,
    MaxChanges, \* bound: role changes the script does not cause
    MaxRuns     \* bound: runs of the script

ASSUME PodAssumption == NoPod \notin Pods
ASSUME BoundAssumption == MaxChanges \in Nat /\ MaxRuns \in Nat \ {0}

VARIABLES
    role,        \* what rs.status() says of each pod, "OTHER" for a member that
                 \* is out of service, whether it still answers or not
    starting,    \* jobs whose mongosh was launched and has not had its compact
                 \* started by the server
    running,     \* jobs whose compact of the collection runs
    adrift,      \* history: those of starting and running that no script waits
                 \* for: its run has ended, or has taken the compact for ended
    pc,          \* what the script does next
    answered,    \* the STATE each pod answered, "UNKNOWN" until it is asked
    PRIMARY_POD, \* the pod that said PRIMARY
    remaining,   \* SECONDARY_PODS whose turn has not come
    MODE_CHOICE, \* "1" non-blocking, "2" blocking
    pod,         \* the argument of compact_pod
    tried,       \* history: pods whose compact this run has taken for ended
    changed,     \* history: pods whose role changed since they were asked, but
                 \* for the step-down the script asked for
    refused,     \* history: the primary did not step down when told to
    changes, runs

jobVars == <<starting, running, adrift>>
serverVars == <<role, jobVars>>
scriptVars == <<pc, answered, PRIMARY_POD, remaining, MODE_CHOICE, pod, tried, refused>>
environment == <<changed, changes, runs>>
vars == <<serverVars, scriptVars, environment>>

Roles == {"PRIMARY", "SECONDARY", "OTHER"}
\* A compact is known by its pod and the run of the script that launched it.
Jobs == Pods \X (1 .. MaxRuns)

Steps == {"discover", "choose", "secondaries", "stepDown", "catchUp", "compact",
          "poll", "done", "aborted"}

\* Type invariant.
TypeOK ==
    /\ role \in [Pods -> Roles]
    /\ starting \subseteq Jobs /\ running \subseteq Jobs
    /\ adrift \subseteq starting \cup running
    /\ pc \in Steps
    /\ answered \in [Pods -> Roles \cup {"UNKNOWN"}]
    /\ PRIMARY_POD \in Pods \cup {NoPod}
    /\ remaining \subseteq Pods
    /\ MODE_CHOICE \in {"unset", "1", "2"}
    /\ pod \in Pods \cup {NoPod}
    /\ pc \in {"catchUp", "compact", "poll"} => pod \in Pods
    /\ tried \subseteq Pods
    /\ changed \subseteq Pods
    /\ refused \in BOOLEAN
    /\ changes \in 0 .. MaxChanges
    /\ runs \in 1 .. MaxRuns

Primaries == {p \in Pods : role[p] = "PRIMARY"}

Init ==
    /\ role \in [Pods -> Roles]
    /\ \A p, q \in Primaries : p = q
    /\ starting = {} /\ running = {} /\ adrift = {}
    /\ pc = "discover"
    /\ answered = [p \in Pods |-> "UNKNOWN"]
    /\ PRIMARY_POD = NoPod
    /\ remaining = {}
    /\ MODE_CHOICE = "unset"
    /\ pod = NoPod
    /\ tried = {}
    /\ changed = {}
    /\ refused = FALSE
    /\ changes = 0
    /\ runs = 1

-----------------------------------------------------------------------------
(***************************************************************************)
(* The replica set.                                                        *)
(***************************************************************************)
\* Pods of which the script believes something.
Asked == {p \in Pods : answered[p] # "UNKNOWN"}

\* The roles become as r says, and the script knows nothing of it.
ChangeRoles(r) ==
    /\ changes < MaxChanges
    /\ changes' = changes + 1
    /\ role' = r
    /\ changed' = changed \cup {p \in Asked : r[p] # role[p]}
    /\ UNCHANGED <<jobVars, scriptVars, runs>>

\* A secondary wins an election; the primary, if there is one, steps down.
Elect(p) ==
    /\ role[p] = "SECONDARY"
    /\ ChangeRoles([q \in Pods |-> IF q = p THEN "PRIMARY"
                                   ELSE IF q \in Primaries THEN "SECONDARY"
                                   ELSE role[q]])

\* A member goes out of service; if its server goes down, its jobs end.
Down(p) ==
    /\ role[p] # "OTHER"
    /\ ChangeRoles([role EXCEPT ![p] = "OTHER"])

Up(p) ==
    /\ role[p] = "OTHER"
    /\ ChangeRoles([role EXCEPT ![p] = "SECONDARY"])

\* The mongosh launched in the background gets its compact started.
CompactStarts(j) ==
    /\ j \in starting
    /\ starting' = starting \ {j}
    /\ running' = running \cup {j}
    /\ UNCHANGED <<role, adrift, scriptVars, environment>>

\* The compact is over, or it failed before it began: nobody looks at that.
CompactEnds(j) ==
    /\ j \in starting \cup running
    /\ starting' = starting \ {j}
    /\ running' = running \ {j}
    /\ adrift' = adrift \ {j}
    /\ UNCHANGED <<role, scriptVars, environment>>

-----------------------------------------------------------------------------
(***************************************************************************)
(* The script.                                                             *)
(***************************************************************************)
\* MUTANT: SECONDARY_PODS=("$pod"), without the plus.
Discover_Overwrites(p) ==
    /\ pc = "discover"
    /\ p \notin Asked
    /\ answered' = [answered EXCEPT ![p] = role[p]]
    /\ PRIMARY_POD' = IF role[p] = "PRIMARY" THEN p ELSE PRIMARY_POD
    /\ remaining' = IF role[p] = "SECONDARY" THEN {p} ELSE remaining
    /\ UNCHANGED <<serverVars, pc, MODE_CHOICE, pod, tried, refused, environment>>

\* One turn of the loop over the pods.
Discover(p) ==
    /\ pc = "discover"
    /\ p \notin Asked
    /\ answered' = [answered EXCEPT ![p] = role[p]]
    /\ PRIMARY_POD' = IF role[p] = "PRIMARY" THEN p ELSE PRIMARY_POD
    /\ remaining' = IF role[p] = "SECONDARY" THEN remaining \cup {p} ELSE remaining
    /\ UNCHANGED <<serverVars, pc, MODE_CHOICE, pod, tried, refused, environment>>

\* MUTANT: the script goes on without a primary.
Discovered_Unchecked ==
    /\ pc = "discover"
    /\ Asked = Pods
    /\ pc' = "choose"
    /\ UNCHANGED <<serverVars, answered, PRIMARY_POD, remaining, MODE_CHOICE, pod, tried,
                   refused, environment>>

Discovered ==
    /\ pc = "discover"
    /\ Asked = Pods
    /\ pc' = IF PRIMARY_POD = NoPod THEN "aborted" ELSE "choose"
    /\ UNCHANGED <<serverVars, answered, PRIMARY_POD, remaining, MODE_CHOICE, pod, tried,
                   refused, environment>>

\* The operator takes as long as it takes.
Choose ==
    /\ pc = "choose"
    /\ \/ MODE_CHOICE' = "1" /\ pc' = "secondaries" /\ UNCHANGED pod
       \/ MODE_CHOICE' = "2" /\ pc' = "compact"     /\ pod' = PRIMARY_POD
    /\ UNCHANGED <<serverVars, answered, PRIMARY_POD, remaining, tried, refused, environment>>

NextSecondary(p) ==
    /\ pc = "secondaries"
    /\ p \in remaining
    /\ remaining' = remaining \ {p}
    /\ pod' = p
    /\ pc' = "compact"
    /\ UNCHANGED <<serverVars, answered, PRIMARY_POD, MODE_CHOICE, tried, refused, environment>>

SecondariesDone ==
    /\ pc = "secondaries"
    /\ remaining = {}
    /\ pc' = "stepDown"
    /\ UNCHANGED <<serverVars, answered, PRIMARY_POD, remaining, MODE_CHOICE, pod, tried,
                   refused, environment>>

\* MUTANT: the primary is compacted without stepping down.
stepDown_Omitted ==
    /\ pc = "stepDown"
    /\ pod' = PRIMARY_POD
    /\ pc' = "catchUp"
    /\ UNCHANGED <<serverVars, answered, PRIMARY_POD, remaining, MODE_CHOICE, tried, refused,
                   environment>>

\* rs.stepDown(60) || true: the primary becomes a secondary, or the command
\* fails, which nobody looks at.  Then the pod must be ready, as it is.
stepDown ==
    /\ pc = "stepDown"
    /\ \/ /\ role[PRIMARY_POD] = "PRIMARY"
          /\ role' = [role EXCEPT ![PRIMARY_POD] = "SECONDARY"]
          /\ UNCHANGED refused
       \/ /\ refused' = (role[PRIMARY_POD] = "PRIMARY")
          /\ UNCHANGED role
    /\ pod' = PRIMARY_POD
    /\ pc' = "catchUp"
    /\ UNCHANGED <<jobVars, answered, PRIMARY_POD, remaining, MODE_CHOICE, tried, environment>>

\* wait_for_replication and wait_for_rstl: the lag is measured against the
\* primary, so there must be one; it may be the pod itself.
CatchUp ==
    /\ pc = "catchUp"
    /\ Primaries # {}
    /\ pc' = "compact"
    /\ UNCHANGED <<serverVars, answered, PRIMARY_POD, remaining, MODE_CHOICE, pod, tried,
                   refused, environment>>

\* What currentOp shows of a pod.
Compacting(p) == \E j \in running : j[1] = p

\* The job of this run on the pod in turn.
ownJob == <<pod, runs>>

\* compact_pod: a compact that runs already is waited for, else one is
\* launched in the background.
CompactPod ==
    /\ pc = "compact"
    /\ starting' = IF Compacting(pod) THEN starting ELSE starting \cup {ownJob}
    /\ pc' = "poll"
    /\ UNCHANGED <<role, running, adrift, answered, PRIMARY_POD, remaining, MODE_CHOICE, pod, tried,
                   refused, environment>>

AfterCompact == IF MODE_CHOICE = "1" /\ pod # PRIMARY_POD THEN "secondaries" ELSE "done"

\* MUTANT: the compact is launched, and nobody waits for it.
Poll_DoesNotWait ==
    /\ pc = "poll"
    /\ adrift' = adrift \cup ({ownJob} \cap starting)
    /\ tried' = tried \cup {pod}
    /\ pc' = AfterCompact
    /\ UNCHANGED <<role, starting, running, answered, PRIMARY_POD, remaining, MODE_CHOICE, pod,
                   refused, environment>>

\* After one POLL_INTERVAL no compact runs on the pod: it has ended, or has
\* not begun.  While one runs, or the pod does not answer, the script polls
\* again.
Poll ==
    /\ pc = "poll"
    /\ ~Compacting(pod)
    /\ adrift' = adrift \cup ({ownJob} \cap starting)
    /\ tried' = tried \cup {pod}
    /\ pc' = AfterCompact
    /\ UNCHANGED <<role, starting, running, answered, PRIMARY_POD, remaining, MODE_CHOICE, pod,
                   refused, environment>>

\* Invalid choice, a kubectl that fails, a wait that times out, or ^C.
Abort ==
    /\ pc \notin {"done", "aborted"}
    /\ pc' = "aborted"
    /\ adrift' = starting \cup running
    /\ UNCHANGED <<role, starting, running, answered, PRIMARY_POD, remaining, MODE_CHOICE, pod,
                   tried, refused, environment>>

Rerun ==
    /\ pc \in {"done", "aborted"}
    /\ runs < MaxRuns
    /\ runs' = runs + 1
    /\ pc' = "discover"
    /\ answered' = [p \in Pods |-> "UNKNOWN"]
    /\ PRIMARY_POD' = NoPod
    /\ remaining' = {}
    /\ MODE_CHOICE' = "unset"
    /\ pod' = NoPod
    /\ tried' = {}
    /\ changed' = {}
    /\ refused' = FALSE
    /\ UNCHANGED <<serverVars, changes>>

Script ==
    \/ \E p \in Pods : Discover(p) \/ NextSecondary(p)
    \/ Discovered \/ Choose \/ SecondariesDone \/ stepDown \/ CatchUp
    \/ CompactPod \/ Poll

ReplicaSet ==
    \/ \E p \in Pods : Elect(p) \/ Down(p) \/ Up(p)
    \/ \E j \in Jobs : CompactStarts(j) \/ CompactEnds(j)

Next == Script \/ ReplicaSet \/ Abort \/ Rerun

Spec == Init /\ [][Next]_vars

-----------------------------------------------------------------------------
(***************************************************************************)
(* Properties                                                              *)
(***************************************************************************)
\* What "non-blocking" is worth: a compact of this run begins on a primary
\* only if the pod's role changed after it was asked for it, or if it is the
\* primary that did not step down when it was told to.  The script looks at
\* neither, and its compacts begin when they do, late ones included.
PrimaryIsSpared ==
    [][\A j \in running' \ running :
          j[2] = runs /\ MODE_CHOICE = "1" /\ role[j[1]] = "PRIMARY" =>
              j[1] \in changed \/ (refused /\ j[1] = PRIMARY_POD)]_vars

\* The script does not go on while a compact runs that it has seen: two
\* members compact at a time only if one of the compacts began after the
\* script had looked for it, or was left behind by a run that ended before.
OneCompactAtATime ==
    running \ adrift \subseteq {ownJob} /\ (running \ adrift # {} => pc = "poll")

\* When the non-blocking mode is done, each member found to be a primary or a
\* secondary has had its turn, or changed its role in between: of two pods
\* that say PRIMARY the script forgets the first.
EveryMemberIsCompacted ==
    pc = "done" /\ MODE_CHOICE = "1" =>
        \A p \in Pods \ changed : answered[p] # "OTHER" => p \in tried
=============================================================================

--------------------------- MODULE OperatorTools ---------------------------
(***************************************************************************)
(* The programs an operator starts by hand: compact_after_delete.sh, or    *)
(* encore.  They share no state, and each behaviour is one of either.      *)
(***************************************************************************)
EXTENDS CompactScript, Encore

VARIABLE tool

toolsVars == <<tool, vars, replayVars>>

ToolsInit ==
    /\ tool \in {"compact", "encore"}
    /\ Init
    /\ ReplayInit

CompactStep == tool = "compact" /\ Next /\ UNCHANGED <<tool, replayVars>>

ReplayStep(A) == tool = "encore" /\ A /\ UNCHANGED <<tool, vars>>

ToolsNext == CompactStep \/ ReplayStep(ReplayNext)

\* Both goroutines of encore are scheduled, MongoDB and the broker answer.
ToolsSpec ==
    /\ ToolsInit /\ [][ToolsNext]_toolsVars
    /\ WF_toolsVars(ReplayStep(Producer))
    /\ WF_toolsVars(ReplayStep(Main))
    /\ WF_toolsVars(ReplayStep(Route))

-----------------------------------------------------------------------------
\* Type invariant.
ToolsTypeOK == tool \in {"compact", "encore"} /\ TypeOK /\ ReplayTypeOK

\* A full channel, a goroutine that is gone or a lost connection leaves no
\* replay waiting for good.
ReplayEnds == tool = "encore" ~> exit # "running"
=============================================================================

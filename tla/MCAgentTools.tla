---------------------------- MODULE MCAgentTools ----------------------------
(***************************************************************************)
(* Bounded instances of the agent engine and of the tools behind it: exec  *)
(* sessions and the exec service's start, sub-agents, patches and file     *)
(* changes. The components share no state, so a behaviour follows one of   *)
(* them (focus) and leaves the others where they start.                    *)
(***************************************************************************)
EXTENDS AgentEngine, ExecSessions, ExecStartup, Subagents, PatchText, FileCommit

CONSTANT Focuses    \* the components the run explores
VARIABLE focus

toolsVars == <<focus, agVars, execVars, startVars, subVars, ptVars, fcVars>>

mModels == <<"a", "b">>
mScripts == UNION {[1..n -> [k : {"keep", "cut", "put"}, text : {"", "a"}]] : n \in 0..4}
mLine(i) == <<"err", 1, i>>
mErrTexts == {[noise |-> {mLine(1)}, blank |-> {mLine(2)}], [noise |-> {mLine(2)}, blank |-> {}], [noise |-> {}, blank |-> {mLine(1), mLine(2)}]}
mWidths == UNION {[1..n -> {0, 1, 3, 5}] : n \in 0..4}
mOp(k, p, t) == [kind |-> k, path |-> p, to |-> t]
mPlans == {<<mOp("update", "A", ""), mOp("update", "B", "")>>, <<mOp("update", "A", "")>>,
           <<mOp("add", "n", ""), mOp("update", "B", "")>>, <<mOp("update", "n", "A")>>,
           <<mOp("delete", "A", "")>>, <<mOp("write", "A", "")>>, <<mOp("update", "w", "n")>>,
           <<mOp("update", "A", ""), mOp("delete", "A", "")>>, <<mOp("add", "w", ""), mOp("update", "A", "n")>>}
mOrder == <<"A", "B", "n", "w">>

ToolsInit ==
    /\ focus \in Focuses
    /\ AgentInit /\ ExecInit /\ StartInit /\ SubInit /\ CommitInit
    /\ PatchTextInit
    /\ (focus # "start" => image) /\ (focus # "patch" => ParseInit)

OnlyAgent  == focus = "agent" /\ UNCHANGED <<focus, execVars, startVars, subVars, ptVars, fcVars>>
OnlyExec   == focus = "exec" /\ UNCHANGED <<focus, agVars, startVars, subVars, ptVars, fcVars>>
OnlyStart  == focus = "start" /\ UNCHANGED <<focus, agVars, execVars, subVars, ptVars, fcVars>>
OnlySub    == focus = "sub" /\ UNCHANGED <<focus, agVars, execVars, startVars, ptVars, fcVars>>
OnlyPatch  == focus = "patch" /\ UNCHANGED <<focus, agVars, execVars, startVars, subVars, fcVars>>
OnlyCommit == focus = "commit" /\ UNCHANGED <<focus, agVars, execVars, startVars, subVars, ptVars>>

ToolsNext ==
    \/ OnlyAgent /\ AgentNext
    \/ OnlyExec /\ ExecNext
    \/ OnlyStart /\ StartNext
    \/ OnlySub /\ SubNext
    \/ OnlyPatch /\ PatchTextNext
    \/ OnlyCommit /\ CommitNext

\* AgentFairness, ExecFairness and SubFairness, of the component in focus.
ToolsFairness ==
    /\ WF_toolsVars((OnlyAgent /\ EngineStep) \/ (OnlyExec /\ WaitStep) \/ (OnlySub /\ SessionStep(1)))
    /\ WF_toolsVars((OnlyExec /\ KilledExits) \/ (OnlySub /\ SessionStep(2)))
    /\ WF_toolsVars(OnlyExec /\ CaptureStep("out")) /\ WF_toolsVars(OnlyExec /\ CaptureStep("err"))

ToolsSpec == ToolsInit /\ [][ToolsNext]_toolsVars
ToolsFairSpec == ToolsSpec /\ ToolsFairness

Unfinished ==
    \/ focus = "agent" /\ RunUnderway
    \/ focus = "exec" /\ KillPending
    \/ focus = "sub" /\ KilledRunning

\* What is started ends: a run of the agent loop, whatever the model answers; an exec session whose process was
\* sent SIGKILL; a killed sub-agent.
WorkEnds == Unfinished ~> ~Unfinished

\* The agent loop (Engine.Run, Loop.Reply): the stored turn is whole, media goes out exactly as it was asked for,
\* a run that was cut short says so, and the runs of one session share its turn budget.
AgentSafe == AgentTypeOK /\ StoredTurnsAreWhole /\ DeliversExactly /\ EndsAreTold /\ BudgetIsShared

\* The exec service and its tools: the terminal event closes a session's log, the output a tool reports is the
\* process's but for the lines its format leaves out, exec answers only for a finished session, and the service serves from a complete /nix or not at all.
ExecSafe ==
    /\ ExecTypeOK /\ TerminalEventIsLast /\ ReportedOutputIsExact /\ FinishedExecIsComplete
    /\ ServesOnCompleteStore /\ FailedStartCleansUp

\* Sub-agents: whatever crashed or failed to write, the records can be restored, no id names two sessions, no live
\* session and no message to it is dropped, and retention is kept.
SubagentsSafe ==
    /\ SubTypeOK /\ AlwaysRestorable /\ IdsAreNeverReused
    /\ LiveSessionsAreKept /\ NoMessageIgnored /\ RetentionHolds

\* Patches and reads: no line of a patch is dropped, every path a patch touches is shown to the policy, an edit hits
\* the one place it names or is refused, a file read page by page is read whole, a failed patch
\* leaves nothing unless its rollback, or the opening of a root, failed too.
FilesSafe ==
    /\ NothingIsDropped /\ PolicySeesEveryPath /\ ExactOrRefused /\ PagesCoverTheFile
    /\ FailedPatchLeavesNothing

\* What no step does: change the outcome of a finished sub-agent, read core memory from the middle of a patch,
\* undo an edit that was reported done, or seed over an authored file.
ToolSteps ==
    [][DoneIsFinal /\ CoreMemoryIsNotTorn /\ MemoryEditsAreKept /\ StartKeepsAuthored]_toolsVars
=============================================================================

----------------------------- MODULE MCServices -----------------------------
(***************************************************************************)
(* The services around the workflow, one after the other: a behaviour is a *)
(* behaviour of the one service that Init chooses, and leaves the state of *)
(* the others as it is.  What one service sees of another is part of its   *)
(* own module.                                                             *)
(***************************************************************************)
EXTENDS RuntimePool, BackgroundRuns, EventJournal, Inference, Collaboration, Account,
        Secrets, VerificationCodes, Mcp, Workspaces, AgentLoop, ServerLifecycle,
        SandboxRunner, ChatStream, TLC

CONSTANT Explored   \* the services a run is about

VARIABLE service

vars == <<service, poolVars, backgroundVars, journalVars, inferenceVars, collabVars, accountVars,
          secretVars, codeVars, mcpVars, workspaceVars, loopVars, lifecycleVars, sandboxVars,
          streamVars>>

\* Values of the constants.
MCRunOf == [c \in Calls |-> IF c = "c3" THEN "r2" ELSE "r1"]
MCFileOf == [p \in Parts |-> IF p = "g1" THEN "g" ELSE "f"]
MCRouterOf == [r \in InferenceRuns |-> IF r = "r1" THEN "q1" ELSE "q2"]
MCMaxRunTokens == [r \in InferenceRuns |-> IF r = "r1" THEN 7 ELSE 4]
MCDepends == [t \in Tasks |-> IF t = "t2" THEN {"t1"} ELSE {}]

ServicesInit ==
  /\ service \in Explored
  /\ PoolInit /\ BackgroundInit /\ JournalInit /\ InferenceInit /\ CollabInit /\ AccountInit
  /\ SecretsInit /\ CodesInit /\ WorkspacesInit /\ LifecycleInit /\ SandboxInit
  /\ StreamInit
  /\ McpInit /\ (service # "mcp" => ~usesSecrets)
  /\ service # "pool" => \A t \in Tenants : rows[t] = "none"
  /\ LoopInit
  /\ service # "loop" =>
       mode = "stream" /\ resilience.on /\ msgs = FirstMessages("stream", FALSE, <<>>)

\* The services in S move, no other one does.
Only(S) ==
  /\ service \in S /\ UNCHANGED service
  /\ "pool" \notin S => UNCHANGED poolVars
  /\ "background" \notin S => UNCHANGED backgroundVars
  /\ "journal" \notin S => UNCHANGED journalVars
  /\ "inference" \notin S => UNCHANGED inferenceVars
  /\ "jobs" \notin S => UNCHANGED collabVars
  /\ "account" \notin S => UNCHANGED accountVars
  /\ "secrets" \notin S => UNCHANGED secretVars
  /\ "codes" \notin S => UNCHANGED codeVars
  /\ "mcp" \notin S => UNCHANGED mcpVars
  /\ "workspaces" \notin S => UNCHANGED workspaceVars
  /\ "loop" \notin S => UNCHANGED loopVars
  /\ "lifecycle" \notin S => UNCHANGED lifecycleVars
  /\ "sandbox" \notin S => UNCHANGED sandboxVars
  /\ "stream" \notin S => UNCHANGED streamVars

\* Bounds on the exploration: single jobs without a team, a team without single
\* jobs and with one fault; files of the second workspace are made and removed
\* at once and not while those of the first are, and of the two like parts of
\* a file its agent edits the first; codes of one purpose at a time; an agent
\* that outlives its stream is not followed.
JobsStep == CollabNext /\ team' = "none"
TeamStep == CollabNext /\ job'[Solo] = "none" /\ faults' <= 1
Halfway(w) == wspace[w].has \notin {{}, Artifacts}
WorkspacesStep ==
  /\ WorkspacesNext
  /\ wspace'["w2"].has \in {{}, Artifacts}
  /\ wspace'["w2"].copy["f2"] = wspace'["w2"].base["f2"]
  /\ Halfway("w1") => wspace'["w2"].has = wspace["w2"].has
StreamStep == route # "over" /\ StreamNext
CodesStep == CodesNext /\ \E p \in Purposes : codes'[p] = <<>>

ServicesNext ==
  \/ Only({"pool"}) /\ PoolNext
  \/ Only({"background"}) /\ BackgroundNext
  \/ Only({"journal"}) /\ JournalNext
  \/ Only({"inference"}) /\ InferenceNext
  \/ service = "jobs" /\ Only({"jobs", "team"}) /\ JobsStep
  \/ service = "team" /\ Only({"jobs", "team"}) /\ TeamStep
  \/ Only({"account"}) /\ AccountNext
  \/ Only({"secrets"}) /\ SecretsNext
  \/ Only({"codes"}) /\ CodesStep
  \/ Only({"mcp"}) /\ McpNext
  \/ Only({"workspaces"}) /\ WorkspacesStep
  \/ Only({"loop"}) /\ LoopNext
  \/ Only({"lifecycle"}) /\ LifecycleNext
  \/ Only({"sandbox"}) /\ SandboxNext
  \/ Only({"stream"}) /\ StreamStep

\* Tasks that can go on do, time passes, and the deletion loop polls.
ServicesFairness ==
  /\ \A r \in Requests :
       /\ WF_backgroundVars(service = "background" /\ SetupStep(r))
       /\ WF_backgroundVars(service = "background" /\ StartStep(r))
       /\ WF_backgroundVars(service = "background" /\ ProduceStep(r))
  /\ WF_backgroundVars(service = "background" /\ QueueStep)
  /\ WF_backgroundVars(service = "background" /\ CancelStep)
  /\ WF_accountVars(service = "account" /\ purge_after)
  /\ WF_accountVars(service = "account" /\ lease_expires)
  /\ WF_accountVars(service = "account" /\ run_lease_expires)
  /\ \A w \in Workers : WF_accountVars(service = "account" /\ WorkerStep(w))
  /\ \A j \in Jobs : WF_collabVars(service \in {"jobs", "team"} /\ CollabStep(j))
  /\ WF_collabVars(service \in {"jobs", "team"} /\ CancelJobsStep)
  /\ WF_mcpVars(service = "mcp" /\ discover_tools /\ UNCHANGED usesSecrets)
  /\ \A c \in ToolCalls : WF_mcpVars(service = "mcp" /\ CallStep(c) /\ UNCHANGED usesSecrets)

ServicesSpec == ServicesInit /\ [][ServicesNext]_vars

ServicesFairSpec == ServicesSpec /\ ServicesFairness

\* Every variable of every service has its type.
ServicesTypeOK ==
  /\ PoolTypeOK /\ BackgroundTypeOK /\ JournalTypeOK /\ InferenceTypeOK /\ CollabTypeOK
  /\ AccountTypeOK /\ SecretsTypeOK /\ CodesTypeOK /\ McpTypeOK /\ WorkspacesTypeOK
  /\ LoopTypeOK /\ LifecycleTypeOK /\ SandboxTypeOK /\ StreamTypeOK

=============================================================================

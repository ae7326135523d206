-------------------------------- MODULE MCCi --------------------------------
(***************************************************************************)
(* Instances of the hosted command stream and of the CI jobs it starts.    *)
(* CommandStream keeps of a CI job whether its worker runs, CiJob keeps    *)
(* what the worker does; part says which of the two a behaviour is about.  *)
(***************************************************************************)
EXTENDS CiJob, CommandStream, TLC

VARIABLE part    \* the component this behaviour is about

-----------------------------------------------------------------------------
(* The jobs of one or two workers.                                         *)

step(k, c, coe, n) ==
    [kind |-> k, cond |-> c, continue_on_error |-> coe, children |-> n, post |-> "", name |-> "a"]
service(creds) == [creds |-> creds]
job(j, d, repo, cont, svcs, steps) ==
    [valid |-> TRUE, job |-> j, dir |-> d, repo |-> repo, token |-> repo, bundles |-> repo,
     available |-> {}, container |-> cont, services |-> svcs, steps |-> steps]

\* One job with most kinds of steps, the failure handlers included.
MCSteps == ("w1" :> job("j1", "d1", FALSE, FALSE, <<>>,
    <<step("composite", "", TRUE, 2),
      step("cache", "success()", FALSE, 0),
      [step("node", "failure()", TRUE, 3) EXCEPT !.post = "success()"],
      step("upload", "always()", TRUE, 0),
      step("download", "", FALSE, 0),
      step("cosign", "", TRUE, 2),
      step("run", "cancelled()", FALSE, 1)>>))

\* Two jobs on one host, with a repository and services, in container and host.
MCPair == ("w1" :> job("j1", "d1", TRUE, FALSE, <<service(TRUE)>>, <<step("run", "", FALSE, 1)>>))
       @@ ("w2" :> job("j2", "d2", FALSE, TRUE, <<service(FALSE)>>, <<step("cache", "", FALSE, 0)>>))

\* One job with two services.
MCServices == ("w1" :> job("j1", "d1", TRUE, FALSE, <<service(TRUE), service(FALSE)>>,
    <<step("docker", "", TRUE, 2), step("node", "success()", FALSE, 3)>>))

\* Steps may leave a process behind in the first load.
MCJobLoads == { [plan |-> MCSteps, linger |-> {"piped", "detached"}],
                [plan |-> MCServices, linger |-> {}],
                [plan |-> MCPair, linger |-> {}] }

-----------------------------------------------------------------------------
(* The commands of one stream.                                             *)

\* A CI job beside an ordinary command and one the limit does not hold for; a
\* command that only reads beside one that is not valid.
MCKinds == { "j" :> "ci" @@ "w" :> "work", "j" :> "ci" @@ "w" :> "bypass",
             "j" :> "reads" @@ "w" :> "invalid" }
\* The first is dispatched again.
MCDispatch == "j" :> 2 @@ "w" :> 1

-----------------------------------------------------------------------------

jobOff == /\ pc = 0 /\ git = 0 /\ svc = 0 /\ at = 0 /\ phase = 0 /\ child = 0 /\ tail = 0 /\ expired = 0
          /\ signal = 0 /\ saw_failure = 0 /\ bad = 0 /\ statuses = 0 /\ failed_step = 0 /\ saves = 0
          /\ artifacts = 0 /\ conclusion = 0 /\ work = 0 /\ askpass = 0 /\ config = 0 /\ networks = 0
          /\ containers = 0 /\ kept = 0 /\ saved = 0 /\ load = 0
cmdOff == /\ row = 0 /\ sent = 0 /\ stream = 0 /\ up = 0 /\ cmdPc = 0 /\ via = 0 /\ permit = 0 /\ started = 0
          /\ aborted = 0 /\ cmdSignal = 0 /\ worker = 0 /\ answer = 0 /\ registry = 0 /\ permits = 0
          /\ trust = 0 /\ breaks = 0 /\ cancels = 0 /\ kind = 0

MCInit == \/ part = "job" /\ JobInit /\ cmdOff
          \/ part = "stream" /\ CmdInit /\ jobOff
MCNext ==
    \/ part = "job" /\ JobNext /\ UNCHANGED <<part, cmdVars>>
    \/ part = "stream" /\ CmdNext /\ UNCHANGED <<part, jobVars>>

\* The fairness of JobFairSpec and of CmdFairSpec.
FairSpec ==
    /\ MCInit /\ [][MCNext]_<<part, jobVars, cmdVars>>
    /\ \A w \in Deliveries : /\ WF_jobVars(part = "job" /\ w \in Workers /\ Own(w))
                            /\ WF_jobVars(part = "job" /\ w \in Workers /\ terminate_child(w))
                            /\ WF_jobVars(part = "job" /\ w \in Workers /\ Expire(w))
    /\ WF_cmdVars(part = "stream" /\ reconnect)
    /\ \A d \in Dispatches : WF_cmdVars(part = "stream" /\ TaskStep(d))

\* job_deployment.rs: whatever ends a job, nothing of it is left on the host, and
\* two jobs do not meet (CiJob).
JobsLeaveNothing == part = "job" => CleanedUp /\ Isolated

\* job_deployment.rs: a job stops where it failed, was cancelled or timed out,
\* and its result says what happened (CiJob).
JobResultsHold == part = "job" => StopsThere /\ ResultTruthful

\* A started job ends, by its deadline at the latest, unless a process that a
\* step left behind keeps its pipes open (JobEnds, wait_for_child_output).
StartedJobEnds == \A w \in Deliveries :
    (part = "job" /\ w \in Workers /\ pc[w] # "idle")
        ~> (part = "job" /\ w \in Workers /\ (Done(w) \/ tail[w] = "piped"))

\* command.rs: permits are given back, a cancelled or orphaned CI job is told,
\* and one command starts one CI job.
StreamHolds == part = "stream" => CapacityAccounted /\ OrphansAreSignalled /\ CiStartedOnce

\* The control plane gets an answer to every command the agent took, unless the
\* stream broke or an acknowledgement failed (EveryCommandAnswered, handle_command).
CommandsAreAnswered ==
    \A d \in Dispatches : (part = "stream" /\ cmdPc[d] # "none")
        ~> (part = "stream" /\ Answered(d))
=============================================================================

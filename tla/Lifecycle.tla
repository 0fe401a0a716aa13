----------------------------- MODULE Lifecycle ------------------------------
(***************************************************************************)
(* The life of one session: spawn_session, which provisions a workspace,   *)
(* registers the agent and the session and starts a supervised harness;    *)
(* AgentKill and SessionClose, which end it; the supervisor task; and what *)
(* a restart makes of what it finds (wt-daemon/src/ipc.rs, supervisor.rs,  *)
(* state.rs, wt-core/src/workspace.rs, harness.rs, store.rs).              *)
(*                                                                         *)
(* Requests for one session name run concurrently, each on its own         *)
(* connection; different names share nothing.  An action is the code       *)
(* between two awaits, and the check and the creation of a directory are   *)
(* two, because requests run on several threads.                           *)
(***************************************************************************)
EXTENDS Integers, FiniteSets

CONSTANTS
    Spawners,     \* Spawn requests for the session's name
    Stoppers,     \* AgentKill and SessionClose requests for it
    None,         \* no request
    Modes,        \* FsMode: worktree, new
    FaultKinds,   \* kinds of faults that happen in this model
    MaxFaults     \* bound: faults

ASSUME LifecycleAssumption ==
    /\ None \notin Spawners
    /\ Modes \subseteq {"worktree", "new"}
    /\ MaxFaults \in Nat

VARIABLES
    \* On disk.
    agent,        \* status of the agent's row
    session,      \* status and fs_mode of the session's row
    dir,          \* the request that made the workspace directory, if it exists
    branch,       \* the request that made the branch, if it exists
    \* In the daemon.
    phase,        \* the process: up, down
    spawn,        \* request -> where spawn_session is
    stop,         \* request -> where AgentKill or SessionClose is
    children,     \* the abort handle under this name: whose supervisor
    sup,          \* request -> where the supervisor it started is
    cancel,       \* request -> has its supervisor been aborted?
    \* The environment.
    harness,      \* request -> the process it started
    faults        \* faults so far

disk == <<agent, session, dir, branch>>
vars == <<agent, session, dir, branch, phase, spawn, stop, children, sup,
          cancel, harness, faults>>

-----------------------------------------------------------------------------
Live == {"starting", "running", "awaiting_input"}

\* refused: answered with an error, after whatever cleaning up there is;
\* failed: the same, by a store error that returned at once; lost: gone with
\* the daemon, unanswered.
SpawnPC == {"idle", "probe", "create", "register", "session", "launch",
            "status", "run", "handle", "ok", "mark", "teardown", "refused",
            "failed", "lost"}
StopPC == {"idle", "kill", "mark", "close", "teardown", "done", "notfound",
           "lost"}
SupPC == {"none", "loop", "out", "fed", "finish", "forget", "ended"}

TypeOK ==
    /\ agent \in Live \cup {"none", "exited"}
    /\ session \in [status : {"none", "active", "closed"},
                    mode : Modes \cup {"none"}]
    /\ dir \in Spawners \cup {None}
    /\ branch \in Spawners \cup {None}
    /\ phase \in {"up", "down"}
    /\ spawn \in [Spawners -> [pc : SpawnPC, mode : Modes \cup {"none"}]]
    /\ stop \in [Stoppers -> [pc : StopPC, kind : {"kill", "keep", "discard"}]]
    /\ children \in Spawners \cup {None}
    /\ sup \in [Spawners -> SupPC]
    /\ cancel \in [Spawners -> {"no", "late", "now"}]
    /\ harness \in [Spawners -> {"none", "alive", "orphan", "gone"}]
    /\ faults \in 0 .. MaxFaults

Init ==
    /\ agent = "none"
    /\ session = [status |-> "none", mode |-> "none"]
    /\ dir = None
    /\ branch = None
    /\ phase = "up"
    /\ spawn = [r \in Spawners |-> [pc |-> "idle", mode |-> "none"]]
    /\ stop = [k \in Stoppers |-> [pc |-> "idle", kind |-> "kill"]]
    /\ children = None
    /\ sup = [r \in Spawners |-> "none"]
    /\ cancel = [r \in Spawners |-> "no"]
    /\ harness = [r \in Spawners |-> "none"]
    /\ faults = 0

\* A fault of kind k happens now.
Fault(k) ==
    /\ k \in FaultKinds
    /\ faults < MaxFaults
    /\ faults' = faults + 1

\* Request r is at pc x, and goes on to y.
At(r, x) == phase = "up" /\ spawn[r].pc = x
Goto(r, y) == spawn' = [spawn EXCEPT ![r].pc = y]

\* teardown: a worktree is pruned, a folder kept, unless it is discarded.  What
\* git or the file system refuses stays, and nobody hears of it.
TearDown(mode, discard) ==
    LET d == IF mode = "worktree" \/ discard THEN None ELSE dir
        b == IF mode = "worktree" /\ discard THEN None ELSE branch
    IN  \/ dir' = d /\ branch' = b /\ UNCHANGED faults
        \/ Fault("cleanup") /\ dir' \in {dir, d} /\ branch' \in {branch, b}

-----------------------------------------------------------------------------
(* spawn_session.                                                          *)

\* The name is taken if either row exists; the agent's is written first and
\* rows are never deleted, so what counts is the second look-up, agent_get.
SpawnBegin(r) ==
    /\ At(r, "idle")
    /\ \E m \in Modes :
         \/ /\ agent = "none"
            /\ spawn' = [spawn EXCEPT ![r] = [pc |-> "probe", mode |-> m]]
            /\ UNCHANGED faults
         \/ /\ agent # "none"
            /\ spawn' = [spawn EXCEPT ![r] = [pc |-> "refused", mode |-> m]]
            /\ UNCHANGED faults
         \/ /\ Fault("store")
            /\ spawn' = [spawn EXCEPT ![r] = [pc |-> "failed", mode |-> m]]
    /\ UNCHANGED <<disk, phase, stop, children, sup, cancel, harness>>

\* Mutant: a failed provision is rolled back like any other failure.
ProbeTearingDown(r) ==
    /\ At(r, "probe")
    /\ Goto(r, IF dir = None THEN "create" ELSE "teardown")
    /\ UNCHANGED <<disk, phase, stop, children, sup, cancel, harness, faults>>

\* provision_at: ws.exists(), and the directory above.
Probe(r) ==
    /\ At(r, "probe")
    /\ \/ Goto(r, IF dir = None THEN "create" ELSE "refused") /\ UNCHANGED faults
       \/ Fault("mkdir") /\ Goto(r, "refused")
    /\ UNCHANGED <<disk, phase, stop, children, sup, cancel, harness>>

\* git worktree add, which refuses a branch that exists, and a path unless it
\* is an empty directory: one that a request for a new folder has just made.  It
\* makes the branch first, and may leave it when the checkout fails.
CreateWorktree(r) ==
    /\ At(r, "create")
    /\ spawn[r].mode = "worktree"
    /\ \/ /\ dir = None /\ branch = None
          /\ dir' = r /\ branch' = r
          /\ Goto(r, "register")
          /\ UNCHANGED faults
       \/ /\ dir # None /\ spawn[dir].mode = "new" /\ branch = None
          /\ branch' = r
          /\ Goto(r, "register")
          /\ UNCHANGED <<dir, faults>>
       \/ /\ dir # None \/ branch # None
          /\ Goto(r, "refused")
          /\ UNCHANGED <<dir, branch, faults>>
       \/ /\ Fault("git")
          /\ Goto(r, "refused")
          /\ UNCHANGED <<dir, branch>>
       \/ /\ branch = None
          /\ Fault("checkout")
          /\ branch' = r
          /\ Goto(r, "refused")
          /\ UNCHANGED dir
    /\ UNCHANGED <<agent, session, phase, stop, children, sup, cancel, harness>>

\* create_dir_all, which does not mind a directory that exists.
CreateFolder(r) ==
    /\ At(r, "create")
    /\ spawn[r].mode = "new"
    /\ \/ /\ dir' = IF dir = None THEN r ELSE dir
          /\ Goto(r, "register")
          /\ UNCHANGED faults
       \/ /\ Fault("mkdir")
          /\ Goto(r, "refused")
          /\ UNCHANGED dir
    /\ UNCHANGED <<agent, session, branch, phase, stop, children, sup, cancel,
                   harness>>

\* Mutant: INSERT OR REPLACE.
AgentRegisterReplacing(r) ==
    /\ At(r, "register")
    /\ agent' = "starting"
    /\ Goto(r, "session")
    /\ UNCHANGED <<session, dir, branch, phase, stop, children, sup, cancel,
                   harness, faults>>

\* agent_register, INSERT OR IGNORE: the one place where requests for the same
\* name are told apart.  A store error returns without tearing down.
AgentRegister(r) ==
    /\ At(r, "register")
    /\ \/ /\ agent = "none"
          /\ agent' = "starting"
          /\ Goto(r, "session")
          /\ UNCHANGED faults
       \/ /\ agent # "none"
          /\ Goto(r, "teardown")
          /\ UNCHANGED <<agent, faults>>
       \/ /\ Fault("store")
          /\ Goto(r, "failed")
          /\ UNCHANGED agent
    /\ UNCHANGED <<session, dir, branch, phase, stop, children, sup, cancel,
                   harness>>

\* session_create.  That it finds a row, and the request is refused, cannot
\* happen (FreshSession).
SessionCreate(r) ==
    /\ At(r, "session")
    /\ \/ /\ session' = [status |-> "active", mode |-> spawn[r].mode]
          /\ Goto(r, "launch")
          /\ UNCHANGED faults
       \/ /\ Fault("store")
          /\ Goto(r, "failed")
          /\ UNCHANGED session
    /\ UNCHANGED <<agent, dir, branch, phase, stop, children, sup, cancel,
                   harness>>

\* Harness::spawn in the workspace; it fails if the command or the directory
\* is not there, or if the first turn cannot be written (the child is killed).
Launch(r) ==
    /\ At(r, "launch")
    /\ \/ /\ dir # None
          /\ harness' = [harness EXCEPT ![r] = "alive"]
          /\ Goto(r, "status")
          /\ UNCHANGED faults
       \/ /\ dir = None
          /\ Goto(r, "mark")
          /\ UNCHANGED <<harness, faults>>
       \/ /\ Fault("harness")
          /\ Goto(r, "mark")
          /\ harness' \in {harness, [harness EXCEPT ![r] = "gone"]}
    /\ UNCHANGED <<disk, phase, stop, children, sup, cancel>>

\* agent_set_status(running); on an error the Harness is dropped, which kills.
SetRunning(r) ==
    /\ At(r, "status")
    /\ \/ /\ agent' = "running"
          /\ Goto(r, "run")
          /\ UNCHANGED <<harness, faults>>
       \/ /\ Fault("store")
          /\ harness' = [harness EXCEPT ![r] = "gone"]
          /\ Goto(r, "mark")
          /\ UNCHANGED agent
    /\ UNCHANGED <<session, dir, branch, phase, stop, children, sup, cancel>>

\* The opening prompt is put on the bus, and the supervisor is spawned.
StartSupervisor(r) ==
    /\ At(r, "run")
    /\ sup' = [sup EXCEPT ![r] = "loop"]
    /\ Goto(r, "handle")
    /\ UNCHANGED <<disk, phase, stop, children, cancel, harness, faults>>

RegisterChild(r) ==
    /\ At(r, "handle")
    /\ children' = r
    /\ Goto(r, "ok")
    /\ UNCHANGED <<disk, phase, stop, sup, cancel, harness, faults>>

\* Mutant: the error path only tells the store.
UndoMarkOnly(r) ==
    /\ At(r, "mark")
    /\ agent' = "exited"
    /\ Goto(r, "refused")
    /\ UNCHANGED <<session, dir, branch, phase, stop, children, sup, cancel,
                   harness, faults>>

\* The start failed: the agent is marked exited (an error is ignored) ...
UndoMark(r) ==
    /\ At(r, "mark")
    /\ \/ agent' = "exited" /\ UNCHANGED faults
       \/ Fault("store") /\ UNCHANGED agent
    /\ Goto(r, "teardown")
    /\ UNCHANGED <<session, dir, branch, phase, stop, children, sup, cancel,
                   harness>>

\* ... and the workspace is removed, as it is for a name just taken.
UndoWorkspace(r) ==
    /\ At(r, "teardown")
    /\ TearDown(spawn[r].mode, TRUE)
    /\ Goto(r, "refused")
    /\ UNCHANGED <<agent, session, phase, stop, children, sup, cancel, harness>>

SpawnStep(r) ==
    \/ SpawnBegin(r) \/ Probe(r) \/ CreateWorktree(r) \/ CreateFolder(r)
    \/ AgentRegister(r) \/ SessionCreate(r) \/ Launch(r) \/ SetRunning(r)
    \/ StartSupervisor(r) \/ RegisterChild(r) \/ UndoMark(r)
    \/ UndoWorkspace(r)

-----------------------------------------------------------------------------
(* The supervisor task.                                                    *)

\* The task may still run: it has not been aborted, or was in the middle of a
\* poll when it was, and comes to its next await.
Polled(r, x) == phase = "up" /\ sup[r] = x /\ cancel[r] # "now"
Advance(r, y) ==
    /\ sup' = [sup EXCEPT ![r] = y]
    /\ cancel' = [cancel EXCEPT ![r] = IF @ = "late" THEN "now" ELSE @]

\* TurnComplete: the output is queued, then the status follows.  The line may
\* still be in the pipe when the child has exited.
TurnComplete(r) ==
    /\ Polled(r, "loop")
    /\ Advance(r, "out")
    /\ UNCHANGED <<disk, phase, spawn, stop, children, harness, faults>>

\* drain_turn_inputs: a turn is written and marked consumed.
FeedTurn(r) ==
    /\ Polled(r, "loop")
    /\ harness[r] = "alive"
    /\ Advance(r, "fed")
    /\ UNCHANGED <<disk, phase, spawn, stop, children, harness, faults>>

SetTurnStatus(r) ==
    /\ Polled(r, "out") \/ Polled(r, "fed")
    /\ \/ /\ agent' = IF sup[r] = "out" THEN "awaiting_input" ELSE "running"
          /\ UNCHANGED faults
       \/ Fault("store") /\ UNCHANGED agent
    /\ Advance(r, "loop")
    /\ UNCHANGED <<session, dir, branch, phase, spawn, stop, children, harness>>

\* Exited, a failed write of a turn, an error reading (a line too long), or a
\* store that cannot be asked for turns.
SeeExit(r) ==
    /\ Polled(r, "loop")
    /\ \/ harness[r] = "gone" /\ UNCHANGED faults
       \/ Fault("read")
       \/ Fault("store")
    /\ Advance(r, "finish")
    /\ UNCHANGED <<disk, phase, spawn, stop, children, harness>>

\* finish: the status, the notice to the prime, the handle.
Finish(r) ==
    /\ Polled(r, "finish")
    /\ \/ agent' = "exited" /\ UNCHANGED faults
       \/ Fault("store") /\ UNCHANGED agent
    /\ Advance(r, "forget")
    /\ UNCHANGED <<session, dir, branch, phase, spawn, stop, children, harness>>

\* The task returns: the Harness is dropped, which kills what still runs.
Forget(r) ==
    /\ Polled(r, "forget")
    /\ children' = None
    /\ harness' = [harness EXCEPT ![r] = "gone"]
    /\ Advance(r, "ended")
    /\ UNCHANGED <<disk, phase, spawn, stop, faults>>

\* The runtime drops an aborted task, and the Harness with it.
Reap(r) ==
    /\ phase = "up"
    /\ cancel[r] # "no"
    /\ sup[r] \notin {"none", "ended"}
    /\ sup' = [sup EXCEPT ![r] = "ended"]
    /\ harness' = [harness EXCEPT ![r] = "gone"]
    /\ UNCHANGED <<disk, phase, spawn, stop, children, cancel, faults>>

SupervisorStep(r) ==
    \/ TurnComplete(r) \/ FeedTurn(r) \/ SetTurnStatus(r) \/ SeeExit(r)
    \/ Finish(r) \/ Forget(r) \/ Reap(r)

\* The child process ends by itself; an orphan when its pipes break.
HarnessExits(r) ==
    /\ harness[r] \in {"alive", "orphan"}
    /\ harness' = [harness EXCEPT ![r] = "gone"]
    /\ UNCHANGED <<disk, phase, spawn, stop, children, sup, cancel, faults>>

-----------------------------------------------------------------------------
(* AgentKill and SessionClose.                                             *)

Stopping(k, x) == phase = "up" /\ stop[k].pc = x
StopGoto(k, y) == stop' = [stop EXCEPT ![k].pc = y]

\* agent_get, or session_get, finds the row; else the request is refused.
StopBegin(k) ==
    /\ Stopping(k, "idle")
    /\ \E kind \in {"kill", "keep", "discard"} :
         LET found == IF kind = "kill" THEN agent # "none"
                                       ELSE session.status # "none" IN
         stop' = [stop EXCEPT ![k] =
                    [pc |-> IF found THEN "kill" ELSE "notfound", kind |-> kind]]
    /\ UNCHANGED <<disk, phase, spawn, children, sup, cancel, harness, faults>>

\* Mutant: the handle is dropped without aborting.
KillChildForgetting(k) ==
    /\ Stopping(k, "kill")
    /\ children' = None
    /\ StopGoto(k, "mark")
    /\ UNCHANGED <<disk, phase, spawn, sup, cancel, harness, faults>>

\* kill_child: abort() only asks.  A task that is being polled by another
\* thread right now comes to its next await first.
KillChild(k) ==
    /\ Stopping(k, "kill")
    /\ children' = None
    /\ \/ /\ children # None
          /\ \/ /\ cancel' = [cancel EXCEPT ![children] = "now"]
                /\ UNCHANGED faults
             \/ /\ Fault("late")
                /\ cancel' = [cancel EXCEPT ![children] = "late"]
       \/ /\ children = None
          /\ UNCHANGED <<cancel, faults>>
    /\ StopGoto(k, "mark")
    /\ UNCHANGED <<disk, phase, spawn, sup, harness>>

\* agent_set_status(exited); an error is ignored.
StopMark(k) ==
    /\ Stopping(k, "mark")
    /\ \/ agent' = "exited" /\ UNCHANGED faults
       \/ Fault("store") /\ UNCHANGED agent
    /\ StopGoto(k, "close")
    /\ UNCHANGED <<session, dir, branch, phase, spawn, children, sup, cancel,
                   harness>>

\* Mutant: the session's row gets the agent's status.
StopCloseExited(k) ==
    /\ Stopping(k, "close")
    /\ session' = IF session.status = "none" THEN session
                  ELSE [session EXCEPT !.status = "exited"]
    /\ StopGoto(k, IF stop[k].kind = "kill" THEN "done" ELSE "teardown")
    /\ UNCHANGED <<agent, dir, branch, phase, spawn, children, sup, cancel,
                   harness, faults>>

\* session_close, if AgentKill finds a session.  An error ends SessionClose
\* before its teardown.
StopClose(k) ==
    /\ Stopping(k, "close")
    /\ \/ /\ session' = IF session.status = "none" THEN session
                        ELSE [session EXCEPT !.status = "closed"]
          /\ StopGoto(k, IF stop[k].kind = "kill" THEN "done" ELSE "teardown")
          /\ UNCHANGED faults
       \/ /\ Fault("store")
          /\ StopGoto(k, "done")
          /\ UNCHANGED session
    /\ UNCHANGED <<agent, dir, branch, phase, spawn, children, sup, cancel,
                   harness>>

StopTeardown(k) ==
    /\ Stopping(k, "teardown")
    /\ TearDown(session.mode, stop[k].kind = "discard")
    /\ StopGoto(k, "done")
    /\ UNCHANGED <<agent, session, phase, spawn, children, sup, cancel, harness>>

StopStep(k) ==
    StopBegin(k) \/ KillChild(k) \/ StopMark(k) \/ StopClose(k) \/ StopTeardown(k)

-----------------------------------------------------------------------------
(* The daemon's life.                                                      *)

Pending(pc) == pc \notin {"idle", "ok", "refused", "failed", "lost", "done", "notfound"}

\* Requests, tasks and handles go with the process; x is what becomes of the
\* harnesses that run.
Down(x) ==
    /\ phase = "up"
    /\ phase' = "down"
    /\ spawn' = [r \in Spawners |->
                    IF Pending(spawn[r].pc) THEN [spawn[r] EXCEPT !.pc = "lost"]
                                            ELSE spawn[r]]
    /\ stop' = [k \in Stoppers |->
                    IF Pending(stop[k].pc) THEN [stop[k] EXCEPT !.pc = "lost"]
                                           ELSE stop[k]]
    /\ children' = None
    /\ sup' = [r \in Spawners |-> IF sup[r] = "none" THEN "none" ELSE "ended"]
    /\ cancel' = [r \in Spawners |-> "no"]
    /\ harness' = [r \in Spawners |->
                      IF harness[r] = "alive" THEN x ELSE harness[r]]
    /\ UNCHANGED disk

\* shutdown aborts the supervisors, and the end of the runtime drops the rest.
Shutdown == Down("gone") /\ Fault("shutdown")
Crash == Down("orphan") /\ Fault("crash")

\* Mutant: only agents that are running are stale.
RestartRunningOnly ==
    /\ phase = "down"
    /\ phase' = "up"
    /\ agent' = IF agent = "running" THEN "exited" ELSE agent
    /\ session' = [session EXCEPT
                     !.status = IF @ = "active" THEN "closed" ELSE @]
    /\ UNCHANGED <<dir, branch, spawn, stop, children, sup, cancel, harness,
                   faults>>

\* start: reconcile_stale_agents, two statements; an error is only logged.
Restart ==
    /\ phase = "down"
    /\ phase' = "up"
    /\ LET agents == IF agent \in Live THEN "exited" ELSE agent
           sessions == [session EXCEPT
                          !.status = IF @ = "active" THEN "closed" ELSE @]
       IN
       \/ agent' = agents /\ session' = sessions /\ UNCHANGED faults
       \/ Fault("reconcile") /\ agent' \in {agent, agents} /\ UNCHANGED session
    /\ UNCHANGED <<dir, branch, spawn, stop, children, sup, cancel, harness>>

-----------------------------------------------------------------------------
Next ==
    \/ \E r \in Spawners : SpawnStep(r) \/ SupervisorStep(r) \/ HarnessExits(r)
    \/ \E k \in Stoppers : StopStep(k)
    \/ Shutdown \/ Crash \/ Restart

Spec == Init /\ [][Next]_vars

\* Accepted requests go on, aborted tasks are dropped, a daemon that stopped is
\* started again, and an orphan ends when it sees its pipes broken.  Nothing
\* makes a request arrive, a turn end, or a live harness exit.
Fairness ==
    /\ \A r \in Spawners :
         /\ WF_vars(spawn[r].pc # "idle" /\ SpawnStep(r))
         /\ WF_vars(Reap(r))
         /\ WF_vars(SeeExit(r) \/ SetTurnStatus(r) \/ Finish(r) \/ Forget(r))
         /\ WF_vars(harness[r] = "orphan" /\ HarnessExits(r))
    /\ \A k \in Stoppers : WF_vars(stop[k].pc # "idle" /\ StopStep(k))
    /\ WF_vars(Restart)

FairSpec == Spec /\ Fairness

-----------------------------------------------------------------------------
(* What the lifecycle promises.                                            *)

\* No request is under way, and no abort outstanding.
Quiet ==
    /\ phase = "up"
    /\ \A r \in Spawners : ~Pending(spawn[r].pc)
    /\ \A k \in Stoppers : ~Pending(stop[k].pc)
    /\ \A r \in Spawners : cancel[r] # "no" => sup[r] = "ended"

Supervised(r) == sup[r] \notin {"none", "ended"}

\* However many Spawn requests race for a name, one harness at most is ever
\* started under it: agent_register decides, after both have provisioned.
OneHarness ==
    \A r, q \in Spawners : harness[r] # "none" /\ harness[q] # "none" => r = q

\* session_create never meets another request's row, so the refusal after it in
\* spawn_session is dead code.
FreshSession ==
    \A r \in Spawners : spawn[r].pc = "session" => session.status = "none"

\* "Rolls back the workspace on failure": a request that was answered with an
\* error leaves no directory and no branch of its own behind.
RolledBack ==
    \A r \in Spawners :
        spawn[r].pc \in {"refused", "failed"} => dir # r /\ branch # r

\* No SessionClose has come to its teardown.
NoClose ==
    \A k \in Stoppers : \/ stop[k].pc \in {"idle", "kill", "mark", "notfound"}
                        \/ stop[k].kind = "kill"

\* A child keeps its workspace until a SessionClose for it gets that far: no
\* other request removes it.
WorkspaceKept == NoClose => \A r \in Spawners : harness[r] = "alive" => dir # None

\* No ghosts: whenever nothing is under way, an agent listed as live has a
\* supervisor that feeds it, also after crashes and restarts.
NoGhost ==
    Quiet /\ agent \in Live => \E r \in Spawners : Supervised(r)

\* Every child can be reached: once its Spawn was answered, a supervised child
\* that has not been aborted has its handle in children.
Reachable ==
    \A r \in Spawners :
        phase = "up" /\ spawn[r].pc = "ok" /\ Supervised(r) /\ cancel[r] = "no"
            => children = r

\* README: kill, close and shutdown "abort the task and reap the child".  Once
\* an AgentKill or a SessionClose is done, and nothing else is under way, no
\* child runs.
StoppedStaysDown ==
    Quiet /\ (\E k \in Stoppers : stop[k].pc = "done")
        => \A r \in Spawners : harness[r] # "alive"

\* A child whose Spawn had been answered when the stop got to kill_child ends,
\* even if it would never exit by itself, and even if the daemon dies.
StopReaps ==
    \A r \in Spawners, k \in Stoppers :
        (spawn[r].pc = "ok" /\ stop[k].pc = "kill") ~> harness[r] = "gone"

-----------------------------------------------------------------------------
(* The inductive invariant behind OneHarness and FreshSession.             *)

\* Request r has won the name, or had won it when it ended.
Claimed(r) ==
    \/ spawn[r].pc \in {"session", "launch", "status", "run", "handle", "ok",
                        "mark"}
    \/ harness[r] # "none"

\* The winner is unique, and its row stays; a supervisor, and a spawn that is
\* past its launch, have a harness; the session's row comes with the winner's.
LifecycleInv ==
    /\ \A r, q \in Spawners : Claimed(r) /\ Claimed(q) => r = q
    /\ \A r \in Spawners : Claimed(r) => agent # "none"
    /\ \A r \in Spawners :
         sup[r] # "none" \/ spawn[r].pc \in {"status", "run", "handle", "ok"}
            => harness[r] # "none"
    /\ session.status # "none" => agent # "none"
    /\ FreshSession

-----------------------------------------------------------------------------
(* The inductive invariants behind the other properties.                   *)

\* Supervisors end with the daemon.
ReachInv == Reachable /\ (phase = "down" => \A r \in Spawners : ~Supervised(r))

\* What a request has not made, or has undone, is not there; a branch is only
\* made with a worktree.
RollInv ==
    \A r \in Spawners :
        /\ spawn[r].pc \in {"idle", "probe", "create", "refused", "failed"}
              => dir # r /\ branch # r
        /\ branch = r => spawn[r].mode = "worktree"

\* A request that has provisioned and is not yet undone has its own directory;
\* a child runs for such a request.
KeepInv ==
    /\ \A k \in Stoppers : stop[k].pc = "teardown" => stop[k].kind # "kill"
    /\ \A r \in Spawners :
         /\ harness[r] = "alive" => spawn[r].pc \in {"status", "run", "handle", "ok"}
         /\ NoClose => (spawn[r].pc \in {"register", "session", "launch", "status",
                                         "run", "handle", "ok", "mark", "teardown"}
                         => dir = r)

\* An agent is listed as live while its Spawn is under way, while a supervisor
\* that nobody has aborted is at work, or until a stop gets to mark it.
GhostInv ==
    /\ \A r \in Spawners : cancel[r] # "no" \/ children = r => spawn[r].pc = "ok"
    /\ \A r \in Spawners : cancel[r] # "late"
    /\ phase = "up" /\ agent \in Live =>
         \/ \E r \in Spawners :
               spawn[r].pc \in {"session", "launch", "status", "run", "mark"}
         \/ \E r \in Spawners :
               Supervised(r) /\ sup[r] # "forget" /\ cancel[r] = "no"
         \/ \E k \in Stoppers : stop[k].pc = "mark"
=============================================================================

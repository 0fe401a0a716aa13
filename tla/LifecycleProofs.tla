-------------------------- MODULE LifecycleProofs ---------------------------
(***************************************************************************)
(* Theorems about Lifecycle, for any number of concurrent requests.        *)
(***************************************************************************)
EXTENDS Lifecycle, TLAPS

LEMMA FaultType ==
    ASSUME faults \in 0 .. MaxFaults, NEW k, Fault(k)
    PROVE  faults' \in 0 .. MaxFaults
  BY LifecycleAssumption DEF Fault

LEMMA GotoType ==
    ASSUME TypeOK, NEW r \in Spawners, NEW y \in SpawnPC, Goto(r, y)
    PROVE  spawn' \in [Spawners -> [pc : SpawnPC, mode : Modes \cup {"none"}]]
  BY DEF TypeOK, Goto

LEMMA StopGotoType ==
    ASSUME TypeOK, NEW k \in Stoppers, NEW y \in StopPC, StopGoto(k, y)
    PROVE  stop' \in [Stoppers -> [pc : StopPC, kind : {"kill", "keep", "discard"}]]
  BY DEF TypeOK, StopGoto

LEMMA AdvanceType ==
    ASSUME TypeOK, NEW r \in Spawners, NEW y \in SupPC, Advance(r, y)
    PROVE  /\ sup' \in [Spawners -> SupPC]
           /\ cancel' \in [Spawners -> {"no", "late", "now"}]
  BY DEF TypeOK, Advance

LEMMA TypeStep ==
    ASSUME TypeOK, [Next]_vars
    PROVE  TypeOK'
<1> USE DEF disk
<1>1. ASSUME NEW r \in Spawners, SpawnStep(r)
     PROVE  TypeOK'
  <2>1. CASE SpawnBegin(r)
    BY <2>1, FaultType DEF SpawnBegin, TypeOK, SpawnPC
  <2>2. CASE Probe(r)
    BY <2>2, GotoType, FaultType DEF Probe, TypeOK, SpawnPC
  <2>3. CASE CreateWorktree(r)
    BY <2>3, GotoType, FaultType DEF CreateWorktree, TypeOK, SpawnPC
  <2>4. CASE CreateFolder(r)
    BY <2>4, GotoType, FaultType DEF CreateFolder, TypeOK, SpawnPC
  <2>5. CASE AgentRegister(r)
    BY <2>5, GotoType, FaultType DEF AgentRegister, TypeOK, SpawnPC, Live
  <2>6. CASE SessionCreate(r)
    BY <2>6, GotoType, FaultType DEF SessionCreate, TypeOK, SpawnPC
  <2>7. CASE Launch(r)
    <3>1. spawn' \in [Spawners -> [pc : SpawnPC, mode : Modes \cup {"none"}]]
      <4>1. Goto(r, "status") \/ Goto(r, "mark")
        BY <2>7 DEF Launch
      <4>2. "status" \in SpawnPC /\ "mark" \in SpawnPC
        BY DEF SpawnPC
      <4> QED
        BY <4>1, <4>2, GotoType
    <3>2. harness' \in [Spawners -> {"none", "alive", "orphan", "gone"}]
      BY <2>7 DEF Launch, TypeOK
    <3>3. faults' \in 0 .. MaxFaults
      BY <2>7, FaultType DEF Launch, TypeOK
    <3> QED
      BY <2>7, <3>1, <3>2, <3>3 DEF Launch, TypeOK
  <2>8. CASE SetRunning(r)
    BY <2>8, GotoType, FaultType DEF SetRunning, TypeOK, SpawnPC, Live
  <2>9. CASE StartSupervisor(r)
    BY <2>9, GotoType DEF StartSupervisor, TypeOK, SpawnPC, SupPC
  <2>10. CASE RegisterChild(r)
    BY <2>10, GotoType DEF RegisterChild, TypeOK, SpawnPC
  <2>11. CASE UndoMark(r)
    BY <2>11, GotoType, FaultType DEF UndoMark, TypeOK, SpawnPC
  <2>12. CASE UndoWorkspace(r)
    BY <2>12, GotoType, FaultType DEF UndoWorkspace, TearDown, TypeOK, SpawnPC
  <2> QED
    BY <1>1, <2>1, <2>2, <2>3, <2>4, <2>5, <2>6, <2>7, <2>8, <2>9, <2>10,
       <2>11, <2>12 DEF SpawnStep
<1>2. ASSUME NEW r \in Spawners, SupervisorStep(r) \/ HarnessExits(r)
     PROVE  TypeOK'
  <2>1. CASE TurnComplete(r)
    BY <2>1, AdvanceType DEF TurnComplete, TypeOK, SupPC
  <2>2. CASE FeedTurn(r)
    BY <2>2, AdvanceType DEF FeedTurn, TypeOK, SupPC
  <2>3. CASE SetTurnStatus(r)
    BY <2>3, AdvanceType, FaultType DEF SetTurnStatus, TypeOK, SupPC, Live
  <2>4. CASE SeeExit(r)
    BY <2>4, AdvanceType, FaultType DEF SeeExit, TypeOK, SupPC
  <2>5. CASE Finish(r)
    BY <2>5, AdvanceType, FaultType DEF Finish, TypeOK, SupPC
  <2>6. CASE Forget(r)
    BY <2>6, AdvanceType DEF Forget, TypeOK, SupPC
  <2>7. CASE Reap(r)
    BY <2>7 DEF Reap, TypeOK, SupPC
  <2>8. CASE HarnessExits(r)
    BY <2>8 DEF HarnessExits, TypeOK
  <2> QED
    BY <1>2, <2>1, <2>2, <2>3, <2>4, <2>5, <2>6, <2>7, <2>8 DEF SupervisorStep
<1>3. ASSUME NEW k \in Stoppers, StopStep(k)
     PROVE  TypeOK'
  <2>1. CASE StopBegin(k)
    BY <2>1 DEF StopBegin, TypeOK, StopPC
  <2>2. CASE KillChild(k)
    BY <2>2, StopGotoType, FaultType DEF KillChild, TypeOK, StopPC
  <2>3. CASE StopMark(k)
    BY <2>3, StopGotoType, FaultType DEF StopMark, TypeOK, StopPC
  <2>4. CASE StopClose(k)
    BY <2>4, StopGotoType, FaultType DEF StopClose, TypeOK, StopPC
  <2>5. CASE StopTeardown(k)
    BY <2>5, StopGotoType, FaultType DEF StopTeardown, TearDown, TypeOK, StopPC
  <2> QED
    BY <1>3, <2>1, <2>2, <2>3, <2>4, <2>5 DEF StopStep
<1>4. ASSUME NEW x \in {"orphan", "gone"}, Down(x), faults' \in 0 .. MaxFaults
     PROVE  TypeOK'
  <2>1. spawn' \in [Spawners -> [pc : SpawnPC, mode : Modes \cup {"none"}]]
    BY <1>4 DEF Down, TypeOK, SpawnPC
  <2>2. stop' \in [Stoppers -> [pc : StopPC, kind : {"kill", "keep", "discard"}]]
    BY <1>4 DEF Down, TypeOK, StopPC
  <2>3. /\ sup' \in [Spawners -> SupPC]
        /\ cancel' \in [Spawners -> {"no", "late", "now"}]
        /\ harness' \in [Spawners -> {"none", "alive", "orphan", "gone"}]
    BY <1>4 DEF Down, TypeOK, SupPC
  <2> QED
    BY <1>4, <2>1, <2>2, <2>3 DEF Down, TypeOK
<1>5. CASE Shutdown \/ Crash
  BY <1>4, <1>5, FaultType DEF Shutdown, Crash, TypeOK
<1>6. CASE Restart
  <2>1. /\ agent' \in {agent, "exited"}
        /\ session' \in {session, [session EXCEPT !.status = "closed"]}
        /\ faults' \in 0 .. MaxFaults
    BY <1>6, FaultType DEF Restart, TypeOK
  <2> QED
    BY <1>6, <2>1 DEF Restart, TypeOK
<1>7. CASE UNCHANGED vars
  BY <1>7 DEF vars, TypeOK
<1> QED
  BY <1>1, <1>2, <1>3, <1>5, <1>6, <1>7 DEF Next

-----------------------------------------------------------------------------
(* The winner of the name.                                                 *)

\* A step that claims nothing and takes no row away keeps the invariant, if the
\* steps that need a harness have theirs.
LEMMA NoNewClaim ==
    ASSUME LifecycleInv,
           \A r \in Spawners : Claimed(r)' => Claimed(r),
           agent # "none" => agent' # "none",
           session'.status # "none" => session.status # "none",
           \A r \in Spawners : spawn'[r].pc = "session" => spawn[r].pc = "session",
           \A r \in Spawners :
             sup'[r] # "none" \/ spawn'[r].pc \in {"status", "run", "handle", "ok"}
                => harness'[r] # "none"
    PROVE  LifecycleInv'
<1>1. \A r, q \in Spawners : Claimed(r)' /\ Claimed(q)' => r = q
  BY DEF LifecycleInv
<1>2. \A r \in Spawners : Claimed(r)' => agent' # "none"
  BY DEF LifecycleInv
<1>3. session'.status # "none" => agent' # "none"
  BY DEF LifecycleInv
<1>4. FreshSession'
  BY DEF LifecycleInv, FreshSession
<1> QED
  BY <1>1, <1>2, <1>3, <1>4 DEF LifecycleInv

\* What Goto does to the requests.
LEMMA GotoPC ==
    ASSUME TypeOK, NEW r \in Spawners, NEW y, Goto(r, y)
    PROVE  \A q \in Spawners : spawn'[q].pc = IF q = r THEN y ELSE spawn[q].pc
  BY DEF TypeOK, Goto

\* The case of NoNewClaim in which only the place of one request changes.
LEMMA OnlyPlace ==
    ASSUME LifecycleInv, NEW r \in Spawners,
           spawn[r].pc \notin {"session"},
           spawn'[r].pc \in {"probe", "create", "register", "mark", "teardown",
                             "refused", "failed"},
           spawn'[r].pc = "mark" => Claimed(r),
           \A q \in Spawners : q # r => spawn'[q].pc = spawn[q].pc,
           UNCHANGED <<agent, session, sup, harness>>
    PROVE  LifecycleInv'
<1>1. \A q \in Spawners : Claimed(q)' => Claimed(q)
  BY DEF Claimed
<1>2. \A q \in Spawners : spawn'[q].pc = "session" => spawn[q].pc = "session"
  OBVIOUS
<1>3. \A q \in Spawners :
        sup'[q] # "none" \/ spawn'[q].pc \in {"status", "run", "handle", "ok"}
           => harness'[q] # "none"
  BY DEF LifecycleInv
<1> QED
  BY <1>1, <1>2, <1>3, NoNewClaim

LEMMA InvStep ==
    ASSUME TypeOK, LifecycleInv, [Next]_vars
    PROVE  LifecycleInv'
<1> USE DEF disk
<1>1. ASSUME NEW r \in Spawners, SpawnStep(r)
     PROVE  LifecycleInv'
  <2>1. CASE SpawnBegin(r)
    <3>1. /\ spawn'[r].pc \in {"probe", "refused", "failed"}
          /\ \A q \in Spawners : q # r => spawn'[q].pc = spawn[q].pc
      BY <2>1 DEF SpawnBegin, TypeOK
    <3> QED
      BY <2>1, <3>1, OnlyPlace DEF SpawnBegin, At
  <2>2. CASE Probe(r)
    <3>1. /\ spawn'[r].pc \in {"create", "refused"}
          /\ \A q \in Spawners : q # r => spawn'[q].pc = spawn[q].pc
      BY <2>2, GotoPC DEF Probe
    <3> QED
      BY <2>2, <3>1, OnlyPlace DEF Probe, At
  <2>3. CASE CreateWorktree(r)
    <3>1. /\ spawn'[r].pc \in {"register", "refused"}
          /\ \A q \in Spawners : q # r => spawn'[q].pc = spawn[q].pc
      BY <2>3, GotoPC DEF CreateWorktree
    <3> QED
      BY <2>3, <3>1, OnlyPlace DEF CreateWorktree, At
  <2>4. CASE CreateFolder(r)
    <3>1. /\ spawn'[r].pc \in {"register", "refused"}
          /\ \A q \in Spawners : q # r => spawn'[q].pc = spawn[q].pc
      BY <2>4, GotoPC DEF CreateFolder
    <3> QED
      BY <2>4, <3>1, OnlyPlace DEF CreateFolder, At
  <2>5. CASE AgentRegister(r)
    <3>1. CASE agent = "none" /\ agent' = "starting" /\ Goto(r, "session")
      \* Nobody had won: no row, so no claim.
      <4>1. \A q \in Spawners : ~Claimed(q)
        BY <3>1 DEF LifecycleInv
      <4>2. \A q \in Spawners : Claimed(q)' => q = r
        BY <2>5, <3>1, <4>1 DEF AgentRegister, Goto, TypeOK, Claimed
      <4>3. session'.status = "none"
        BY <2>5, <3>1 DEF AgentRegister, LifecycleInv
      <4>4. \A q \in Spawners :
              sup'[q] # "none" \/ spawn'[q].pc \in {"status", "run", "handle", "ok"}
                 => harness'[q] # "none"
        BY <2>5, <3>1 DEF AgentRegister, Goto, TypeOK, LifecycleInv
      <4> QED
        BY <3>1, <4>2, <4>3, <4>4 DEF LifecycleInv, FreshSession
    <3>2. CASE agent' = agent /\ (Goto(r, "teardown") \/ Goto(r, "failed"))
      BY <2>5, <3>2, GotoPC, OnlyPlace DEF AgentRegister, At
    <3> QED
      BY <2>5, <3>1, <3>2 DEF AgentRegister
  <2>6. CASE SessionCreate(r)
    <3>1. CASE Goto(r, "launch")
      \* r has won, so no other request is about to create the row.
      <4>1. Claimed(r) /\ agent' = agent
        BY <2>6 DEF SessionCreate, At, Claimed
      <4>2. \A q \in Spawners : Claimed(q)' => Claimed(q)
        BY <2>6, <3>1, <4>1 DEF SessionCreate, Goto, TypeOK, Claimed
      <4>3. \A q \in Spawners : spawn'[q].pc # "session"
        BY <2>6, <3>1, <4>1 DEF SessionCreate, Goto, TypeOK, Claimed, LifecycleInv
      <4>4. \A q \in Spawners :
              sup'[q] # "none" \/ spawn'[q].pc \in {"status", "run", "handle", "ok"}
                 => harness'[q] # "none"
        BY <2>6, <3>1 DEF SessionCreate, Goto, TypeOK, LifecycleInv
      <4> QED
        BY <4>1, <4>2, <4>3, <4>4 DEF LifecycleInv, FreshSession
    <3>2. CASE session' = session /\ Goto(r, "failed")
      BY <2>6, <3>2, NoNewClaim
      DEF SessionCreate, At, Goto, TypeOK, LifecycleInv, Claimed
    <3> QED
      BY <2>6, <3>1, <3>2 DEF SessionCreate
  <2>7. CASE Launch(r)
    <3>1. Claimed(r)
      BY <2>7 DEF Launch, At, Claimed
    <3>2. CASE Goto(r, "mark") /\ harness' = harness
      BY <2>7, <3>1, <3>2, GotoPC, OnlyPlace DEF Launch, At
    <3>3. ASSUME NEW h \in {"alive", "gone"}, NEW y \in {"status", "mark"},
                 Goto(r, y), harness' = [harness EXCEPT ![r] = h]
          PROVE  LifecycleInv'
      <4>1. \A q \in Spawners : harness'[q] = IF q = r THEN h ELSE harness[q]
        BY <3>3 DEF TypeOK
      <4>2. \A q \in Spawners : spawn'[q].pc = IF q = r THEN y ELSE spawn[q].pc
        BY <3>3, GotoPC
      <4> QED
        BY <2>7, <3>1, <4>1, <4>2, NoNewClaim DEF Launch, LifecycleInv, Claimed
    <3> QED
      BY <2>7, <3>2, <3>3 DEF Launch
  <2>8. CASE SetRunning(r)
    <3>1. Claimed(r) /\ harness[r] # "none"
      BY <2>8 DEF SetRunning, At, Claimed, LifecycleInv
    <3>2. /\ spawn'[r].pc \in {"run", "mark"}
          /\ \A q \in Spawners : q # r => spawn'[q].pc = spawn[q].pc
      BY <2>8, GotoPC DEF SetRunning
    <3>3. \A q \in Spawners : harness'[q] # "none" <=> harness[q] # "none"
      BY <2>8, <3>1 DEF SetRunning, TypeOK
    <3> QED
      BY <2>8, <3>1, <3>2, <3>3, NoNewClaim DEF SetRunning, LifecycleInv, Claimed
  <2>9. CASE StartSupervisor(r)
    BY <2>9, NoNewClaim DEF StartSupervisor, At, Goto, TypeOK, LifecycleInv, Claimed
  <2>10. CASE RegisterChild(r)
    BY <2>10, NoNewClaim DEF RegisterChild, At, Goto, TypeOK, LifecycleInv, Claimed
  <2>11. CASE UndoMark(r)
    BY <2>11, NoNewClaim DEF UndoMark, At, Goto, TypeOK, LifecycleInv, Claimed
  <2>12. CASE UndoWorkspace(r)
    BY <2>12, NoNewClaim DEF UndoWorkspace, At, Goto, TypeOK, LifecycleInv, Claimed
  <2> QED
    BY <1>1, <2>1, <2>2, <2>3, <2>4, <2>5, <2>6, <2>7, <2>8, <2>9, <2>10,
       <2>11, <2>12 DEF SpawnStep
<1>2. ASSUME NEW r \in Spawners, SupervisorStep(r) \/ HarnessExits(r)
     PROVE  LifecycleInv'
  \* A supervisor's steps keep its harness's mark, and the rows.
  <2>1. /\ spawn' = spawn /\ session' = session
        /\ agent # "none" => agent' # "none"
        /\ sup[r] # "none" \/ harness[r] # "none"
        /\ \A q \in Spawners : sup'[q] # "none" => sup[q] # "none"
        /\ harness' = harness \/ harness' = [harness EXCEPT ![r] = "gone"]
    BY <1>2 DEF SupervisorStep, TurnComplete, FeedTurn, SetTurnStatus, SeeExit,
                Finish, Forget, Reap, HarnessExits, Polled, Advance, TypeOK, SupPC
  <2>2. harness[r] # "none"
    BY <2>1 DEF LifecycleInv
  <2>3. \A q \in Spawners : harness'[q] # "none" <=> harness[q] # "none"
    BY <2>1, <2>2 DEF TypeOK
  <2> QED
    BY <2>1, <2>3, NoNewClaim DEF LifecycleInv, Claimed
<1>3. ASSUME NEW k \in Stoppers, StopStep(k)
     PROVE  LifecycleInv'
  <2>1. /\ spawn' = spawn /\ sup' = sup /\ harness' = harness
        /\ agent # "none" => agent' # "none"
        /\ session'.status # "none" => session.status # "none"
    BY <1>3 DEF StopStep, StopBegin, KillChild, StopMark, StopClose,
                StopTeardown, TypeOK
  <2> QED
    BY <2>1, NoNewClaim DEF LifecycleInv, Claimed
<1>4. CASE Shutdown \/ Crash
  <2>1. \A q \in Spawners : /\ spawn'[q].pc \in {spawn[q].pc, "lost"}
                            /\ sup'[q] # "none" => sup[q] # "none"
                            /\ harness'[q] # "none" <=> harness[q] # "none"
    BY <1>4 DEF Shutdown, Crash, Down, TypeOK
  <2>2. agent' = agent /\ session' = session
    BY <1>4 DEF Shutdown, Crash, Down
  <2> QED
    BY <2>1, <2>2, NoNewClaim DEF LifecycleInv, Claimed
<1>5. CASE Restart
  <2>1. /\ spawn' = spawn /\ sup' = sup /\ harness' = harness
        /\ agent # "none" => agent' # "none"
        /\ session'.status # "none" => session.status # "none"
    BY <1>5 DEF Restart, TypeOK
  <2> QED
    BY <2>1, NoNewClaim DEF LifecycleInv, Claimed
<1>6. CASE UNCHANGED vars
  BY <1>6 DEF vars, LifecycleInv, Claimed, FreshSession
<1> QED
  BY <1>1, <1>2, <1>3, <1>4, <1>5, <1>6 DEF Next

-----------------------------------------------------------------------------
(* The theorems.                                                           *)

LEMMA TypeInit == Init => TypeOK
  BY LifecycleAssumption DEF Init, TypeOK, SpawnPC, StopPC, SupPC

LEMMA InvInit == Init => LifecycleInv
  BY DEF Init, LifecycleInv, Claimed, FreshSession

\* Every reachable state of a session's life is well typed.
THEOREM LifecycleTyped == Spec => []TypeOK
<1>1. TypeOK /\ [Next]_vars => TypeOK'
  BY TypeStep
<1> QED
  BY TypeInit, <1>1, PTL DEF Spec

\* The winner of a name stays unique, with its row, for ever.
THEOREM LifecycleInvariant == Spec => []LifecycleInv
<1>1. TypeOK /\ LifecycleInv /\ [Next]_vars => LifecycleInv'
  BY InvStep
<1> QED
  BY InvInit, <1>1, LifecycleTyped, PTL DEF Spec

\* However many Spawn requests race for one name, and whatever fails, at most
\* one of them ever starts a harness under it.
THEOREM HarnessIsUnique == Spec => []OneHarness
<1>1. LifecycleInv => OneHarness
  BY DEF LifecycleInv, Claimed, OneHarness
<1> QED
  BY LifecycleInvariant, <1>1, PTL

\* No request ever gets to session_create with the session's row in place: the
\* refusal that follows it in spawn_session is dead code.
THEOREM SessionIsFresh == Spec => []FreshSession
<1>1. LifecycleInv => FreshSession
  BY DEF LifecycleInv
<1> QED
  BY LifecycleInvariant, <1>1, PTL

-----------------------------------------------------------------------------
(* Every answered child can be reached.                                    *)

LEMMA ReachStep ==
    ASSUME TypeOK, LifecycleInv, ReachInv, [Next]_vars
    PROVE  ReachInv'
<1> USE DEF disk, Supervised
<1>0. /\ \A r, q \in Spawners : Claimed(r) /\ Claimed(q) => r = q
      /\ \A r \in Spawners : spawn[r].pc = "ok" \/ Supervised(r) => Claimed(r)
  BY DEF LifecycleInv, Claimed
<1>1. ASSUME NEW r \in Spawners, SpawnStep(r)
      PROVE  ReachInv'
  <2>0. phase = "up" /\ phase' = "up" /\ cancel' = cancel /\ spawn[r].pc # "ok"
    BY <1>1 DEF SpawnStep, SpawnBegin, Probe, CreateWorktree, CreateFolder,
       AgentRegister, SessionCreate, Launch, SetRunning, StartSupervisor,
       RegisterChild, UndoMark, UndoWorkspace, At
  <2>1. CASE RegisterChild(r)
    <3>1. Claimed(r)
      BY <2>1 DEF RegisterChild, At, Claimed
    <3>2. \A q \in Spawners : spawn'[q].pc = IF q = r THEN "ok" ELSE spawn[q].pc
      BY <2>1, GotoPC DEF RegisterChild
    <3>3. \A q \in Spawners : spawn'[q].pc = "ok" => q = r
      BY <1>0, <3>1, <3>2
    <3> QED
      BY <2>0, <2>1, <3>3 DEF RegisterChild, ReachInv, Reachable
  <2>2. CASE StartSupervisor(r)
    <3>1. \A q \in Spawners : spawn'[q].pc = IF q = r THEN "handle" ELSE spawn[q].pc
      BY <2>2, GotoPC DEF StartSupervisor
    <3>2. \A q \in Spawners : q # r => sup'[q] = sup[q]
      BY <2>2 DEF StartSupervisor, TypeOK
    <3> QED
      BY <2>0, <2>2, <3>1, <3>2 DEF StartSupervisor, ReachInv, Reachable
  <2>3. CASE ~RegisterChild(r) /\ ~StartSupervisor(r)
    <3>1. sup' = sup /\ children' = children
      BY <1>1, <2>3 DEF SpawnStep, SpawnBegin, Probe, CreateWorktree, CreateFolder,
         AgentRegister, SessionCreate, Launch, SetRunning, UndoMark, UndoWorkspace
    <3>2. \A q \in Spawners : spawn'[q].pc = "ok" => spawn[q].pc = "ok"
      <4>1. CASE SpawnBegin(r)
        BY <4>1 DEF SpawnBegin, TypeOK
      <4>2. CASE ~SpawnBegin(r)
        <5>1. \E y \in SpawnPC \ {"ok"} : Goto(r, y)
          BY <1>1, <2>3, <4>2 DEF SpawnStep, Probe, CreateWorktree, CreateFolder,
             AgentRegister, SessionCreate, Launch, SetRunning, UndoMark,
             UndoWorkspace, SpawnPC
        <5> QED
          BY <5>1, GotoPC
      <4> QED
        BY <4>1, <4>2
    <3> QED
      BY <2>0, <3>1, <3>2 DEF ReachInv, Reachable
  <2> QED
    BY <2>1, <2>2, <2>3
<1>2. ASSUME NEW r \in Spawners, SupervisorStep(r)
      PROVE  ReachInv'
  <2>0. /\ phase = "up" /\ phase' = "up" /\ spawn' = spawn /\ Supervised(r)
        /\ \A q \in Spawners : q # r => sup'[q] = sup[q]
        /\ \A q \in Spawners : cancel'[q] = "no" => cancel[q] = "no"
    BY <1>2 DEF SupervisorStep, TurnComplete, FeedTurn, SetTurnStatus, SeeExit,
       Finish, Forget, Reap, Polled, Advance, TypeOK
  <2>1. CASE Forget(r)
    <3>1. sup'[r] = "ended"
      BY <2>1 DEF Forget, Advance, TypeOK
    <3>2. \A q \in Spawners : spawn[q].pc = "ok" => q = r
      BY <1>0, <2>0
    <3> QED
      BY <2>0, <3>1, <3>2 DEF ReachInv, Reachable
  <2>2. CASE ~Forget(r)
    <3>1. children' = children
      BY <1>2, <2>2 DEF SupervisorStep, TurnComplete, FeedTurn, SetTurnStatus,
         SeeExit, Finish, Reap
    <3> QED
      BY <2>0, <3>1 DEF ReachInv, Reachable
  <2> QED
    BY <2>1, <2>2
<1>3. ASSUME NEW k \in Stoppers, StopStep(k)
      PROVE  ReachInv'
  <2>0. phase = "up" /\ phase' = "up" /\ spawn' = spawn /\ sup' = sup
    BY <1>3 DEF StopStep, StopBegin, KillChild, StopMark, StopClose, StopTeardown,
       Stopping
  <2>1. CASE KillChild(k)
    <3>1. \A q \in Spawners : cancel'[q] = "no" => cancel[q] = "no" /\ children # q
      BY <2>1, LifecycleAssumption DEF KillChild, TypeOK
    <3> QED
      BY <2>0, <3>1 DEF ReachInv, Reachable
  <2>2. CASE ~KillChild(k)
    <3>1. children' = children /\ cancel' = cancel
      BY <1>3, <2>2 DEF StopStep, StopBegin, StopMark, StopClose, StopTeardown
    <3> QED
      BY <2>0, <3>1 DEF ReachInv, Reachable
  <2> QED
    BY <2>1, <2>2
<1>4. CASE Shutdown \/ Crash
  <2>1. phase' = "down" /\ \A q \in Spawners : sup'[q] \in {"none", "ended"}
    BY <1>4 DEF Shutdown, Crash, Down
  <2> QED
    BY <2>1 DEF ReachInv, Reachable
<1>5. CASE Restart
  BY <1>5 DEF Restart, ReachInv, Reachable
<1>6. ASSUME NEW r \in Spawners, HarnessExits(r)
      PROVE  ReachInv'
  BY <1>6 DEF HarnessExits, ReachInv, Reachable
<1>7. CASE UNCHANGED vars
  BY <1>7 DEF vars, ReachInv, Reachable
<1> QED
  BY <1>1, <1>2, <1>3, <1>4, <1>5, <1>6, <1>7 DEF Next

\* Once its Spawn was answered, a supervised child that has not been aborted has
\* its handle in children: register_child, kill_child and forget_child never
\* lose it, so AgentKill, SessionClose and shutdown can abort it.
THEOREM ChildrenAreReachable == Spec => []Reachable
<1>1. Init => ReachInv
  BY DEF Init, ReachInv, Reachable, Supervised
<1>2. TypeOK /\ LifecycleInv /\ ReachInv /\ [Next]_vars => ReachInv'
  BY ReachStep
<1>3. ReachInv => Reachable
  BY DEF ReachInv
<1> QED
  BY <1>1, <1>2, <1>3, LifecycleTyped, LifecycleInvariant, PTL DEF Spec

-----------------------------------------------------------------------------
(* Rolling back.                                                           *)

\* What Goto leaves alone.
LEMMA GotoMode ==
    ASSUME TypeOK, NEW r \in Spawners, NEW y, Goto(r, y)
    PROVE  \A q \in Spawners : spawn'[q].mode = spawn[q].mode
  BY DEF TypeOK, Goto

LEMMA RollStep ==
    ASSUME "store" \notin FaultKinds, "cleanup" \notin FaultKinds,
           "checkout" \notin FaultKinds,
           TypeOK, RollInv, [Next]_vars
    PROVE  RollInv'
<1> USE DEF disk
<1> DEFINE Unmade == {"idle", "probe", "create", "refused", "failed"}
<1>0. /\ None \notin Spawners
      /\ ~Fault("store") /\ ~Fault("cleanup") /\ ~Fault("checkout")
  BY LifecycleAssumption DEF Fault
\* Other steps than those of a Spawn only remove, and move no request back.
<1>a. ASSUME dir' \in {dir, None}, branch' \in {branch, None},
             \A q \in Spawners : /\ spawn'[q].mode = spawn[q].mode
                                 /\ spawn'[q].pc \in Unmade => spawn[q].pc \in Unmade
      PROVE  RollInv'
  BY <1>0, <1>a DEF RollInv
<1>1. ASSUME NEW r \in Spawners, SpawnStep(r)
      PROVE  RollInv'
  <2>1. CASE SpawnBegin(r)
    <3>1. /\ dir' = dir /\ branch' = branch /\ dir # r /\ branch # r
      BY <2>1 DEF SpawnBegin, At, RollInv
    <3>2. \A q \in Spawners : q # r => spawn'[q] = spawn[q]
      BY <2>1 DEF SpawnBegin, TypeOK
    <3> QED
      BY <3>1, <3>2 DEF RollInv
  <2>2. CASE Probe(r)
    <3>1. /\ dir' = dir /\ branch' = branch /\ spawn[r].pc \in Unmade
          /\ \E y \in SpawnPC : Goto(r, y)
      BY <2>2 DEF Probe, At, SpawnPC
    <3> QED
      BY <1>a, <3>1, GotoPC, GotoMode
  <2>3. CASE CreateWorktree(r)
    <3>1. CASE Goto(r, "refused") /\ dir' = dir /\ branch' = branch
      BY <1>a, <2>3, <3>1, GotoPC, GotoMode DEF CreateWorktree, At
    <3>2. CASE Goto(r, "register") /\ dir' \in {dir, r} /\ branch' = r
      <4>1. \A q \in Spawners : /\ spawn'[q].mode = spawn[q].mode
                                /\ spawn'[q].pc = IF q = r THEN "register"
                                                  ELSE spawn[q].pc
        BY <3>2, GotoPC, GotoMode
      <4>2. spawn[r].mode = "worktree"
        BY <2>3 DEF CreateWorktree
      <4> QED
        BY <3>2, <4>1, <4>2 DEF RollInv
    <3> QED
      BY <1>0, <2>3, <3>1, <3>2 DEF CreateWorktree
  <2>4. CASE CreateFolder(r)
    <3>1. CASE Goto(r, "refused") /\ dir' = dir /\ branch' = branch
      BY <1>a, <2>4, <3>1, GotoPC, GotoMode DEF CreateFolder, At
    <3>2. CASE Goto(r, "register") /\ dir' \in {dir, r} /\ branch' = branch
      <4>1. \A q \in Spawners : /\ spawn'[q].mode = spawn[q].mode
                                /\ spawn'[q].pc = IF q = r THEN "register"
                                                  ELSE spawn[q].pc
        BY <3>2, GotoPC, GotoMode
      <4> QED
        BY <3>2, <4>1 DEF RollInv
    <3> QED
      BY <2>4, <3>1, <3>2 DEF CreateFolder
  <2>5. CASE UndoWorkspace(r)
    <3>1. /\ Goto(r, "refused") /\ dir' = None
          /\ branch' = IF spawn[r].mode = "worktree" THEN None ELSE branch
      BY <1>0, <2>5 DEF UndoWorkspace, TearDown
    <3>2. \A q \in Spawners : /\ spawn'[q].mode = spawn[q].mode
                              /\ spawn'[q].pc = IF q = r THEN "refused"
                                                ELSE spawn[q].pc
      BY <3>1, GotoPC, GotoMode
    <3> QED
      BY <1>0, <3>1, <3>2 DEF RollInv
  <2>6. CASE \/ AgentRegister(r) \/ SessionCreate(r) \/ Launch(r) \/ SetRunning(r)
             \/ StartSupervisor(r) \/ RegisterChild(r) \/ UndoMark(r)
    <3>1. /\ dir' = dir /\ branch' = branch
          /\ \E y \in SpawnPC \ Unmade : Goto(r, y)
      BY <1>0, <2>6 DEF AgentRegister, SessionCreate, Launch, SetRunning,
         StartSupervisor, RegisterChild, UndoMark, SpawnPC
    <3> QED
      BY <1>a, <3>1, GotoPC, GotoMode
  <2> QED
    BY <1>1, <2>1, <2>2, <2>3, <2>4, <2>5, <2>6 DEF SpawnStep
<1>2. ASSUME NEW r \in Spawners, SupervisorStep(r) \/ HarnessExits(r)
      PROVE  RollInv'
  <2>1. dir' = dir /\ branch' = branch /\ spawn' = spawn
    BY <1>2 DEF SupervisorStep, TurnComplete, FeedTurn, SetTurnStatus, SeeExit,
       Finish, Forget, Reap, HarnessExits
  <2> QED
    BY <1>a, <2>1
<1>3. ASSUME NEW k \in Stoppers, StopStep(k)
      PROVE  RollInv'
  <2>1. dir' \in {dir, None} /\ branch' \in {branch, None} /\ spawn' = spawn
    BY <1>3 DEF StopStep, StopBegin, KillChild, StopMark, StopClose, StopTeardown,
       TearDown
  <2> QED
    BY <1>a, <2>1
<1>4. CASE Shutdown \/ Crash
  <2>1. /\ dir' = dir /\ branch' = branch
        /\ \A q \in Spawners : /\ spawn'[q].mode = spawn[q].mode
                               /\ spawn'[q].pc \in {spawn[q].pc, "lost"}
    BY <1>4 DEF Shutdown, Crash, Down, TypeOK
  <2> QED
    BY <1>a, <2>1
<1>5. CASE Restart \/ UNCHANGED vars
  <2>1. dir' = dir /\ branch' = branch /\ spawn' = spawn
    BY <1>5 DEF Restart, vars
  <2> QED
    BY <1>a, <2>1
<1> QED
  BY <1>1, <1>2, <1>3, <1>4, <1>5 DEF Next

\* "Rolls back the workspace on failure" (spawn_session): in both modes and
\* under every race, a refused Spawn leaves neither a directory nor a branch of
\* its own, unless the store fails between provision and the rows, git or the
\* file system refuse the removal, or a checkout that fails leaves its branch.
THEOREM SpawnRollsBack ==
    ASSUME "store" \notin FaultKinds, "cleanup" \notin FaultKinds,
           "checkout" \notin FaultKinds
    PROVE  Spec => []RolledBack
<1>1. Init => RollInv
  BY LifecycleAssumption DEF Init, RollInv
<1>2. TypeOK /\ RollInv /\ [Next]_vars => RollInv'
  BY RollStep
<1>3. RollInv => RolledBack
  BY DEF RollInv, RolledBack
<1> QED
  BY <1>1, <1>2, <1>3, LifecycleTyped, PTL DEF Spec

-----------------------------------------------------------------------------
(* Keeping the workspace.                                                  *)

Holding == {"register", "session", "launch", "status", "run", "handle", "ok",
            "mark", "teardown"}
Running == {"status", "run", "handle", "ok"}

LEMMA KeepStep ==
    ASSUME "new" \notin Modes, TypeOK, KeepInv, [Next]_vars
    PROVE  KeepInv'
<1> USE DEF disk
<1>0. None \notin Spawners /\ Modes \subseteq {"worktree"}
  BY LifecycleAssumption
<1>a. ASSUME NoClose, NEW r \in Spawners, spawn[r].pc \in Holding
      PROVE  dir = r
  BY <1>a DEF KeepInv, Holding
\* A step that starts no child, makes no directory and ends no stop.
<1>b. ASSUME NoClose' => NoClose,
             \A k \in Stoppers : stop'[k].pc = "teardown" => stop'[k].kind # "kill",
             \A r \in Spawners : harness'[r] = "alive" => spawn'[r].pc \in Running,
             NoClose' => \A r \in Spawners : spawn'[r].pc \in Holding =>
                           dir' = r
      PROVE  KeepInv'
  BY <1>b DEF KeepInv, Holding, Running
<1>1. ASSUME NEW r \in Spawners, SpawnStep(r)
      PROVE  KeepInv'
  <2>0. /\ stop' = stop /\ NoClose' = NoClose
        /\ \A k \in Stoppers : stop'[k].pc = "teardown" => stop'[k].kind # "kill"
    <3>1. stop' = stop
      BY <1>1 DEF SpawnStep, SpawnBegin, Probe, CreateWorktree, CreateFolder,
         AgentRegister, SessionCreate, Launch, SetRunning, StartSupervisor,
         RegisterChild, UndoMark, UndoWorkspace
    <3> QED
      BY <3>1 DEF NoClose, KeepInv
  <2>1. CASE SpawnBegin(r)
    <3>1. /\ dir' = dir /\ harness' = harness /\ spawn[r].pc = "idle"
          /\ spawn'[r].pc \notin Holding
          /\ \A q \in Spawners : q # r => spawn'[q] = spawn[q]
      BY <2>1 DEF SpawnBegin, At, TypeOK, Holding
    <3>2. harness[r] # "alive"
      BY <3>1 DEF KeepInv
    <3> QED
      BY <1>a, <1>b, <2>0, <3>1, <3>2 DEF KeepInv, Running
  <2>2. CASE Probe(r)
    <3>1. /\ dir' = dir /\ harness' = harness /\ spawn[r].pc = "probe"
          /\ \E y \in {"create", "refused"} : Goto(r, y)
      BY <2>2 DEF Probe, At
    <3>2. harness[r] # "alive"
      BY <3>1 DEF KeepInv
    <3> QED
      BY <1>a, <1>b, <2>0, <3>1, <3>2, GotoPC DEF KeepInv, Running, Holding
  <2>3. CASE CreateWorktree(r)
    <3>0. harness' = harness /\ harness[r] # "alive"
      BY <2>3 DEF CreateWorktree, At, KeepInv
    <3>1. CASE Goto(r, "refused") /\ dir' = dir
      BY <1>a, <1>b, <2>0, <3>0, <3>1, GotoPC DEF KeepInv, Running, Holding
    <3>2. CASE Goto(r, "register") /\ dir = None /\ dir' = r
      <4>1. \A q \in Spawners : spawn'[q].pc = IF q = r THEN "register" ELSE spawn[q].pc
        BY <3>2, GotoPC
      <4>2. NoClose => \A q \in Spawners : spawn[q].pc \notin Holding
        BY <1>0, <1>a, <3>2
      <4> QED
        BY <1>b, <2>0, <3>0, <3>2, <4>1, <4>2 DEF KeepInv, Running
    <3>3. ~(dir # None /\ spawn[dir].mode = "new")
      BY <1>0 DEF TypeOK
    <3> QED
      BY <2>3, <3>1, <3>2, <3>3 DEF CreateWorktree
  <2>4. ~CreateFolder(r)
    BY <1>0 DEF CreateFolder, TypeOK
  <2>5. CASE UndoWorkspace(r)
    <3>1. /\ Goto(r, "refused") /\ dir' \in {dir, None} /\ spawn[r].pc = "teardown"
          /\ harness' = harness
      BY <2>5 DEF UndoWorkspace, TearDown, At
    <3>2. \A q \in Spawners : spawn'[q].pc = IF q = r THEN "refused" ELSE spawn[q].pc
      BY <3>1, GotoPC
    <3>3. NoClose => \A q \in Spawners : spawn[q].pc \in Holding => q = r
      <4>1. NoClose => dir = r
        BY <1>a, <3>1 DEF Holding
      <4> QED
        BY <1>a, <4>1
    <3>4. harness[r] # "alive"
      BY <3>1 DEF KeepInv
    <3> QED
      BY <1>b, <2>0, <3>1, <3>2, <3>3, <3>4 DEF KeepInv, Running, Holding
  <2>6. CASE AgentRegister(r) \/ SessionCreate(r) \/ UndoMark(r)
    <3>1. /\ dir' = dir /\ harness' = harness
          /\ spawn[r].pc \in Holding \ Running
          /\ \E y \in {"session", "teardown", "failed", "launch"} : Goto(r, y)
      BY <2>6 DEF AgentRegister, SessionCreate, UndoMark, At, Holding, Running
    <3>2. harness[r] # "alive"
      BY <3>1 DEF KeepInv, Running
    <3> QED
      BY <1>a, <1>b, <2>0, <3>1, <3>2, GotoPC DEF KeepInv, Running
  <2>7. CASE Launch(r) \/ SetRunning(r)
    <3>1. PICK y \in {"status", "run", "mark"} : Goto(r, y)
      BY <2>7 DEF Launch, SetRunning
    <3>2. /\ dir' = dir /\ spawn[r].pc \in Holding
          /\ \A q \in Spawners : spawn'[q].pc = IF q = r THEN y ELSE spawn[q].pc
      BY <2>7, <3>1, GotoPC DEF Launch, SetRunning, At, Holding
    <3>3. /\ \A q \in Spawners : q # r => harness'[q] = harness[q]
          /\ harness'[r] = "alive" => y # "mark"
      <4>1. spawn[r].pc = "launch" => harness[r] # "alive"
        BY DEF KeepInv
      <4>2. ASSUME NEW z, Goto(r, z) PROVE z = y
        BY <3>1, <4>2, GotoPC
      <4>3. CASE Launch(r)
        BY <4>1, <4>2, <4>3 DEF Launch, At, TypeOK
      <4>4. CASE SetRunning(r)
        BY <4>2, <4>4 DEF SetRunning, TypeOK
      <4> QED
        BY <2>7, <4>3, <4>4
    <3>4. \A q \in Spawners : harness'[q] = "alive" => spawn'[q].pc \in Running
      BY <3>2, <3>3 DEF KeepInv, Running
    <3>5. NoClose' => \A q \in Spawners : spawn'[q].pc \in Holding => dir' = q
      BY <1>a, <2>0, <3>2
    <3> QED
      BY <1>b, <2>0, <3>4, <3>5
  <2>8. CASE StartSupervisor(r) \/ RegisterChild(r)
    <3>1. /\ dir' = dir /\ harness' = harness /\ spawn[r].pc \in Holding
          /\ \E y \in {"handle", "ok"} : Goto(r, y)
      BY <2>8 DEF StartSupervisor, RegisterChild, At, Holding
    <3> QED
      BY <1>a, <1>b, <2>0, <3>1, GotoPC DEF KeepInv, Running
  <2> QED
    BY <1>1, <2>1, <2>2, <2>3, <2>4, <2>5, <2>6, <2>7, <2>8 DEF SpawnStep
<1>2. ASSUME NEW r \in Spawners, SupervisorStep(r) \/ HarnessExits(r)
      PROVE  KeepInv'
  <2>1. /\ dir' = dir /\ spawn' = spawn /\ stop' = stop
        /\ \A q \in Spawners : harness'[q] = "alive" => harness[q] = "alive"
    BY <1>2 DEF SupervisorStep, TurnComplete, FeedTurn, SetTurnStatus, SeeExit,
       Finish, Forget, Reap, HarnessExits, TypeOK
  <2> QED
    BY <2>1 DEF KeepInv, NoClose
<1>3. ASSUME NEW k \in Stoppers, StopStep(k)
      PROVE  KeepInv'
  <2>0. spawn' = spawn /\ harness' = harness
    BY <1>3 DEF StopStep, StopBegin, KillChild, StopMark, StopClose, StopTeardown
  <2>1. CASE StopBegin(k)
    <3>1. /\ stop[k].pc = "idle" /\ stop'[k].pc \in {"kill", "notfound"}
          /\ \A j \in Stoppers : j # k => stop'[j] = stop[j]
          /\ dir' = dir
      BY <2>1 DEF StopBegin, Stopping, TypeOK
    <3>2. NoClose' => NoClose
      BY <3>1 DEF NoClose
    <3> QED
      BY <2>0, <3>1, <3>2 DEF KeepInv
  <2>2. CASE KillChild(k) \/ StopMark(k) \/ StopClose(k)
    <3>1. /\ dir' = dir
          /\ \A j \in Stoppers : stop'[j].kind = stop[j].kind
          /\ \A j \in Stoppers : j # k => stop'[j].pc = stop[j].pc
          /\ \/ stop[k].pc \in {"kill", "mark"} /\ stop'[k].pc # "teardown"
             \/ /\ stop[k].pc = "close" /\ stop'[k].pc \in {"done", "teardown"}
                /\ stop'[k].pc = "teardown" => stop[k].kind # "kill"
      BY <2>2 DEF KillChild, StopMark, StopClose, Stopping, StopGoto, TypeOK
    <3>2. NoClose' => NoClose
      BY <3>1 DEF NoClose
    <3> QED
      BY <2>0, <3>1, <3>2 DEF KeepInv
  <2>3. CASE StopTeardown(k)
    <3>1. /\ stop[k].pc = "teardown" /\ stop'[k].pc = "done"
          /\ stop'[k].kind = stop[k].kind
          /\ \A j \in Stoppers : j # k => stop'[j] = stop[j]
      BY <2>3 DEF StopTeardown, Stopping, StopGoto, TypeOK
    <3>2. ~NoClose'
      BY <3>1 DEF NoClose, KeepInv
    <3> QED
      BY <2>0, <3>1, <3>2 DEF KeepInv
  <2> QED
    BY <1>3, <2>1, <2>2, <2>3 DEF StopStep
<1>4. CASE Shutdown \/ Crash
  <2>1. /\ dir' = dir
        /\ \A q \in Spawners : /\ spawn'[q].pc \in {spawn[q].pc, "lost"}
                               /\ harness'[q] # "alive"
        /\ \A k \in Stoppers : /\ stop'[k].kind = stop[k].kind
                               /\ stop'[k].pc \in {stop[k].pc, "lost"}
    BY <1>4 DEF Shutdown, Crash, Down, TypeOK
  <2>2. NoClose' => NoClose
    BY <2>1 DEF NoClose
  <2> QED
    BY <2>1, <2>2 DEF KeepInv
<1>5. CASE Restart \/ UNCHANGED vars
  <2>1. UNCHANGED <<dir, spawn, stop, harness>>
    BY <1>5 DEF Restart, vars
  <2> QED
    BY <2>1 DEF KeepInv, NoClose
<1> QED
  BY <1>1, <1>2, <1>3, <1>4, <1>5 DEF Next

\* With worktrees, where git decides the race for the directory, no request but
\* a SessionClose takes the workspace away from a running child: neither the
\* rollback of a Spawn that lost the name nor one that failed, whatever faults,
\* crashes and restarts there are.
THEOREM ChildrenKeepTheirWorkspace ==
    ASSUME "new" \notin Modes
    PROVE  Spec => []WorkspaceKept
<1>1. Init => KeepInv
  BY DEF Init, KeepInv
<1>2. TypeOK /\ KeepInv /\ [Next]_vars => KeepInv'
  BY KeepStep
<1>3. KeepInv => WorkspaceKept
  BY LifecycleAssumption DEF KeepInv, WorkspaceKept
<1> QED
  BY <1>1, <1>2, <1>3, LifecycleTyped, PTL DEF Spec

-----------------------------------------------------------------------------
(* No ghosts.                                                              *)

\* Who answers for an agent that is listed as live.
Spawning(r) == spawn[r].pc \in {"session", "launch", "status", "run", "mark"}
Attended(r) == Supervised(r) /\ sup[r] # "forget" /\ cancel[r] = "no"
Marking(k) == stop[k].pc = "mark"

LEMMA GhostStep ==
    ASSUME {"store", "late", "reconcile"} \cap FaultKinds = {},
           TypeOK, GhostInv, [Next]_vars
    PROVE  GhostInv'
<1> USE DEF disk
<1> DEFINE Told == \/ \E r \in Spawners : Spawning(r)
                   \/ \E r \in Spawners : Attended(r)
                   \/ \E k \in Stoppers : Marking(k)
           Handles == \A r \in Spawners :
                        cancel[r] # "no" \/ children = r => spawn[r].pc = "ok"
<1>0. ~Fault("store") /\ ~Fault("late") /\ ~Fault("reconcile")
  BY DEF Fault
<1>a. /\ Handles /\ \A r \in Spawners : cancel[r] # "late"
      /\ phase = "up" /\ agent \in Live => Told
  BY DEF GhostInv, Spawning, Attended, Marking
<1>b. ASSUME Handles', \A r \in Spawners : cancel'[r] # "late",
             phase' = "up" /\ agent' \in Live => Told'
      PROVE  GhostInv'
  BY <1>b DEF GhostInv, Spawning, Attended, Marking
<1> HIDE DEF Handles, Told
<1>1. ASSUME NEW r \in Spawners, SpawnStep(r)
      PROVE  GhostInv'
  <2>0. /\ phase = "up" /\ stop' = stop /\ cancel' = cancel /\ spawn[r].pc # "ok"
    BY <1>1 DEF SpawnStep, SpawnBegin, Probe, CreateWorktree, CreateFolder,
       AgentRegister, SessionCreate, Launch, SetRunning, StartSupervisor,
       RegisterChild, UndoMark, UndoWorkspace, At
  <2>a. cancel[r] = "no" /\ children # r
    BY <1>a, <2>0 DEF Handles
  <2>1. CASE RegisterChild(r)
    <3>1. /\ \A q \in Spawners : spawn'[q].pc = IF q = r THEN "ok" ELSE spawn[q].pc
          /\ spawn[r].pc = "handle" /\ children' = r
          /\ UNCHANGED <<agent, phase, sup>>
      BY <2>1, GotoPC DEF RegisterChild, At
    <3>2. Handles'
      BY <1>a, <2>0, <3>1, LifecycleAssumption DEF Handles
    <3>3. Told => Told'
      BY <2>0, <3>1 DEF Told, Spawning, Attended, Marking, Supervised
    <3> QED
      BY <1>a, <1>b, <2>0, <3>1, <3>2, <3>3
  <2>2. CASE StartSupervisor(r)
    <3>1. /\ \A q \in Spawners :
               spawn'[q].pc = IF q = r THEN "handle" ELSE spawn[q].pc
          /\ children' = children /\ sup'[r] = "loop"
      BY <2>2, GotoPC DEF StartSupervisor, TypeOK
    <3>2. Handles'
      BY <1>a, <2>0, <2>a, <3>1 DEF Handles
    <3>3. Told'
      BY <2>0, <2>a, <3>1 DEF Told, Attended, Supervised
    <3> QED
      BY <1>a, <1>b, <2>0, <3>2, <3>3
  <2>3. CASE \/ AgentRegister(r) \/ SessionCreate(r) \/ Launch(r) \/ SetRunning(r)
             \/ UndoMark(r)
    <3>1. PICK y \in SpawnPC : Goto(r, y) /\ y # "ok"
      BY <2>3 DEF AgentRegister, SessionCreate, Launch, SetRunning, UndoMark, SpawnPC
    <3>2. /\ children' = children /\ sup' = sup
          /\ \A q \in Spawners : spawn'[q].pc = IF q = r THEN y ELSE spawn[q].pc
      BY <2>3, <3>1, GotoPC
      DEF AgentRegister, SessionCreate, Launch, SetRunning, UndoMark
    <3>3. Handles'
      BY <1>a, <2>0, <2>a, <3>2 DEF Handles
    <3>4. ASSUME NEW z, Goto(r, z) PROVE z = y
      BY <3>2, <3>4, GotoPC
    <3>5. \/ y \in {"session", "launch", "status", "run", "mark"}
          \/ agent' = "exited"
          \/ spawn[r].pc = "register" /\ agent' = agent /\ phase' = phase
      BY <1>0, <2>3, <3>4
      DEF AgentRegister, SessionCreate, Launch, SetRunning, UndoMark, At
    <3>6. CASE y \in {"session", "launch", "status", "run", "mark"}
      <4>1. Told'
        BY <3>2, <3>6 DEF Told, Spawning
      <4> QED
        BY <1>a, <1>b, <2>0, <3>3, <4>1
    <3>7. CASE agent' = "exited"
      BY <1>a, <1>b, <2>0, <3>3, <3>7 DEF Live
    <3>8. CASE spawn[r].pc = "register" /\ agent' = agent /\ phase' = phase
      <4>1. Told => Told'
        BY <2>0, <3>2, <3>8 DEF Told, Spawning, Attended, Marking, Supervised
      <4> QED
        BY <1>a, <1>b, <2>0, <3>3, <3>8, <4>1
    <3> QED
      BY <3>5, <3>6, <3>7, <3>8
  <2>4. CASE \/ SpawnBegin(r) \/ Probe(r) \/ CreateWorktree(r) \/ CreateFolder(r)
             \/ UndoWorkspace(r)
    <3>1. UNCHANGED <<agent, phase, children, sup>>
      BY <2>4 DEF SpawnBegin, Probe, CreateWorktree, CreateFolder, UndoWorkspace
    <3>2. ~Spawning(r)
      BY <2>4 DEF SpawnBegin, Probe, CreateWorktree, CreateFolder, UndoWorkspace,
         At, Spawning
    <3>3. \A q \in Spawners : q # r => spawn'[q].pc = spawn[q].pc
      <4>1. CASE SpawnBegin(r)
        BY <4>1 DEF SpawnBegin, TypeOK
      <4>2. CASE ~SpawnBegin(r)
        BY <2>4, <4>2, GotoPC DEF Probe, CreateWorktree, CreateFolder, UndoWorkspace
      <4> QED
        BY <4>1, <4>2
    <3>4. Handles'
      BY <1>a, <2>0, <2>a, <3>1, <3>3 DEF Handles
    <3>5. Told => Told'
      BY <2>0, <3>1, <3>2, <3>3 DEF Told, Spawning, Attended, Marking, Supervised
    <3> QED
      BY <1>a, <1>b, <2>0, <3>1, <3>4, <3>5
  <2> QED
    BY <1>1, <2>1, <2>2, <2>3, <2>4 DEF SpawnStep
<1>2. ASSUME NEW r \in Spawners, SupervisorStep(r)
      PROVE  GhostInv'
  <2>0. /\ phase' = phase /\ spawn' = spawn /\ stop' = stop
        /\ \A q \in Spawners : q # r => sup'[q] = sup[q]
        /\ children' \in {children, None}
    BY <1>2 DEF SupervisorStep, TurnComplete, FeedTurn, SetTurnStatus, SeeExit,
       Finish, Forget, Reap, Advance, TypeOK
  <2>1. \A q \in Spawners : cancel'[q] = cancel[q]
    BY <1>2, <1>a DEF SupervisorStep, TurnComplete, FeedTurn, SetTurnStatus, SeeExit,
       Finish, Forget, Reap, Advance, TypeOK
  <2>2. Handles'
    BY <1>a, <2>0, <2>1, LifecycleAssumption DEF Handles
  <2>3. CASE TurnComplete(r) \/ FeedTurn(r) \/ SeeExit(r)
    <3>1. sup'[r] \in {"out", "fed", "finish"} /\ agent' = agent
      BY <2>3 DEF TurnComplete, FeedTurn, SeeExit, Advance, TypeOK
    <3>2. Told => Told'
      BY <2>0, <2>1, <3>1 DEF Told, Spawning, Attended, Marking, Supervised
    <3> QED
      BY <1>a, <1>b, <2>0, <2>1, <2>2, <3>1, <3>2
  <2>4. CASE SetTurnStatus(r)
    <3>1. sup'[r] = "loop" /\ cancel[r] = "no"
      BY <1>a, <2>4 DEF SetTurnStatus, Polled, Advance, TypeOK
    <3>2. Told'
      BY <2>1, <3>1 DEF Told, Attended, Supervised
    <3> QED
      BY <1>a, <1>b, <2>1, <2>2, <3>2
  <2>5. CASE Finish(r)
    <3>1. agent' = "exited"
      BY <1>0, <2>5 DEF Finish
    <3> QED
      BY <1>a, <1>b, <2>1, <2>2, <3>1 DEF Live
  <2>6. CASE Forget(r) \/ Reap(r)
    <3>1. agent' = agent /\ ~Attended(r)
      BY <2>6 DEF Forget, Reap, Polled, Attended
    <3>2. Told => Told'
      BY <2>0, <2>1, <3>1 DEF Told, Spawning, Attended, Marking, Supervised
    <3> QED
      BY <1>a, <1>b, <2>0, <2>1, <2>2, <3>1, <3>2
  <2> QED
    BY <1>2, <2>3, <2>4, <2>5, <2>6 DEF SupervisorStep
<1>3. ASSUME NEW k \in Stoppers, StopStep(k)
      PROVE  GhostInv'
  <2>0. phase' = phase /\ spawn' = spawn /\ sup' = sup
    BY <1>3 DEF StopStep, StopBegin, KillChild, StopMark, StopClose, StopTeardown
  <2>1. CASE KillChild(k)
    <3>1. stop'[k].pc = "mark"
      BY <2>1 DEF KillChild, StopGoto, TypeOK
    <3>2. /\ children' = None
          /\ \/ cancel' = cancel
             \/ children # None /\ cancel' = [cancel EXCEPT ![children] = "now"]
      BY <1>0, <2>1 DEF KillChild
    <3>3. \A q \in Spawners : cancel'[q] = cancel[q] \/ (q = children /\ cancel'[q] = "now")
      BY <3>2 DEF TypeOK
    <3>4. Handles'
      BY <1>a, <2>0, <3>2, <3>3, LifecycleAssumption DEF Handles
    <3>5. Told'
      BY <3>1 DEF Told, Marking
    <3> QED
      BY <1>a, <1>b, <3>3, <3>4, <3>5
  <2>2. CASE StopMark(k)
    <3>1. agent' = "exited" /\ cancel' = cancel /\ children' = children
      BY <1>0, <2>2 DEF StopMark
    <3>2. Handles'
      BY <1>a, <2>0, <3>1 DEF Handles
    <3> QED
      BY <1>a, <1>b, <3>1, <3>2 DEF Live
  <2>3. CASE StopBegin(k) \/ StopClose(k) \/ StopTeardown(k)
    <3>1. /\ agent' = agent /\ cancel' = cancel /\ children' = children
          /\ stop[k].pc # "mark" /\ \A j \in Stoppers : j # k => stop'[j] = stop[j]
      BY <2>3 DEF StopBegin, StopClose, StopTeardown, Stopping, StopGoto, TypeOK
    <3>2. Handles'
      BY <1>a, <2>0, <3>1 DEF Handles
    <3>3. Told => Told'
      BY <2>0, <3>1 DEF Told, Spawning, Attended, Marking, Supervised
    <3> QED
      BY <1>a, <1>b, <2>0, <3>1, <3>2, <3>3
  <2> QED
    BY <1>3, <2>1, <2>2, <2>3 DEF StopStep
<1>4. CASE Shutdown \/ Crash
  <2>1. phase' = "down" /\ children' = None /\ \A q \in Spawners : cancel'[q] = "no"
    BY <1>4 DEF Shutdown, Crash, Down
  <2>2. Handles'
    BY <2>1, LifecycleAssumption DEF Handles
  <2> QED
    BY <1>b, <2>1, <2>2
<1>5. CASE Restart
  <2>1. agent' \notin Live /\ UNCHANGED <<spawn, children, cancel>>
    BY <1>0, <1>5 DEF Restart, Live
  <2>2. Handles'
    BY <1>a, <2>1 DEF Handles
  <2> QED
    BY <1>a, <1>b, <2>1, <2>2
<1>6. ASSUME UNCHANGED <<agent, phase, spawn, stop, children, sup, cancel>>
      PROVE  GhostInv'
  BY <1>6 DEF GhostInv, Supervised
<1>7. ASSUME NEW r \in Spawners, HarnessExits(r)
      PROVE  GhostInv'
  BY <1>6, <1>7 DEF HarnessExits
<1>8. CASE UNCHANGED vars
  BY <1>6, <1>8 DEF vars
<1> QED
  BY <1>1, <1>2, <1>3, <1>4, <1>5, <1>7, <1>8 DEF Next

\* With a store that works and aborts that take effect at once, an agent that is
\* listed as live while nothing is under way has a supervisor: every error path
\* of spawn_session, finish, AgentKill, SessionClose and reconcile_stale_agents
\* leaves its row exited.  Git, harnesses and clean-ups may fail, and daemons die.
THEOREM NoAgentIsAGhost ==
    ASSUME {"store", "late", "reconcile"} \cap FaultKinds = {}
    PROVE  Spec => []NoGhost
<1>1. Init => GhostInv
  BY LifecycleAssumption DEF Init, GhostInv, Live
<1>2. TypeOK /\ GhostInv /\ [Next]_vars => GhostInv'
  BY GhostStep
<1>3. GhostInv => NoGhost
  BY DEF GhostInv, NoGhost, Quiet, Pending
<1> QED
  BY <1>1, <1>2, <1>3, LifecycleTyped, PTL DEF Spec
=============================================================================

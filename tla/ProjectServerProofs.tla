------------------------ MODULE ProjectServerProofs ------------------------
(***************************************************************************)
(* Proofs about ProjectServer for any sets of roots, files and tasks: the  *)
(* type invariant, the exclusion the refresh guard gives per root, the     *)
(* registry file's agreement with memory, and the refinement of            *)
(* RefreshMutex.                                                           *)
(***************************************************************************)
EXTENDS ProjectServer, TLAPS

\* Steps that only a refresh request passes through, and those at which it
\* has settled which database it writes.
RefreshSteps == {"acquire", "upsert", "run", "release"}

\* What the step of a task says about its method, root and database, and who
\* holds the projects lock.
TaskInv ==
    \A t \in Tasks :
        /\ pc[t] # "idle" => root[t] \in Roots
        /\ pc[t] \in RefreshSteps => kind[t] = "refresh"
        /\ pc[t] \in {"insert", "ensure"} => kind[t] = "setup"
        /\ pc[t] = "remove" => kind[t] = "delete"
        /\ pc[t] = "write" => saver = t

-----------------------------------------------------------------------------
\* Types and what the step of a task says about it are inductive together.
LEMMA TaskInvariant == Spec => [](TypeOK /\ TaskInv)
<1>1. Init => TypeOK /\ TaskInv
  BY ServerAssumption
     DEF Init, TypeOK, TaskInv, RefreshSteps, Contexts, Empty, Steps
<1>2. TypeOK /\ TaskInv /\ [Next]_vars => (TypeOK /\ TaskInv)'
  <2> SUFFICES ASSUME TypeOK, TaskInv, [Next]_vars PROVE (TypeOK /\ TaskInv)'
    OBVIOUS
  <2> USE ServerAssumption DEF TypeOK, TaskInv, RefreshSteps, Contexts, Steps, Goto
  <2>1. CASE Restart
    BY <2>1 DEF Restart, LoadRegistry, Empty
  <2>2. ASSUME NEW t \in Tasks, Request(t) PROVE (TypeOK /\ TaskInv)'
    <3>1. PICK r \in Roots, p \in DbPaths \union {NoDb} :
              \/ Receive(t, "setup", r, p, "ensure")
              \/ Receive(t, "refresh", r, p, "acquire")
              \/ Receive(t, "delete", r, p, "remove")
      BY <2>2 DEF Request, RequestSetup, RequestRefresh, RequestDelete
    <3> QED BY <3>1 DEF Receive
  <2>3. ASSUME NEW t \in Tasks, EnsureReady(t) PROVE (TypeOK /\ TaskInv)'
    BY <2>3 DEF EnsureReady
  <2>4. ASSUME NEW t \in Tasks, InsertProject(t) PROVE (TypeOK /\ TaskInv)'
    BY <2>4 DEF InsertProject
  <2>5. ASSUME NEW t \in Tasks, RemoveProject(t) PROVE (TypeOK /\ TaskInv)'
    BY <2>5 DEF RemoveProject, AfterRemove
  <2>6. ASSUME NEW t \in Tasks, BeginSave(t) PROVE (TypeOK /\ TaskInv)'
    BY <2>6 DEF BeginSave, AfterSave, ProjectsUnlocked
  <2>7. ASSUME NEW t \in Tasks, EndSave(t) PROVE (TypeOK /\ TaskInv)'
    BY <2>7 DEF EndSave, AfterSave
  <2>8. ASSUME NEW t \in Tasks, TryGuard(t) PROVE (TypeOK /\ TaskInv)'
    BY <2>8 DEF TryGuard, WhenBusy
  <2>9. ASSUME NEW t \in Tasks, UpsertContext(t) PROVE (TypeOK /\ TaskInv)'
    BY <2>9 DEF UpsertContext
  <2>10. ASSUME NEW t \in Tasks, RunRefresh(t) PROVE (TypeOK /\ TaskInv)'
    BY <2>10 DEF RunRefresh, AfterRun
  <2>11. ASSUME NEW t \in Tasks, ReleaseGuard(t) PROVE (TypeOK /\ TaskInv)'
    BY <2>11 DEF ReleaseGuard
  <2>12. ASSUME NEW t \in Tasks, Reply(t) PROVE (TypeOK /\ TaskInv)'
    BY <2>12 DEF Reply
  <2>13. CASE UNCHANGED vars
    BY <2>13 DEF vars
  <2> QED
    BY <2>1, <2>2, <2>3, <2>4, <2>5, <2>6, <2>7, <2>8, <2>9, <2>10, <2>11,
       <2>12, <2>13 DEF Next, Step
<1> QED BY <1>1, <1>2, PTL DEF Spec

(* Every variable keeps its type: in particular projects is a map again after
   a restart that finds a torn registry file. *)
THEOREM TypeCorrect == Spec => []TypeOK
BY TaskInvariant, PTL
-----------------------------------------------------------------------------
(* For any number of concurrent requests the guard of a root is held by
   exactly one running refresh, or is absent (RefreshGuard). *)
THEOREM GuardExclusion == Spec => []GuardIsHeld
<1>1. Init => GuardIsHeld
  BY DEF Init, GuardIsHeld, InRefresh
<1>2. TypeOK /\ TaskInv /\ GuardIsHeld /\ [Next]_vars => GuardIsHeld'
  <2> SUFFICES ASSUME TypeOK, TaskInv, GuardIsHeld, [Next]_vars
               PROVE  GuardIsHeld'
    OBVIOUS
  <2> USE DEF TypeOK, TaskInv, RefreshSteps, GuardIsHeld, InRefresh, Goto
  <2>1. CASE Restart
    BY <2>1 DEF Restart
  <2>2. ASSUME NEW t \in Tasks, Request(t) PROVE GuardIsHeld'
    <3>1. PICK r \in Roots, p \in DbPaths \union {NoDb} :
              \/ Receive(t, "setup", r, p, "ensure")
              \/ Receive(t, "refresh", r, p, "acquire")
              \/ Receive(t, "delete", r, p, "remove")
      BY <2>2 DEF Request, RequestSetup, RequestRefresh, RequestDelete
    <3>2. /\ pc[t] = "idle"
          /\ \A u \in Tasks : u # t => pc'[u] = pc[u] /\ kind'[u] = kind[u]
                                        /\ root'[u] = root[u]
          /\ pc'[t] \in {"ensure", "acquire", "remove"}
          /\ activeRefreshes' = activeRefreshes
      BY <3>1 DEF Receive
    <3> QED BY <3>2
  <2>3. ASSUME NEW t \in Tasks, EnsureReady(t) PROVE GuardIsHeld'
    BY <2>3 DEF EnsureReady
  <2>4. ASSUME NEW t \in Tasks, InsertProject(t) PROVE GuardIsHeld'
    BY <2>4 DEF InsertProject
  <2>5. ASSUME NEW t \in Tasks, RemoveProject(t) PROVE GuardIsHeld'
    BY <2>5 DEF RemoveProject, AfterRemove
  <2>6. ASSUME NEW t \in Tasks, BeginSave(t) PROVE GuardIsHeld'
    BY <2>6 DEF BeginSave, AfterSave
  <2>7. ASSUME NEW t \in Tasks, EndSave(t) PROVE GuardIsHeld'
    BY <2>7 DEF EndSave, AfterSave
  <2>8. ASSUME NEW t \in Tasks, TryGuard(t) PROVE GuardIsHeld'
    <3>1. CASE root[t] \in activeRefreshes
      BY <2>8, <3>1 DEF TryGuard, GuardFree, WhenBusy
    <3>2. CASE root[t] \notin activeRefreshes
      BY <2>8, <3>2 DEF TryGuard, GuardFree
    <3> QED BY <3>1, <3>2
  <2>9. ASSUME NEW t \in Tasks, UpsertContext(t) PROVE GuardIsHeld'
    BY <2>9 DEF UpsertContext
  <2>10. ASSUME NEW t \in Tasks, RunRefresh(t) PROVE GuardIsHeld'
    BY <2>10 DEF RunRefresh, AfterRun
  <2>11. ASSUME NEW t \in Tasks, ReleaseGuard(t) PROVE GuardIsHeld'
    BY <2>11 DEF ReleaseGuard
  <2>12. ASSUME NEW t \in Tasks, Reply(t) PROVE GuardIsHeld'
    BY <2>12 DEF Reply
  <2>13. CASE UNCHANGED vars
    BY <2>13 DEF vars
  <2> QED
    BY <2>1, <2>2, <2>3, <2>4, <2>5, <2>6, <2>7, <2>8, <2>9, <2>10, <2>11,
       <2>12, <2>13 DEF Next, Step
<1> QED BY <1>1, <1>2, TaskInvariant, PTL DEF Spec

-----------------------------------------------------------------------------
(* However saves, failures of saves and restarts interleave, a registry file
   at rest agrees with memory on every root with no save outstanding. *)
THEOREM RegistryAgreement == Spec => []RegistryCurrent
<1>1. Init => RegistryCurrent
  BY ServerAssumption DEF Init, RegistryCurrent, LoadRegistry, Empty
<1>2. TypeOK /\ TaskInv /\ RegistryCurrent /\ [Next]_vars => RegistryCurrent'
  <2> SUFFICES ASSUME TypeOK, TaskInv, RegistryCurrent, [Next]_vars
               PROVE  RegistryCurrent'
    OBVIOUS
  <2> USE ServerAssumption
      DEF TypeOK, TaskInv, Contexts, RegistryCurrent, Unsaved, LoadRegistry, Goto
  <2>1. CASE Restart
    BY <2>1 DEF Restart
  <2>2. ASSUME NEW t \in Tasks, Request(t) PROVE RegistryCurrent'
    <3>1. PICK r \in Roots, p \in DbPaths \union {NoDb} :
              \/ Receive(t, "setup", r, p, "ensure")
              \/ Receive(t, "refresh", r, p, "acquire")
              \/ Receive(t, "delete", r, p, "remove")
      BY <2>2 DEF Request, RequestSetup, RequestRefresh, RequestDelete
    <3>2. /\ pc[t] = "idle"
          /\ \A u \in Tasks : u # t => pc'[u] = pc[u] /\ root'[u] = root[u]
          /\ UNCHANGED <<projects, registry, saver, saveFailed>>
      BY <3>1 DEF Receive
    <3> QED BY <3>2
  <2>3. ASSUME NEW t \in Tasks, EnsureReady(t) PROVE RegistryCurrent'
    BY <2>3 DEF EnsureReady
  <2>4. ASSUME NEW t \in Tasks, InsertProject(t) PROVE RegistryCurrent'
    BY <2>4 DEF InsertProject
  <2>5. ASSUME NEW t \in Tasks, RemoveProject(t) PROVE RegistryCurrent'
    BY <2>5 DEF RemoveProject, AfterRemove
  <2>6. ASSUME NEW t \in Tasks, BeginSave(t) PROVE RegistryCurrent'
    BY <2>6 DEF BeginSave, ProjectsUnlocked
  <2>7. ASSUME NEW t \in Tasks, EndSave(t) PROVE RegistryCurrent'
    BY <2>7 DEF EndSave
  <2>8. ASSUME NEW t \in Tasks, TryGuard(t) PROVE RegistryCurrent'
    BY <2>8 DEF TryGuard
  <2>9. ASSUME NEW t \in Tasks, UpsertContext(t) PROVE RegistryCurrent'
    BY <2>9 DEF UpsertContext
  <2>10. ASSUME NEW t \in Tasks, RunRefresh(t) PROVE RegistryCurrent'
    BY <2>10 DEF RunRefresh
  <2>11. ASSUME NEW t \in Tasks, ReleaseGuard(t) PROVE RegistryCurrent'
    BY <2>11 DEF ReleaseGuard
  <2>12. ASSUME NEW t \in Tasks, Reply(t) PROVE RegistryCurrent'
    BY <2>12 DEF Reply
  <2>13. CASE UNCHANGED vars
    BY <2>13 DEF vars
  <2> QED
    BY <2>1, <2>2, <2>3, <2>4, <2>5, <2>6, <2>7, <2>8, <2>9, <2>10, <2>11,
       <2>12, <2>13 DEF Next, Step
<1> QED BY <1>1, <1>2, TaskInvariant, PTL DEF Spec
-----------------------------------------------------------------------------
\* The refresh in progress on r, as the refinement mapping sees it.
LEMMA HolderIs ==
    ASSUME GuardIsHeld, NEW r \in Roots
    PROVE  /\ \A t \in Tasks : InRefresh(t) /\ root[t] = r => Holder[r] = t
           /\ (\A t \in Tasks : ~(InRefresh(t) /\ root[t] = r)) => Holder[r] = Nobody
           /\ Holder[r] # Nobody => /\ Holder[r] \in Tasks
                                    /\ InRefresh(Holder[r])
                                    /\ root[Holder[r]] = r
BY DEF Holder, GuardIsHeld

\* Which tasks are refreshing which roots is all that the mapping looks at.
LEMMA HolderStable ==
    ASSUME \A t \in Tasks : InRefresh(t)' = InRefresh(t),
           \A t \in Tasks : InRefresh(t) => root'[t] = root[t]
    PROVE  Holder' = Holder
<1>1. ASSUME NEW r \in Roots
      PROVE /\ (\E t \in Tasks : InRefresh(t) /\ root[t] = r)'
               <=> (\E t \in Tasks : InRefresh(t) /\ root[t] = r)
            /\ (CHOOSE t \in Tasks : InRefresh(t) /\ root[t] = r)'
               = (CHOOSE t \in Tasks : InRefresh(t) /\ root[t] = r)
  OBVIOUS
<1> QED BY <1>1 DEF Holder

\* The steps that leave every refresh where it is.
LEMMA OtherStepsStutter ==
    ASSUME TypeOK, TaskInv, NEW t \in Tasks,
           \/ Request(t) \/ EnsureReady(t) \/ InsertProject(t) \/ RemoveProject(t)
           \/ BeginSave(t) \/ EndSave(t) \/ UpsertContext(t) \/ RunRefresh(t)
           \/ Reply(t)
    PROVE  Holder' = Holder
<1> USE DEF TypeOK, TaskInv, RefreshSteps, InRefresh, Goto
<1>1. /\ \A u \in Tasks : InRefresh(u)' = InRefresh(u)
      /\ \A u \in Tasks : InRefresh(u) => root'[u] = root[u]
  <2>1. CASE Request(t)
    <3>1. PICK r \in Roots, p \in DbPaths \union {NoDb} :
              \/ Receive(t, "setup", r, p, "ensure")
              \/ Receive(t, "refresh", r, p, "acquire")
              \/ Receive(t, "delete", r, p, "remove")
      BY <2>1 DEF Request, RequestSetup, RequestRefresh, RequestDelete
    <3>2. /\ \A u \in Tasks : u # t => /\ pc'[u] = pc[u] /\ kind'[u] = kind[u]
                                       /\ root'[u] = root[u]
          /\ pc[t] = "idle" /\ pc'[t] \in {"ensure", "acquire", "remove"}
      BY <3>1 DEF Receive
    <3> QED BY <3>2
  <2>2. CASE EnsureReady(t)
    BY <2>2 DEF EnsureReady
  <2>3. CASE InsertProject(t)
    BY <2>3 DEF InsertProject
  <2>4. CASE RemoveProject(t)
    BY <2>4 DEF RemoveProject, AfterRemove
  <2>5. CASE BeginSave(t)
    BY <2>5 DEF BeginSave, AfterSave
  <2>6. CASE EndSave(t)
    BY <2>6 DEF EndSave, AfterSave
  <2>7. CASE UpsertContext(t)
    BY <2>7 DEF UpsertContext
  <2>8. CASE RunRefresh(t)
    BY <2>8 DEF RunRefresh, AfterRun
  <2>9. CASE Reply(t)
    BY <2>9 DEF Reply
  <2> QED
    BY <2>1, <2>2, <2>3, <2>4, <2>5, <2>6, <2>7, <2>8, <2>9
<1> QED BY <1>1, HolderStable

(* The handlers implement the abstract mutex: entering the scope of the guard
   is Acquire, its Drop is Release, the end of the process is Exit, and every
   other step leaves the slots alone. *)
THEOREM Refinement == Spec => ImplementsRefreshMutex
<1>1. Init => Mutex!Init
  BY DEF Init, Mutex!Init, Holder, InRefresh
<1>2. /\ TypeOK /\ TaskInv /\ GuardIsHeld /\ GuardIsHeld'
      /\ [Next]_vars
      => [Mutex!Next]_Holder
  <2> SUFFICES ASSUME TypeOK, TaskInv, GuardIsHeld, GuardIsHeld', [Next]_vars
               PROVE  [Mutex!Next]_Holder
    OBVIOUS
  <2>1. CASE Restart
    <3>1. Holder' = [r \in Roots |-> Nobody]
      BY <2>1 DEF Restart, Holder, InRefresh
    <3> QED BY <3>1 DEF Mutex!Next, Mutex!Exit
  <2>2. ASSUME NEW t \in Tasks, TryGuard(t) PROVE [Mutex!Next]_Holder
    <3> DEFINE r == root[t]
    <3>0. r \in Roots /\ kind[t] = "refresh" /\ pc[t] = "acquire"
      BY <2>2 DEF TryGuard, TaskInv, RefreshSteps
    <3>1. CASE r \in activeRefreshes
      <4>1. \A u \in Tasks : InRefresh(u)' = InRefresh(u)
        BY <2>2, <3>0, <3>1
           DEF TryGuard, GuardFree, WhenBusy, InRefresh, Goto, TypeOK
      <4>2. root' = root
        BY <2>2 DEF TryGuard
      <4> QED BY <4>1, <4>2, HolderStable
    <3>2. CASE r \notin activeRefreshes
      <4>1. /\ ~InRefresh(t) /\ InRefresh(t)'
            /\ \A u \in Tasks : u # t => InRefresh(u)' = InRefresh(u)
            /\ root' = root
        BY <2>2, <3>0, <3>2 DEF TryGuard, GuardFree, InRefresh, Goto, TypeOK
      <4>2. \A u \in Tasks : ~(InRefresh(u) /\ root[u] = r)
        BY <3>2 DEF GuardIsHeld
      <4>3. Holder[r] = Nobody /\ (\A s \in Roots : Holder[s] # t)
        BY <3>0, <4>1, <4>2, HolderIs, ServerAssumption
      <4>4. Holder' = [Holder EXCEPT ![r] = t]
        <5>1. ASSUME NEW s \in Roots
              PROVE  Holder'[s] = IF s = r THEN t ELSE Holder[s]
          <6>1. CASE s = r
            <7>1. \A u \in Tasks : (InRefresh(u) /\ root[u] = s)' <=> u = t
              BY <4>1, <4>2, <6>1
            <7>2. (CHOOSE u \in Tasks : InRefresh(u) /\ root[u] = s)' = t
              BY <7>1
            <7> QED BY <5>1, <6>1, <7>1, <7>2 DEF Holder
          <6>2. CASE s # r
            <7>1. \A u \in Tasks : (InRefresh(u) /\ root[u] = s)'
                                   <=> InRefresh(u) /\ root[u] = s
              BY <4>1, <6>2
            <7>2. (CHOOSE u \in Tasks : InRefresh(u) /\ root[u] = s)'
                  = (CHOOSE u \in Tasks : InRefresh(u) /\ root[u] = s)
              BY <7>1
            <7> QED BY <5>1, <6>2, <7>1, <7>2 DEF Holder
          <6> QED BY <6>1, <6>2
        <5>2. Holder' = [s \in Roots |-> Holder'[s]]
          BY DEF Holder
        <5>3. [Holder EXCEPT ![r] = t]
              = [s \in Roots |-> IF s = r THEN t ELSE Holder[s]]
          BY DEF Holder
        <5> HIDE DEF r
        <5> QED BY <5>1, <5>2, <5>3
      <4>5. Mutex!Acquire(t, r)
        BY <4>3, <4>4 DEF Mutex!Acquire
      <4> QED BY <3>0, <4>5 DEF Mutex!Next
    <3> QED BY <3>1, <3>2
  <2>3. ASSUME NEW t \in Tasks, ReleaseGuard(t) PROVE [Mutex!Next]_Holder
    <3> DEFINE r == root[t]
    <3>0. r \in Roots /\ InRefresh(t)
      BY <2>3 DEF ReleaseGuard, TaskInv, RefreshSteps, InRefresh
    <3>1. /\ ~InRefresh(t)'
          /\ \A u \in Tasks : u # t => InRefresh(u)' = InRefresh(u)
          /\ root' = root
      BY <2>3 DEF ReleaseGuard, InRefresh, Goto, TypeOK
    <3>2. Holder[r] = t
      BY <3>0, HolderIs
    <3>3. Holder' = [Holder EXCEPT ![r] = Nobody]
      <4>1. ASSUME NEW s \in Roots
            PROVE  Holder'[s] = IF s = r THEN Nobody ELSE Holder[s]
        <5>1. CASE s = r
          <6>1. \A u \in Tasks : ~(InRefresh(u) /\ root[u] = s)'
            BY <3>0, <3>1, <5>1 DEF GuardIsHeld
          <6> QED BY <4>1, <5>1, <6>1 DEF Holder
        <5>2. CASE s # r
          <6>1. \A u \in Tasks : (InRefresh(u) /\ root[u] = s)'
                                 <=> InRefresh(u) /\ root[u] = s
            BY <3>1, <5>2
          <6>2. (CHOOSE u \in Tasks : InRefresh(u) /\ root[u] = s)'
                = (CHOOSE u \in Tasks : InRefresh(u) /\ root[u] = s)
            BY <6>1
          <6> QED BY <4>1, <5>2, <6>1, <6>2 DEF Holder
        <5> QED BY <5>1, <5>2
      <4>2. Holder' = [s \in Roots |-> Holder'[s]]
        BY DEF Holder
      <4>3. [Holder EXCEPT ![r] = Nobody]
            = [s \in Roots |-> IF s = r THEN Nobody ELSE Holder[s]]
        BY DEF Holder
      <4> HIDE DEF r
      <4> QED BY <4>1, <4>2, <4>3
    <3>4. Mutex!Release(t, r)
      BY <3>2, <3>3 DEF Mutex!Release
    <3> QED BY <3>0, <3>4 DEF Mutex!Next
  <2>4. ASSUME NEW t \in Tasks,
               \/ Request(t) \/ EnsureReady(t) \/ InsertProject(t)
               \/ RemoveProject(t) \/ BeginSave(t) \/ EndSave(t)
               \/ UpsertContext(t) \/ RunRefresh(t) \/ Reply(t)
        PROVE  [Mutex!Next]_Holder
    BY <2>4, OtherStepsStutter
  <2>5. CASE UNCHANGED vars
    <3>1. \A u \in Tasks : InRefresh(u)' = InRefresh(u)
      BY <2>5 DEF vars, InRefresh
    <3> QED BY <2>5, <3>1, HolderStable DEF vars
  <2> QED
    BY <2>1, <2>2, <2>3, <2>4, <2>5 DEF Next, Step
<1> QED
  BY <1>1, <1>2, TaskInvariant, GuardExclusion, PTL
     DEF Spec, ImplementsRefreshMutex, Mutex!Spec
=============================================================================

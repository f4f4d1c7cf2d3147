------------------------ MODULE AttachRegion_proofs -------------------------
(* Theorems about attaching and converging a node, for every inventory, ssh  *)
(* source, node and database, and any number of runs and outside events.     *)
EXTENDS AttachRegionProps, TailscaleMember_proofs, SeedPreview_proofs, TLAPS

-----------------------------------------------------------------------------
(* The order of the tasks                                                  *)

\* No playbook has a task twice, and none is called like an end.
LEMMA RolesInjective ==
    ASSUME NEW kind \in DOMAIN Roles
    PROVE  /\ \A i \in DOMAIN Roles[kind] : i \in Nat /\ Roles[kind][i] \notin Ends
           /\ \A i, j \in DOMAIN Roles[kind] : Roles[kind][i] = Roles[kind][j] => i = j
<1>1. CASE kind = "attach"
  BY <1>1 DEF Roles, Ends
<1>2. CASE kind = "maintain"
  BY <1>2 DEF Roles, Ends
<1>3. CASE kind = "tagged"
  BY <1>3 DEF Roles, Ends
<1> QED
  BY <1>1, <1>2, <1>3 DEF Roles

\* A task that is due whenever the one after it is cannot be skipped.
LEMMA NotSkipped ==
    ASSUME run.kind \in DOMAIN Roles, NEW task,
           NEW i \in DOMAIN Roles[run.kind],
           Due(Roles[run.kind][i]) => Due(Roles[run.kind][i - 1]),
           After(task) = Roles[run.kind][i]
    PROVE  task = Roles[run.kind][i - 1]
<1> DEFINE tasks == Roles[run.kind]
           next  == {m \in DOMAIN tasks :
                       /\ Due(tasks[m])
                       /\ \E k \in 1 .. m - 1 :
                             tasks[k] = task /\ \A j \in k + 1 .. m - 1 : ~Due(tasks[j])}
<1>1. tasks[i] # "done" /\ i \in Nat
  BY RolesInjective DEF Ends
<1>2. PICK m \in next : After(task) = tasks[m]
  BY <1>1 DEF After
<1>3. m = i
  BY <1>2, RolesInjective
<1>4. PICK k \in 1 .. i - 1 :
          tasks[k] = task /\ \A j \in k + 1 .. i - 1 : ~Due(tasks[j])
  BY <1>2, <1>3
<1>5. Due(tasks[i - 1])
  BY <1>2, <1>3
<1>6. k = i - 1
  BY <1>1, <1>4, <1>5
<1> QED
  BY <1>4, <1>6

\* What comes before the tasks the invariants are about.
LEMMA Before ==
    ASSUME run.kind \in DOMAIN Roles, NEW task
    PROVE  /\ run.kind # "tagged" /\ After(task) = "deploy" => task = "enroll"
           /\ After(task) = "ts_join" => task = "ts_status"
<1>1. Roles["attach"][10] = "deploy" /\ Roles["attach"][9] = "enroll"
      /\ Roles["attach"][4] = "ts_join" /\ Roles["attach"][3] = "ts_status"
      /\ {10, 4} \subseteq DOMAIN Roles["attach"]
  BY DEF Roles
<1>2. Roles["maintain"][8] = "deploy" /\ Roles["maintain"][7] = "enroll"
      /\ Roles["maintain"][5] = "ts_join" /\ Roles["maintain"][4] = "ts_status"
      /\ {8, 5} \subseteq DOMAIN Roles["maintain"]
  BY DEF Roles
<1>3. Due("enroll") /\ (Due("ts_join") => Due("ts_status"))
  BY DEF Due, Tailnet
<1>4. CASE run.kind = "attach"
  <2>1. After(task) = "deploy" => task = "enroll"
    BY <1>1, <1>3, <1>4, NotSkipped
  <2>2. After(task) = "ts_join" => task = "ts_status"
    BY <1>1, <1>3, <1>4, NotSkipped
  <2> QED  BY <2>1, <2>2
<1>5. CASE run.kind = "maintain"
  <2>1. After(task) = "deploy" => task = "enroll"
    BY <1>2, <1>3, <1>5, NotSkipped
  <2>2. After(task) = "ts_join" => task = "ts_status"
    BY <1>2, <1>3, <1>5, NotSkipped
  <2> QED  BY <2>1, <2>2
<1>6. CASE run.kind = "tagged"
  <2>1. After(task) \in {"done", "deploy", "restart"}
    BY <1>6 DEF After, Roles
  <2> QED  BY <1>6, <2>1
<1> QED
  BY <1>4, <1>5, <1>6 DEF Roles
-----------------------------------------------------------------------------
(* Fields: what is a record stays one                                      *)

RunFields == {"kind", "mode", "source", "pc", "why", "loggedIn", "hash", "doc",
              "stopped", "notified"}
Fields ==
    /\ DOMAIN node = NodeFields /\ DOMAIN run = RunFields
    /\ run.kind \in DOMAIN Roles
    /\ ~TaggedRuns => run.kind # "tagged"

\* What is assumed of the node at first.
LEMMA NodeAtFirst ==
    ASSUME Init
    PROVE  /\ DOMAIN node = NodeFields /\ HasItsHash(node)
           /\ node.daemon = "absent" => node.login = "none"
<1>1. node \in NodeStates
  BY DEF Init
<1> QED
  BY <1>1, NodeStatesAssumption

\* A run and the node have their fields, whatever happened.
LEMMA FieldsInit == Init => Fields
<1> SUFFICES ASSUME Init PROVE Fields
  OBVIOUS
<1>1. DOMAIN node = NodeFields
  BY NodeAtFirst
<1>2. DOMAIN run = RunFields /\ run.kind = "attach"
  BY DEF Init, RunFields
<1> QED
  BY <1>1, <1>2 DEF Fields, Roles

\* No step takes a field away.
LEMMA FieldsStep == Fields /\ [Next]_vars => Fields'
<1> SUFFICES ASSUME Fields, [Next]_vars PROVE Fields'
  OBVIOUS
<1> USE DEF Fields
<1>1. CASE StartRun
  BY <1>1 DEF StartRun, RunFields, Roles
<1>2. CASE RunStep
  <2>1. DOMAIN node' = DOMAIN node
    BY <1>2 DEF RunStep, Preflight, StartTailscaled, TailscaleStatus, MemberCheck, Join, JoinFails,
       Keep, ReadTailnetIp, ApplyFirewall, Preview, Apply, EndPlay, Enroll,
       ImmutableCheck, Deploy, StartAgent, RestartAgent, Backfill
  <2>2. DOMAIN run' = DOMAIN run /\ run'.kind = run.kind
    <3> USE DEF Go, Refuse, RunFields
    <3>1. CASE Preflight  BY <3>1 DEF Preflight
    <3>2. CASE StartTailscaled  BY <3>2 DEF StartTailscaled
    <3>3. CASE TailscaleStatus  BY <3>3 DEF TailscaleStatus, ReadStatus
    <3>4. CASE MemberCheck  BY <3>4 DEF MemberCheck, ReadStatus
    <3>5. CASE Join \/ JoinFails \/ Keep  BY <3>5 DEF Join, JoinFails, Keep
    <3>6. CASE ReadTailnetIp  BY <3>6 DEF ReadTailnetIp
    <3>7. CASE ApplyFirewall \/ Apply  BY <3>7 DEF ApplyFirewall, Apply
    <3>8. CASE Preview  BY <3>8 DEF Preview
    <3>9. CASE EndPlay  BY <3>9 DEF EndPlay
    <3>10. CASE Enroll  BY <3>10 DEF Enroll
    <3>11. CASE ImmutableCheck  BY <3>11 DEF ImmutableCheck
    <3>12. CASE Deploy  BY <3>12 DEF Deploy
    <3>13. CASE StartAgent \/ RestartAgent  BY <3>13 DEF StartAgent, RestartAgent
    <3>14. CASE Backfill  BY <3>14 DEF Backfill
    <3> QED  BY <1>2, <3>1, <3>2, <3>3, <3>4, <3>5, <3>6, <3>7, <3>8, <3>9, <3>10,
                <3>11, <3>12, <3>13, <3>14 DEF RunStep
  <2> QED  BY <2>1, <2>2
<1>3. CASE Outside
  BY <1>3 DEF Outside, RunDies, Reboot, DaemonLoads, KeyExpires, Approve, TailscaleByHand,
     DeleteRow, NewToken, ChangeDomain, RecreateClient, Admin, EditInventory,
     FollowAdvice, Event, RunFields
<1>4. CASE UNCHANGED vars
  BY <1>4 DEF vars
<1> QED
  BY <1>1, <1>2, <1>3, <1>4 DEF Next
-----------------------------------------------------------------------------
(* The stop after the preview                                              *)

\* Only an attach previews, and a run that stopped is at the start of a play
\* that ends there, or over.
StopInv ==
    /\ At("preview") => run.kind = "attach"
    /\ run.stopped =>
          run.kind = "attach" /\ run.pc \in {"enroll", "backfill"} \cup Ends

\* The other playbooks have no preview.
LEMMA OnlyAttachPreviews ==
    ASSUME run.kind \in DOMAIN Roles, NEW task, After(task) = "preview"
    PROVE  run.kind = "attach"
<1>1. CASE run.kind = "maintain"
  BY <1>1 DEF After, Roles
<1>2. CASE run.kind = "tagged"
  BY <1>2 DEF After, Roles
<1> QED
  BY <1>1, <1>2 DEF Roles

\* No run has stopped at first.
LEMMA StopInvInit == Init => StopInv
  BY DEF Init, StopInv, At

\* Such a run only takes EndPlay.
LEMMA StoppedOnlyEnds ==
    ASSUME Fields, StopInv, run.stopped, RunStep
    PROVE  EndPlay
<1>1. Stopped /\ (At("enroll") \/ At("backfill"))
  BY DEF RunStep, Preflight, StartTailscaled, TailscaleStatus, MemberCheck, Join, JoinFails, Keep,
     ReadTailnetIp, ApplyFirewall, Preview, Apply, EndPlay, Enroll, ImmutableCheck,
     Deploy, StartAgent, RestartAgent, Backfill, StopInv, Stopped, At, Ends
<1> QED
  BY <1>1
  DEF RunStep, Preflight, StartTailscaled, TailscaleStatus, MemberCheck, Join, JoinFails, Keep,
     ReadTailnetIp, ApplyFirewall, Preview, Apply, Enroll, ImmutableCheck,
     Deploy, StartAgent, RestartAgent, Backfill, At

\* No step takes a stopped run back into its plays.
LEMMA StopInvStep == Fields /\ StopInv /\ [Next]_vars => StopInv'
<1> SUFFICES ASSUME Fields, StopInv, [Next]_vars PROVE StopInv'
  OBVIOUS
<1> USE DEF Fields, StopInv, RunFields, At
<1>1. CASE StartRun
  BY <1>1 DEF StartRun, Roles
<1>2. CASE RunStep /\ run.stopped
  <2>1. EndPlay
    BY <1>2, StoppedOnlyEnds
  <2> QED  BY <1>2, <2>1 DEF EndPlay, Ends
<1>3. CASE RunStep /\ ~run.stopped
  <2>1. At("preview") => run.kind = "attach"
    OBVIOUS
  <2>2. run'.kind = run.kind /\ (run'.pc \in {After(run.pc), "refused", "done"}
                                 \/ (run'.pc \in {"enroll", "backfill"}))
        /\ (run'.stopped => Preview)
    <3> USE DEF Go, Refuse, Done
    <3>1. CASE Preview  BY <3>1 DEF Preview
    <3>2. CASE EndPlay  BY <3>2, <1>3 DEF EndPlay
    <3>3. CASE TailscaleStatus \/ MemberCheck
      BY <3>3, <1>3 DEF TailscaleStatus, MemberCheck, ReadStatus
    <3>4. CASE ~(Preview \/ EndPlay \/ TailscaleStatus \/ MemberCheck)
      BY <1>3, <3>4 DEF RunStep, Preflight, StartTailscaled, Join, JoinFails, Keep, ReadTailnetIp,
         ApplyFirewall, Apply, Enroll, ImmutableCheck, Deploy, StartAgent,
         RestartAgent, Backfill
    <3> QED  BY <3>1, <3>2, <3>3, <3>4
  <2>3. run'.stopped => run'.pc = "enroll" /\ run.kind = "attach"
    BY <1>3, <2>1, <2>2 DEF Preview, Go, Refuse
  <2>4. run'.pc = "preview" => run.kind = "attach"
    BY <2>2, OnlyAttachPreviews
  <2> QED  BY <2>2, <2>3, <2>4
<1>4. CASE Outside
  BY <1>4 DEF Outside, RunDies, Reboot, DaemonLoads, KeyExpires, Approve, TailscaleByHand,
     DeleteRow, NewToken, ChangeDomain, RecreateClient, Admin, EditInventory,
     FollowAdvice, Event, Ends
<1>5. CASE UNCHANGED vars
  BY <1>5 DEF vars
<1> QED
  BY <1>1, <1>2, <1>3, <1>4, <1>5 DEF Next
\* Once a run has stopped after its preview, none of its steps changes the
\* database or the node: every later play ends at its guard (add-region.yml
\* 340-351), whatever else happened in between.
THEOREM StopIsFinal == Spec => NothingAfterTheStop
<1>1. Init => Fields /\ StopInv
  BY FieldsInit, StopInvInit
<1>2. Fields /\ StopInv /\ [Next]_vars => (Fields /\ StopInv)'
  BY FieldsStep, StopInvStep
<1>3. Fields /\ StopInv => (run.stopped /\ RunStep => UNCHANGED <<db, node>>)
  <2> SUFFICES ASSUME Fields, StopInv, run.stopped, RunStep
               PROVE  UNCHANGED <<db, node>>
    OBVIOUS
  <2>1. EndPlay
    BY StoppedOnlyEnds
  <2> QED  BY <2>1 DEF EndPlay
<1> QED
  BY <1>1, <1>2, <1>3, PTL DEF Spec, NothingAfterTheStop

-----------------------------------------------------------------------------
(* The token hash                                                          *)

\* A task is followed by the next one, or its run is over or ends its plays.
LEMMA NextTask ==
    ASSUME Fields, RunStep
    PROVE  /\ run'.kind = run.kind
           /\ run'.pc \in {After(run.pc), "refused", "done", "enroll", "backfill"}
<1> USE DEF Go, Refuse, Done, Fields, RunFields
<1>1. CASE TailscaleStatus \/ MemberCheck
  BY <1>1 DEF TailscaleStatus, MemberCheck, ReadStatus
<1>2. CASE Preview \/ EndPlay
  BY <1>2 DEF Preview, EndPlay
<1>3. CASE ~(Preview \/ EndPlay \/ TailscaleStatus \/ MemberCheck)
  BY <1>3 DEF RunStep, Preflight, StartTailscaled, Join, JoinFails, Keep, ReadTailnetIp,
     ApplyFirewall, Apply, Enroll, ImmutableCheck, Deploy, StartAgent,
     RestartAgent, Backfill
<1> QED
  BY <1>1, <1>2, <1>3

\* Before agent.yml is written, the run has read a hash.
HashInv ==
    /\ NeverWithoutHash
    /\ At("deploy") => run.hash # EmptyHash

\* The node is met with a hash, or no file.
LEMMA HashInvInit == Init => HashInv
<1> SUFFICES ASSUME Init PROVE HashInv
  OBVIOUS
<1>1. NeverWithoutHash
  BY NodeAtFirst DEF HasItsHash, NeverWithoutHash, NoFile
<1>2. ~At("deploy")
  BY DEF Init, At
<1> QED
  BY <1>1, <1>2 DEF HashInv

\* No step writes agent.yml without a hash.
LEMMA HashInvStep == ~TaggedRuns /\ Fields /\ HashInv /\ [Next]_vars => HashInv'
<1> SUFFICES ASSUME ~TaggedRuns, Fields, HashInv, [Next]_vars PROVE HashInv'
  OBVIOUS
<1> USE DEF Fields, RunFields, NodeFields, HashInv, At
<1>1. CASE StartRun
  <2>1. node'.file = node.file
    BY <1>1 DEF StartRun
  <2>2. run'.pc # "deploy"
    BY <1>1 DEF StartRun, Roles
  <2> QED  BY <2>1, <2>2 DEF NeverWithoutHash
<1>2. CASE RunStep
  <2>1. run'.pc = "deploy" => run.pc = "enroll"
    BY <1>2, NextTask, Before
  <2>2. CASE Deploy
    <3>1. node'.file = Render(inv, run.hash) /\ run.hash # EmptyHash
      BY <2>2 DEF Deploy
    <3>2. node'.file["admin_token_hash"].text = run.hash
      BY <3>1 DEF Render, Text
    <3>3. run'.pc # "deploy"
      BY <2>1, <2>2 DEF Deploy
    <3> QED  BY <3>1, <3>2, <3>3 DEF NeverWithoutHash
  <2>3. CASE Enroll
    <3>1. run'.pc = "deploy" => run'.hash # EmptyHash
      BY <2>3 DEF Enroll, Refuse, UsableAnswer, RowHasHash
    <3> QED  BY <2>3, <3>1 DEF Enroll, NeverWithoutHash
  <2>4. CASE ~Deploy /\ ~Enroll
    <3>1. node'.file = node.file
      BY <1>2, <2>4 DEF RunStep, Preflight, StartTailscaled, TailscaleStatus, MemberCheck,
         Join, JoinFails, Keep, ReadTailnetIp, ApplyFirewall, Preview, Apply, EndPlay,
         ImmutableCheck, StartAgent, RestartAgent, Backfill
    <3>2. run'.pc # "deploy"
      BY <1>2, <2>1, <2>4 DEF RunStep, Preflight, StartTailscaled, TailscaleStatus,
         MemberCheck, Join, JoinFails, Keep, ReadTailnetIp, ApplyFirewall, Preview, Apply, EndPlay,
         ImmutableCheck, StartAgent, RestartAgent, Backfill
    <3> QED  BY <3>1, <3>2 DEF NeverWithoutHash
  <2> QED  BY <2>2, <2>3, <2>4
<1>3. CASE Outside
  <2>1. node'.file = node.file
    BY <1>3 DEF Outside, RunDies, Reboot, DaemonLoads, KeyExpires, Approve, TailscaleByHand,
       DeleteRow, NewToken, ChangeDomain, RecreateClient, Admin, EditInventory,
       FollowAdvice
  <2>2. run'.pc = "deploy" => run' = run
    BY <1>3 DEF Outside, RunDies, Reboot, DaemonLoads, KeyExpires, Approve, TailscaleByHand,
       DeleteRow, NewToken, ChangeDomain, RecreateClient, Admin, EditInventory,
       FollowAdvice, Idle, Ends
  <2> QED  BY <2>1, <2>2 DEF NeverWithoutHash
<1>4. CASE UNCHANGED vars
  BY <1>4 DEF vars, NeverWithoutHash
<1> QED
  BY <1>1, <1>2, <1>3, <1>4 DEF Next

\* Where nobody uses `--tags enroll`, agent.yml never loses the token hash
\* (roles/cs_agent/README.md 222-227).
THEOREM HashIsKept == ~TaggedRuns /\ Spec => []NeverWithoutHash
<1>1. Init => Fields /\ HashInv
  BY FieldsInit, HashInvInit
<1>2. ~TaggedRuns /\ Fields /\ HashInv /\ [Next]_vars => (Fields /\ HashInv)'
  BY FieldsStep, HashInvStep
<1>3. HashInv => NeverWithoutHash
  BY DEF HashInv
<1> SUFFICES ASSUME ~TaggedRuns PROVE Spec => []NeverWithoutHash
  OBVIOUS
<1>4. Fields /\ HashInv /\ [Next]_vars => (Fields /\ HashInv)'
  BY <1>2
<1> QED
  BY <1>1, <1>3, <1>4, PTL DEF Spec
-----------------------------------------------------------------------------
(* Joining the tailnet                                                     *)

\* A node that is about to be joined has no identity, nor has one without
\* tailscale.
JoinInv ==
    /\ node.daemon = "absent" => node.login = "none"
    /\ At("ts_join") /\ ~run.loggedIn => node.login = "none"

\* What the role takes for "not logged in" is.
LEMMA JoinStateMeansNoLogin ==
    ASSUME JoinInv, BackendState \in JOIN_STATES
    PROVE  node.login = "none"
  BY DEF JoinInv, BackendState, JOIN_STATES, LOGGED_IN_STATE

\* No run, no join.
LEMMA JoinInvInit == Init => JoinInv
<1> SUFFICES ASSUME Init PROVE JoinInv
  OBVIOUS
<1>1. ~At("ts_join")
  BY DEF Init, At
<1> QED
  BY <1>1, NodeAtFirst DEF JoinInv

\* Nobody but Join and Approve gives a node an identity.
LEMMA JoinInvStep == Fields /\ JoinInv /\ [Next]_vars => JoinInv'
<1> SUFFICES ASSUME Fields, JoinInv, [Next]_vars PROVE JoinInv'
  OBVIOUS
<1> USE DEF Fields, RunFields, NodeFields, At
<1>1. CASE StartRun
  BY <1>1 DEF StartRun, Roles, JoinInv
<1>2. CASE RunStep
  <2>1. run'.pc = "ts_join" => run.pc = "ts_status"
    BY <1>2, NextTask, Before
  <2>2. CASE TailscaleStatus
    <3>1. run'.pc = "ts_join" /\ ~run'.loggedIn => node.login = "none"
      BY <2>2, JoinStateMeansNoLogin DEF TailscaleStatus, ReadStatus, Refuse
    <3> QED  BY <2>2, <3>1 DEF TailscaleStatus, JoinInv
  <2>3. CASE ~TailscaleStatus
    <3>1. run'.pc # "ts_join"
      BY <1>2, <2>1, <2>3 DEF RunStep, Preflight, StartTailscaled, MemberCheck, Join, JoinFails,
         Keep, ReadTailnetIp, ApplyFirewall, Preview, Apply, EndPlay, Enroll,
         ImmutableCheck, Deploy, StartAgent, RestartAgent, Backfill
    <3>2. node'.daemon = "absent" => node'.login = "none"
      <4>1. CASE StartTailscaled \/ Join
        BY <4>1 DEF StartTailscaled, Join, JoinFails, JoinInv
      <4>2. CASE ~StartTailscaled /\ ~Join
        BY <1>2, <2>3, <4>2 DEF RunStep, Preflight, MemberCheck, JoinFails, Keep, ReadTailnetIp,
           ApplyFirewall, Preview, Apply, EndPlay, Enroll, ImmutableCheck, Deploy,
           StartAgent, RestartAgent, Backfill, JoinInv
      <4> QED  BY <4>1, <4>2
    <3> QED  BY <3>1, <3>2 DEF JoinInv
  <2> QED  BY <2>2, <2>3
<1>3. CASE Outside
  <2>1. run'.pc = "ts_join" => run' = run
    BY <1>3 DEF Outside, RunDies, Reboot, DaemonLoads, KeyExpires, Approve, TailscaleByHand,
       DeleteRow, NewToken, ChangeDomain, RecreateClient, Admin, EditInventory,
       FollowAdvice, Idle, Ends
  <2>2. node.login = "none" => node'.login = "none"
    BY <1>3 DEF Outside, RunDies, Reboot, DaemonLoads, KeyExpires, Approve, TailscaleByHand,
       DeleteRow, NewToken, ChangeDomain, RecreateClient, Admin, EditInventory,
       FollowAdvice
  <2>3. node'.daemon = "absent" => node.daemon = "absent"
    BY <1>3 DEF Outside, RunDies, Reboot, DaemonLoads, KeyExpires, Approve, TailscaleByHand,
       DeleteRow, NewToken, ChangeDomain, RecreateClient, Admin, EditInventory,
       FollowAdvice
  <2> QED  BY <2>1, <2>2, <2>3 DEF JoinInv
<1>4. CASE UNCHANGED vars
  BY <1>4 DEF vars, JoinInv
<1> QED
  BY <1>1, <1>2, <1>3, <1>4 DEF Next

\* A node that is in the tailnet is never joined again (roles/tailscale,
\* main.yml 75-84), whatever state its daemon was in when it was read.
THEOREM NeverRejoined == Spec => JoinedOnce
<1>1. Init => Fields /\ JoinInv
  BY FieldsInit, JoinInvInit
<1>2. Fields /\ JoinInv /\ [Next]_vars => (Fields /\ JoinInv)'
  BY FieldsStep, JoinInvStep
<1>3. JoinInv => (Join => node.login # "in")
  BY DEF JoinInv, Join
<1> QED
  BY <1>1, <1>2, <1>3, PTL DEF Spec, JoinedOnce
-----------------------------------------------------------------------------
(* Types                                                                   *)

HistFields == {"reviewed", "approved", "touched", "changed", "followed"}

\* An inventory's parts that nobody edits, the shapes of the records, and ids
\* behind the sequences they come from.
Shape ==
    /\ DOMAIN inv = InvFields /\ inv.member \in BOOLEAN
    /\ inv.domain \in Domains /\ inv.cert[1] = inv.domain
    /\ MeantExit(inv.flags) \in BOOLEAN
    /\ DOMAIN node.prefs = PrefFields /\ node.prefs.byHand \subseteq MustBeDefault
    /\ DOMAIN db = DbFields /\ db.domain \in {0} \cup Domains
    /\ tick \in Nat /\ {db.hash, db.client, db.link} \subseteq 0 .. tick
    /\ DOMAIN hist = HistFields

\* The shapes are there at first.
LEMMA ShapeInit == Init => Shape
<1> SUFFICES ASSUME Init PROVE Shape
  OBVIOUS
<1>1. inv \in Inventories /\ node \in NodeStates /\ db \in Databases /\ tick = FirstTick
      /\ DOMAIN hist = HistFields
  BY DEF Init, HistFields
<1> QED
  BY <1>1, InventoriesAssumption, NodeStatesAssumption, DatabasesAssumption
  DEF Shape, FirstTick

\* No step of a run changes the inventory.
LEMMA RunKeepsInv == ASSUME RunStep PROVE inv' = inv
  BY DEF RunStep, Preflight, StartTailscaled, TailscaleStatus, MemberCheck, Join, JoinFails, Keep,
     ReadTailnetIp, ApplyFirewall, Preview, Apply, EndPlay, Enroll, ImmutableCheck,
     Deploy, StartAgent, RestartAgent, Backfill

\* An inventory keeps what the shape says of it.
LEMMA InvShapeStep ==
    ASSUME Shape, [Next]_vars
    PROVE  /\ DOMAIN inv' = InvFields /\ inv'.member \in BOOLEAN
           /\ inv'.domain \in Domains /\ inv'.cert[1] = inv'.domain
           /\ MeantExit(inv'.flags) \in BOOLEAN
<1>1. CASE inv' = inv
  BY <1>1 DEF Shape
<1>2. CASE EditInventory
  BY <1>2, InventoriesAssumption DEF EditInventory
<1>3. inv' = inv \/ EditInventory
  BY RunKeepsInv
  DEF Next, StartRun, Outside, RunDies, Reboot, DaemonLoads, KeyExpires, Approve,
     TailscaleByHand, DeleteRow, NewToken, ChangeDomain, RecreateClient, Admin,
     FollowAdvice, vars
<1> QED
  BY <1>1, <1>2, <1>3

\* What a step does to a node's settings.
LEMMA PrefsStep ==
    ASSUME Fields, Shape, [Next]_vars
    PROVE  \/ node'.prefs = node.prefs
           \/ Join /\ node'.prefs = Joined(inv.flags, inv.tags)
           \/ \E on \in {~node.prefs.running} :
                 TailscaleByHand /\ node'.prefs = [node.prefs EXCEPT !.running = on]
           \/ /\ FollowAdvice
              /\ node'.prefs = SetByHand(
                    Set(node.prefs, inv.flags, SetArgs(node.prefs, inv.flags, inv.tags)),
                    inv.flags, inv.tags, Manual(node.prefs, inv.flags, inv.tags))
<1> USE DEF Fields, NodeFields
<1>1. CASE Join
  BY <1>1 DEF Join
<1>2. CASE TailscaleByHand
  BY <1>2 DEF TailscaleByHand
<1>3. CASE FollowAdvice
  BY <1>3 DEF FollowAdvice
<1>4. CASE RunStep /\ ~Join
  BY <1>4
  DEF RunStep, Preflight, StartTailscaled, TailscaleStatus, MemberCheck, JoinFails, Keep,
     ReadTailnetIp, ApplyFirewall, Preview, Apply, EndPlay, Enroll, ImmutableCheck,
     Deploy, StartAgent, RestartAgent, Backfill
<1>5. CASE Outside /\ ~TailscaleByHand /\ ~FollowAdvice
  BY <1>5
  DEF Outside, RunDies, Reboot, DaemonLoads, KeyExpires, Approve, DeleteRow, NewToken,
     ChangeDomain, RecreateClient, Admin, EditInventory
<1>6. CASE StartRun \/ UNCHANGED vars
  BY <1>6 DEF StartRun, vars
<1> QED
  BY <1>1, <1>2, <1>3, <1>4, <1>5, <1>6 DEF Next

\* Settings stay what `tailscale debug prefs` prints.
LEMMA PrefsShapeStep ==
    ASSUME Fields, Shape, [Next]_vars
    PROVE  DOMAIN node'.prefs = PrefFields /\ node'.prefs.byHand \subseteq MustBeDefault
<1>1. CASE node'.prefs = Joined(inv.flags, inv.tags)
  BY <1>1 DEF Joined, PrefFields
<1>2. ASSUME NEW on, node'.prefs = [node.prefs EXCEPT !.running = on]
      PROVE  DOMAIN node'.prefs = PrefFields /\ node'.prefs.byHand \subseteq MustBeDefault
  BY <1>2 DEF Shape, PrefFields
<1>3. ASSUME NEW args, NEW whats,
             node'.prefs = SetByHand(Set(node.prefs, inv.flags, args), inv.flags, inv.tags, whats)
      PROVE  DOMAIN node'.prefs = PrefFields /\ node'.prefs.byHand \subseteq MustBeDefault
  <2> DEFINE set == Set(node.prefs, inv.flags, args)
  <2>1. DOMAIN set = PrefFields /\ set.byHand \subseteq MustBeDefault
    BY DEF Set, Shape, PrefFields
  <2> HIDE DEF set
  <2>2. node'.prefs = SetByHand(set, inv.flags, inv.tags, whats)
    BY <1>3 DEF set
  <2> QED  BY <2>1, <2>2 DEF SetByHand, PrefFields
<1> QED
  BY <1>1, <1>2, <1>3, PrefsStep DEF Shape

\* Only an apply, a backfill and the admin UI change the rows.
LEMMA RowsStep ==
    ASSUME [Next]_vars
    PROVE  \/ Apply \/ Backfill
           \/ DeleteRow \/ NewToken \/ ChangeDomain \/ RecreateClient
           \/ db' = db /\ (tick' = tick \/ tick' = tick + 1)
<1>1. CASE RunStep /\ ~Apply /\ ~Backfill
  BY <1>1
  DEF RunStep, Preflight, StartTailscaled, TailscaleStatus, MemberCheck, Join, JoinFails, Keep,
     ReadTailnetIp, ApplyFirewall, Preview, EndPlay, Enroll, ImmutableCheck,
     Deploy, StartAgent, RestartAgent
<1>2. CASE Outside /\ ~(DeleteRow \/ NewToken \/ ChangeDomain \/ RecreateClient)
  BY <1>2
  DEF Outside, RunDies, Reboot, DaemonLoads, KeyExpires, Approve, TailscaleByHand,
     EditInventory, FollowAdvice
<1>3. CASE StartRun \/ UNCHANGED vars
  BY <1>3 DEF StartRun, vars
<1> QED
  BY <1>1, <1>2, <1>3 DEF Next

\* Ids stay behind their sequences, and a domain one of the domains.
LEMMA RowsShapeStep ==
    ASSUME Shape, [Next]_vars
    PROVE  /\ DOMAIN db' = DbFields /\ db'.domain \in {0} \cup Domains
           /\ tick' \in Nat /\ {db'.hash, db'.client, db'.link} \subseteq 0 .. tick'
<1> USE DEF Shape, DbFields, Domains
<1>1. CASE Apply
  <2>1. db' = Applied(db, Manifest, tick) /\ tick' = tick + 1
    BY <1>1 DEF Apply
  <2>2. ClientOf(db, Manifest, tick) \in {db.client, tick + 1} /\ Manifest.domain = inv.domain
    BY DEF ClientOf, Manifest
  <2> QED  BY <2>1, <2>2 DEF Applied
<1>2. CASE Backfill
  BY <1>2 DEF Backfill
<1>3. CASE DeleteRow
  BY <1>3 DEF DeleteRow, Admin
<1>4. CASE NewToken
  BY <1>4 DEF NewToken, Admin
<1>5. CASE ChangeDomain
  BY <1>5 DEF ChangeDomain, Admin
<1>6. CASE RecreateClient
  <2>1. /\ db' = [db EXCEPT !.client = tick + 1, !.link = IF @ = 0 THEN 0 ELSE tick + 1]
        /\ tick' = tick + 1
    BY <1>6 DEF RecreateClient, Admin
  <2> QED  BY <2>1
<1>7. CASE db' = db /\ (tick' = tick \/ tick' = tick + 1)
  BY <1>7
<1> QED
  BY <1>1, <1>2, <1>3, <1>4, <1>5, <1>6, <1>7, RowsStep

\* So the shapes stay.
LEMMA ShapeStep == Fields /\ Shape /\ [Next]_vars => Shape'
<1> SUFFICES ASSUME Fields, Shape, [Next]_vars PROVE Shape'
  OBVIOUS
<1>1. DOMAIN hist' = HistFields
  <2>1. CASE RunStep
    BY <2>1
    DEF RunStep, Preflight, StartTailscaled, TailscaleStatus, MemberCheck, Join, JoinFails, Keep,
       ReadTailnetIp, ApplyFirewall, Preview, Apply, EndPlay, Enroll, ImmutableCheck,
       Deploy, StartAgent, RestartAgent, Backfill, Shape
  <2>2. CASE Outside
    BY <2>2
    DEF Outside, RunDies, Reboot, DaemonLoads, KeyExpires, Approve, TailscaleByHand,
       DeleteRow, NewToken, ChangeDomain, RecreateClient, Admin, EditInventory,
       FollowAdvice, Shape
  <2>3. CASE StartRun \/ UNCHANGED vars
    BY <2>3 DEF StartRun, vars, Shape
  <2> QED  BY <2>1, <2>2, <2>3 DEF Next
<1> QED
  BY <1>1, InvShapeStep, PrefsShapeStep, RowsShapeStep DEF Shape

\* What is next in a playbook is a task of it that is due, and comes later.
LEMMA AfterIsLater ==
    ASSUME run.kind \in DOMAIN Roles, NEW task, After(task) # "done"
    PROVE  \E i \in DOMAIN Roles[run.kind] :
              /\ After(task) = Roles[run.kind][i] /\ Due(After(task))
              /\ \E k \in 1 .. i - 1 : task = Roles[run.kind][k]
<1> DEFINE tasks == Roles[run.kind]
           next  == {i \in DOMAIN tasks :
                       /\ Due(tasks[i])
                       /\ \E k \in 1 .. i - 1 :
                             tasks[k] = task /\ \A j \in k + 1 .. i - 1 : ~Due(tasks[j])}
<1>1. PICK i \in next : After(task) = tasks[i]
  BY DEF After
<1> QED
  BY <1>1

\* A run is at a task of its playbook, the tailnet's only on a member.
TaskInv ==
    /\ run.pc \in Ends \cup ToSet(Roles[run.kind])
    /\ ~inv.member => run.pc \notin Tailnet
    /\ run.mode \in {"plain", "preview", "reviewed"}

\* Every playbook has a first task, which is not of the tailnet's.
LEMMA FirstTask ==
    ASSUME NEW kind \in DOMAIN Roles
    PROVE  /\ Head(Roles[kind]) \in {"preflight", "check", "deploy"}
           /\ Head(Roles[kind]) \in ToSet(Roles[kind])
<1>1. CASE kind = "attach"
  BY <1>1 DEF Roles, ToSet
<1>2. CASE kind = "maintain"
  BY <1>2 DEF Roles, ToSet
<1>3. CASE kind = "tagged"
  BY <1>3 DEF Roles, ToSet
<1> QED
  BY <1>1, <1>2, <1>3 DEF Roles

\* What a step of a run leaves alone of it, and where it goes.
LEMMA RunStepRun ==
    ASSUME Fields, StopInv, RunStep
    PROVE  /\ run'.kind = run.kind /\ run'.mode = run.mode /\ run'.source = run.source
           /\ \/ run'.pc \in {After(run.pc), "refused", "done"}
              \/ run.kind = "attach" /\ run'.pc \in {"enroll", "backfill"}
<1> USE DEF Go, Refuse, Done, Fields, RunFields
<1>1. CASE TailscaleStatus \/ MemberCheck
  BY <1>1 DEF TailscaleStatus, MemberCheck, ReadStatus
<1>2. CASE Preview \/ EndPlay
  BY <1>2 DEF Preview, EndPlay, Stopped, StopInv
<1>3. CASE ~(Preview \/ EndPlay \/ TailscaleStatus \/ MemberCheck)
  BY <1>3 DEF RunStep, Preflight, StartTailscaled, Join, JoinFails, Keep, ReadTailnetIp,
     ApplyFirewall, Apply, Enroll, ImmutableCheck, Deploy, StartAgent,
     RestartAgent, Backfill
<1> QED
  BY <1>1, <1>2, <1>3

\* What happens outside leaves a run as it is, or ends it.
LEMMA OutsideRun ==
    ASSUME Fields, Outside
    PROVE  \/ run' = run
           \/ /\ run'.pc \in {"died", "none"}
              /\ run'.kind = run.kind /\ run'.mode = run.mode /\ run'.source = run.source
  BY DEF Fields, RunFields, Outside, RunDies, Reboot, DaemonLoads, KeyExpires, Approve,
     TailscaleByHand, DeleteRow, NewToken, ChangeDomain, RecreateClient, Admin,
     EditInventory, FollowAdvice

\* The inventory changes only between runs.
LEMMA InvStep ==
    ASSUME Fields, [Next]_vars
    PROVE  inv' = inv \/ (run.pc \in Ends /\ run'.pc \in Ends)
  BY RunKeepsInv
  DEF Fields, RunFields, Next, StartRun, Outside, RunDies, Reboot, DaemonLoads, KeyExpires,
     Approve, TailscaleByHand, DeleteRow, NewToken, ChangeDomain, RecreateClient, Admin,
     EditInventory, FollowAdvice, Idle, At, Ends, vars

\* No run is under way at first.
LEMMA TaskInvInit == Init => TaskInv
  BY DEF Init, TaskInv, Ends, Tailnet

\* A run stays in its playbook, and out of the tailnet where there is none.
LEMMA TaskInvStep == Fields /\ StopInv /\ TaskInv /\ [Next]_vars => TaskInv'
<1> SUFFICES ASSUME Fields, StopInv, TaskInv, [Next]_vars PROVE TaskInv'
  OBVIOUS
<1>0. Ends \cap Tailnet = {} /\ {"enroll", "backfill", "preflight", "check", "deploy"} \cap Tailnet = {}
  BY DEF Ends, Tailnet
<1>1. CASE StartRun
  <2>1. /\ run'.kind \in DOMAIN Roles /\ run'.pc = Head(Roles[run'.kind]) /\ inv' = inv
        /\ run'.mode \in {"plain", "preview", "reviewed"}
    BY <1>1 DEF StartRun, Fields, RunFields, Roles
  <2> QED  BY <1>0, <2>1, FirstTask DEF TaskInv
<1>2. CASE RunStep
  <2>1. run'.kind = run.kind /\ run'.mode = run.mode /\ inv' = inv
    BY <1>2, RunStepRun, RunKeepsInv
  <2>2. CASE run'.pc \in {"refused", "done"}
    BY <1>0, <2>1, <2>2 DEF TaskInv, Ends
  <2>3. CASE run.kind = "attach" /\ run'.pc \in {"enroll", "backfill"}
    <3>1. "enroll" \in ToSet(Roles["attach"]) /\ "backfill" \in ToSet(Roles["attach"])
      BY DEF Roles, ToSet
    <3> QED  BY <1>0, <2>1, <2>3, <3>1 DEF TaskInv
  <2>4. CASE run'.pc = After(run.pc) /\ After(run.pc) # "done"
    <3>1. Due(run'.pc) /\ run'.pc \in ToSet(Roles[run.kind])
      BY <2>4, AfterIsLater DEF Fields, ToSet
    <3> QED  BY <2>1, <3>1 DEF TaskInv, Due
  <2> QED  BY <1>2, <2>2, <2>3, <2>4, RunStepRun
<1>3. CASE Outside
  <2>1. run'.kind = run.kind /\ run'.mode = run.mode
        /\ (run'.pc = run.pc \/ run'.pc \in Ends)
    BY <1>3, OutsideRun DEF Ends
  <2>2. inv' = inv \/ run'.pc \in Ends
    BY InvStep
  <2> QED  BY <1>0, <2>1, <2>2 DEF TaskInv
<1>4. CASE UNCHANGED vars
  BY <1>4 DEF vars, TaskInv
<1> QED
  BY <1>1, <1>2, <1>3, <1>4 DEF Next

-----------------------------------------------------------------------------
(* The node's documents and addresses                                      *)

\* The rest of the types.
NodeInv ==
    /\ node.daemon \in {"absent", "stopped", "loading", "up"}
    /\ node.login \in {"none", "pending", "in"}
    /\ node.ip \in Nat /\ node.fact \in 0 .. node.ip
    /\ node.login # "none" => node.ip > 0
    /\ DOMAIN node.running \subseteq DocKeys /\ DOMAIN node.file \subseteq DocKeys
    /\ {db.node, run.hash} \subseteq Nat

\* A node is met in order.
LEMMA NodeInvInit == Init => NodeInv
<1> SUFFICES ASSUME Init PROVE NodeInv
  OBVIOUS
<1>1. node \in NodeStates /\ db \in Databases /\ run.hash = EmptyHash
  BY DEF Init
<1> QED
  BY <1>1, NodeStatesAssumption, DatabasesAssumption DEF NodeInv, EmptyHash

\* The template's keys.
LEMMA RenderedKeys == ASSUME NEW hash PROVE DOMAIN Render(inv, hash) \subseteq DocKeys
  BY DEF Render, DocKeys, IMMUTABLE_KEYS

\* A node stays in order.
LEMMA NodeInvStep == Fields /\ Shape /\ NodeInv /\ [Next]_vars => NodeInv'
<1> SUFFICES ASSUME Fields, Shape, NodeInv, [Next]_vars PROVE NodeInv'
  OBVIOUS
<1> USE DEF Fields, NodeFields, NodeInv
<1>1. /\ node'.daemon \in {"absent", "stopped", "loading", "up"}
      /\ node'.login \in {"none", "pending", "in"}
      /\ node'.ip \in Nat /\ node'.fact \in 0 .. node'.ip
      /\ node'.login # "none" => node'.ip > 0
  <2>1. CASE Join
    BY <2>1 DEF Join
  <2>2. CASE ReadTailnetIp
    <3>1. node' = [node EXCEPT !.fact = node.ip] \/ node' = node
      BY <2>2 DEF ReadTailnetIp, FactOf
    <3>2. node.ip \in 0 .. node.ip
      OBVIOUS
    <3> QED  BY <3>1, <3>2
  <2>3. CASE RunStep /\ ~Join /\ ~ReadTailnetIp
    BY <2>3
    DEF RunStep, Preflight, StartTailscaled, TailscaleStatus, MemberCheck, JoinFails, Keep,
       ApplyFirewall, Preview, Apply, EndPlay, Enroll, ImmutableCheck,
       Deploy, StartAgent, RestartAgent, Backfill
  <2>4. CASE Outside
    BY <2>4
    DEF Outside, RunDies, Reboot, DaemonLoads, KeyExpires, Approve, TailscaleByHand,
       DeleteRow, NewToken, ChangeDomain, RecreateClient, Admin, EditInventory, FollowAdvice
  <2>5. CASE StartRun \/ UNCHANGED vars
    BY <2>5 DEF StartRun, vars
  <2> QED  BY <2>1, <2>2, <2>3, <2>4, <2>5 DEF Next
<1>2. DOMAIN node'.running \subseteq DocKeys /\ DOMAIN node'.file \subseteq DocKeys
  <2>1. CASE Deploy
    <3>1. node'.file = Render(inv, run.hash) /\ node'.running = node.running
      BY <2>1 DEF Deploy
    <3> QED  BY <3>1, RenderedKeys
  <2>2. CASE RunStep /\ ~Deploy
    BY <2>2
    DEF RunStep, Preflight, StartTailscaled, TailscaleStatus, MemberCheck, Join, JoinFails, Keep,
       ReadTailnetIp, ApplyFirewall, Preview, Apply, EndPlay, Enroll, ImmutableCheck,
       StartAgent, RestartAgent, Backfill
  <2>3. CASE Outside
    BY <2>3
    DEF Outside, RunDies, Reboot, DaemonLoads, KeyExpires, Approve, TailscaleByHand,
       DeleteRow, NewToken, ChangeDomain, RecreateClient, Admin, EditInventory, FollowAdvice
  <2>4. CASE StartRun \/ UNCHANGED vars
    BY <2>4 DEF StartRun, vars
  <2> QED  BY <2>1, <2>2, <2>3, <2>4 DEF Next
<1>3. db'.node \in Nat
  <2>1. Manifest.agentHost \in Nat
    BY DEF Manifest, PrimaryIp
  <2>2. CASE Apply
    <3>1. db' = Applied(db, Manifest, tick)
      BY <2>2 DEF Apply
    <3> HIDE DEF NodeInv
    <3> QED  BY <2>1, <3>1 DEF Applied, NodeInv
  <2>3. CASE Backfill
    BY <2>3 DEF Backfill, Shape, DbFields
  <2>4. CASE DeleteRow \/ NewToken \/ ChangeDomain \/ RecreateClient
    <3>1. CASE DeleteRow
      BY <3>1 DEF DeleteRow, Admin, Shape, DbFields
    <3>2. CASE NewToken \/ ChangeDomain \/ RecreateClient
      <4>1. db'.node = db.node
        BY <3>2 DEF NewToken, ChangeDomain, RecreateClient, Admin, Shape, DbFields
      <4> QED  BY <4>1
    <3> QED  BY <2>4, <3>1, <3>2
  <2> QED  BY <2>2, <2>3, <2>4, RowsStep
<1>4. run'.hash \in Nat
  <2>1. CASE Enroll
    <3>1. run'.hash = db.hash \/ run'.hash = run.hash
      BY <2>1 DEF Enroll, Refuse, RunFields
    <3>2. db.hash \in Nat
      BY DEF Shape
    <3> QED  BY <3>1, <3>2
  <2>2. CASE StartRun
    BY <2>2 DEF StartRun, RunFields, EmptyHash
  <2>3. CASE RunStep /\ ~Enroll
    <3> USE DEF Go, Refuse, RunFields
    <3>1. CASE TailscaleStatus \/ MemberCheck
      BY <3>1 DEF TailscaleStatus, MemberCheck, ReadStatus
    <3>2. CASE Preview \/ EndPlay
      BY <3>2 DEF Preview, EndPlay
    <3>3. CASE ~(Preview \/ EndPlay \/ TailscaleStatus \/ MemberCheck)
      BY <2>3, <3>3 DEF RunStep, Preflight, StartTailscaled, Join, JoinFails, Keep, ReadTailnetIp,
         ApplyFirewall, Apply, ImmutableCheck, Deploy, StartAgent, RestartAgent, Backfill
    <3> QED  BY <3>1, <3>2, <3>3
  <2>4. CASE Outside
    BY <2>4 DEF RunFields, Outside, RunDies, Reboot, DaemonLoads, KeyExpires, Approve,
       TailscaleByHand, DeleteRow, NewToken, ChangeDomain, RecreateClient, Admin,
       EditInventory, FollowAdvice
  <2>5. CASE UNCHANGED vars
    BY <2>5 DEF vars
  <2> QED  BY <2>1, <2>2, <2>3, <2>4, <2>5 DEF Next
<1> QED
  BY <1>1, <1>2, <1>3, <1>4

\* What the proofs of the properties build on.
Base == Fields /\ StopInv /\ Shape /\ TaskInv /\ NodeInv

\* It holds at first, and no step breaks it.
LEMMA BaseInit == Init => Base
  BY FieldsInit, StopInvInit, ShapeInit, TaskInvInit, NodeInvInit DEF Base
LEMMA BaseStep == Base /\ [Next]_vars => Base'
  BY FieldsStep, StopInvStep, ShapeStep, TaskInvStep, NodeInvStep DEF Base

\* A run is at a task of its playbook, the tailnet's only on a member, and the
\* documents are what the roles can write.
THEOREM TypeCorrect == Spec => []TypeOK
<1>1. Base => TypeOK
  <2> SUFFICES ASSUME Base PROVE TypeOK
    OBVIOUS
  <2>1. /\ db.domain \in Nat /\ {db.hash, db.client, db.link} \subseteq Nat
    BY DEF Base, Shape, Domains
  <2> QED  BY <2>1 DEF Base, Shape, TaskInv, NodeInv, TypeOK
<1> QED
  BY <1>1, BaseInit, BaseStep, PTL DEF Spec

-----------------------------------------------------------------------------
(* The firewall lets the run in                                            *)

\* An attach that is past its preflight comes from where it is let in.
CoveredInv ==
    run.kind = "attach" /\ run.pc \notin Ends \cup {"preflight"} =>
        Covered(run.source, inv.allow, inv.also)

\* What preflight counts as covered, the template of the firewall accepts: it
\* reads IPv4-mapped sources as IPv4 and leaves host names to the table.
LEMMA CoveredIsAccepted ==
    ASSUME Covered(run.source, inv.allow, inv.also)
    PROVE  TableAccepts(FromThisRun, inv.allow, inv.also)
<1>1. CASE inv.allow = {}
  BY <1>1 DEF TableAccepts
<1>2. CASE inv.allow # {}
  <2>1. PICK e \in inv.allow \cup inv.also \cup Loopback :
           IsNetwork(e) /\ e.v = Address(run.source).v /\ Address(run.source).n \in e.ns
    BY <1>2 DEF Covered
  <2>2. Address(run.source).v # 0
    BY <2>1 DEF IsNetwork
  <2>3. run.source.form \in {"mapped", "address", "zoned"}
    BY <2>2 DEF Address, NoAddress
  <2>4. /\ Address(run.source).v = FromThisRun.v
        /\ Address(run.source).n = FromThisRun.n
    BY <2>3 DEF Address, FromThisRun
  <2> QED  BY <2>1, <2>4 DEF TableAccepts
<1> QED
  BY <1>1, <1>2

\* Neither the source nor the allow list changes while a run is under way.
LEMMA CoveredInvStep == Base /\ CoveredInv /\ [Next]_vars => CoveredInv'
<1> SUFFICES ASSUME Base, CoveredInv, [Next]_vars,
                    run'.kind = "attach", run'.pc \notin Ends \cup {"preflight"}
             PROVE  Covered(run'.source, inv'.allow, inv'.also)
  BY DEF CoveredInv
<1>0. inv' = inv
  BY InvStep DEF Base
<1>1. CASE StartRun
  <2>1. run'.pc = Head(Roles["attach"])
    BY <1>1 DEF StartRun, Base, Fields, RunFields
  <2> QED  BY <2>1 DEF Roles
<1>2. CASE RunStep
  <2>1. run'.kind = run.kind /\ run'.source = run.source
    BY <1>2, RunStepRun DEF Base
  <2>2. CASE Preflight
    BY <1>0, <2>1, <2>2 DEF Preflight, Refuse, Base, Fields, RunFields, Ends
  <2>3. CASE ~Preflight
    <3>1. run.pc \notin Ends \cup {"preflight"}
      BY <1>2, <2>3
      DEF RunStep, StartTailscaled, TailscaleStatus, MemberCheck, Join, JoinFails, Keep,
         ReadTailnetIp, ApplyFirewall, Preview, Apply, EndPlay, Enroll, ImmutableCheck,
         Deploy, StartAgent, RestartAgent, Backfill, At, Ends
    <3> QED  BY <1>0, <2>1, <3>1 DEF CoveredInv
  <2> QED  BY <2>2, <2>3
<1>3. CASE Outside
  BY <1>0, <1>3, OutsideRun DEF CoveredInv, Base, Ends
<1>4. CASE UNCHANGED vars
  BY <1>0, <1>4 DEF CoveredInv, vars
<1> QED
  BY <1>1, <1>2, <1>3, <1>4 DEF Next

\* The table a run applies accepts it from where it comes
\* (preflight_ssh.py, templates/nftables.conf.j2).
THEOREM RunIsLetIn == Spec => NotLockedOut
<1>1. Init => Base /\ CoveredInv
  BY BaseInit DEF Init, CoveredInv, Ends
<1>2. Base /\ CoveredInv /\ [Next]_vars => (Base /\ CoveredInv)'
  BY BaseStep, CoveredInvStep
<1>3. Base /\ CoveredInv =>
         (ApplyFirewall => TableAccepts(FromThisRun, node'.table.allow, node'.table.also))
  <2> SUFFICES ASSUME Base, CoveredInv, ApplyFirewall
               PROVE  TableAccepts(FromThisRun, node'.table.allow, node'.table.also)
    OBVIOUS
  <2>1. run.pc = "firewall" /\ run.pc \in Ends \cup ToSet(Roles[run.kind])
    BY DEF ApplyFirewall, At, Base, TaskInv
  <2>2. run.kind = "attach"
    BY <2>1 DEF Base, Fields, Roles, ToSet, Ends
  <2>3. Covered(run.source, inv.allow, inv.also)
    BY <2>1, <2>2 DEF CoveredInv, Ends
  <2>4. node'.table = [allow |-> inv.allow, also |-> inv.also]
    BY DEF ApplyFirewall, Base, Fields, NodeFields
  <2> QED  BY <2>3, <2>4, CoveredIsAccepted
<1> QED
  BY <1>1, <1>2, <1>3, PTL DEF Spec, NotLockedOut

-----------------------------------------------------------------------------
(* The address of a member                                                 *)

\* From the role tailscale on, a member has an address, and the fact is it.
AddressInv ==
    run.pc \in {"firewall", "preview", "apply"} =>
        /\ run.kind = "attach"
        /\ inv.member => node.fact = node.ip /\ node.ip > 0

\* What comes before them, in the one playbook that has them.
LEMMA AttachOrder ==
    ASSUME run.kind \in DOMAIN Roles, NEW task
    PROVE  /\ After(task) \in {"firewall", "preview", "apply"} => run.kind = "attach"
           /\ inv.member /\ After(task) = "firewall" => task = "ts_ip"
           /\ After(task) = "preview" => task = "firewall"
           /\ After(task) = "apply" => task = "preview"
<1>1. CASE run.kind = "attach"
  <2>1. /\ Roles["attach"][8] = "apply" /\ Roles["attach"][7] = "preview"
        /\ Roles["attach"][6] = "firewall" /\ Roles["attach"][5] = "ts_ip"
        /\ {8, 7, 6} \subseteq DOMAIN Roles["attach"]
    BY DEF Roles
  <2>2. Due("firewall") /\ Due("preview") /\ (inv.member => Due("ts_ip"))
    BY DEF Due, Tailnet
  <2>3. After(task) = "apply" => task = "preview"
    BY <1>1, <2>1, <2>2, NotSkipped
  <2>4. After(task) = "preview" => task = "firewall"
    BY <1>1, <2>1, <2>2, NotSkipped
  <2>5. inv.member /\ After(task) = "firewall" => task = "ts_ip"
    BY <1>1, <2>1, <2>2, NotSkipped
  <2> QED  BY <1>1, <2>3, <2>4, <2>5
<1>2. CASE run.kind = "maintain"
  <2>1. After(task) \notin {"firewall", "preview", "apply"}
    BY <1>2, AfterIsLater DEF Roles
  <2> QED  BY <2>1
<1>3. CASE run.kind = "tagged"
  <2>1. After(task) \notin {"firewall", "preview", "apply"}
    BY <1>3, AfterIsLater DEF Roles
  <2> QED  BY <2>1
<1> QED
  BY <1>1, <1>2, <1>3 DEF Roles

\* Which step is taken at those tasks.
LEMMA StepAt ==
    ASSUME RunStep
    PROVE  /\ run.pc = "ts_ip" => ReadTailnetIp
           /\ run.pc = "firewall" => ApplyFirewall
           /\ run.pc = "preview" => Preview
           /\ run.pc = "apply" => Apply
           /\ run.pc = "check" => ImmutableCheck
           /\ run.pc \notin Ends
  BY DEF RunStep, Preflight, StartTailscaled, TailscaleStatus, MemberCheck, Join, JoinFails, Keep,
     ReadTailnetIp, ApplyFirewall, Preview, Apply, EndPlay, Enroll, ImmutableCheck,
     Deploy, StartAgent, RestartAgent, Backfill, At, Ends

\* Nothing outside gives the node another address, or the role another fact.
LEMMA OutsideNode ==
    ASSUME Fields, Outside
    PROVE  node'.ip = node.ip /\ node'.fact = node.fact /\ node'.file = node.file
  BY DEF Fields, NodeFields, Outside, RunDies, Reboot, DaemonLoads, KeyExpires, Approve,
     TailscaleByHand, DeleteRow, NewToken, ChangeDomain, RecreateClient, Admin,
     EditInventory, FollowAdvice

\* The fact is read after the last join of the run.
LEMMA AddressInvStep == Base /\ AddressInv /\ [Next]_vars => AddressInv'
<1> SUFFICES ASSUME Base, AddressInv, [Next]_vars,
                    run'.pc \in {"firewall", "preview", "apply"}
             PROVE  run'.kind = "attach" /\ (inv'.member => node'.fact = node'.ip /\ node'.ip > 0)
  BY DEF AddressInv
<1>0. inv' = inv
  BY InvStep DEF Base, Ends
<1>1. CASE StartRun
  <2>1. run'.kind \in DOMAIN Roles /\ run'.pc = Head(Roles[run'.kind])
    BY <1>1 DEF StartRun, Base, Fields, RunFields, Roles
  <2> QED  BY <2>1, FirstTask
<1>2. CASE RunStep
  <2>1. run'.pc = After(run.pc) /\ run'.kind = run.kind
    BY <1>2, RunStepRun DEF Base
  <2>2. run.kind = "attach"
    BY <2>1, AttachOrder DEF Base, Fields
  <2>3. CASE run'.pc = "firewall" /\ inv.member
    <3>1. ReadTailnetIp
      BY <1>2, <2>1, <2>3, AttachOrder, StepAt DEF Base, Fields
    <3>2. ~Refuse("no tailnet address")
      <4> SUFFICES ASSUME Refuse("no tailnet address") PROVE run'.pc = "refused"
        OBVIOUS
      <4> QED  BY DEF Refuse, Base, Fields, RunFields
    <3>3. node' = [node EXCEPT !.fact = node.ip] /\ node.login = "in"
      BY <3>1, <3>2 DEF ReadTailnetIp, FactOf
    <3>4. node.ip > 0
      BY <3>3 DEF Base, NodeInv
    <3> QED  BY <1>0, <2>1, <2>2, <3>3, <3>4 DEF Base, Fields, NodeFields
  <2>4. CASE run'.pc \in {"preview", "apply"}
    <3>1. run.pc \in {"firewall", "preview"}
      BY <2>1, <2>4, AttachOrder DEF Base, Fields
    <3>2. ApplyFirewall \/ Preview
      BY <1>2, <3>1, StepAt
    <3>3. node'.fact = node.fact /\ node'.ip = node.ip
      BY <3>2 DEF ApplyFirewall, Preview, Base, Fields, NodeFields
    <3> QED  BY <1>0, <2>1, <2>2, <3>1, <3>3 DEF AddressInv
  <2> QED  BY <1>0, <2>1, <2>2, <2>3, <2>4
<1>3. CASE Outside
  <2>1. run' = run
    BY <1>3, OutsideRun DEF Base
  <2> QED  BY <1>0, <1>3, <2>1, OutsideNode DEF AddressInv, Base
<1>4. CASE UNCHANGED vars
  BY <1>4 DEF AddressInv, vars
<1> QED
  BY <1>1, <1>2, <1>3, <1>4 DEF Next

\* The invariant of it, from the start.
LEMMA AddressHolds == Spec => [](Base /\ AddressInv)
<1>1. Init => Base /\ AddressInv
  BY BaseInit DEF Init, AddressInv
<1>2. Base /\ AddressInv /\ [Next]_vars => (Base /\ AddressInv)'
  BY BaseStep, AddressInvStep
<1> QED
  BY <1>1, <1>2, PTL DEF Spec

\* The row an apply makes names the address the node has on the tailnet, whether
\* this run joined it or an earlier one (roles/tailscale/tasks/main.yml,
\* "Persist"), exactly if controller and node both route over it, and the agent
\* listens there then; else the row names primary_ip (manifest.yml.j2 30-32,
\* 165-166, 198-203; cs_agent_listen_addr).
THEOREM RowHasItsAddress == Spec => AgentHostIsTheNodes
<1>1. Base /\ AddressInv =>
         (Apply /\ db.node = 0 =>
            \/ db'.node = PrimaryIp /\ ~(inv.controller /\ inv.member /\ ~inv.access)
            \/ /\ db'.node = node.ip /\ node.ip > 0
               /\ inv.controller /\ Render(inv, db'.hash)["listen_addr"] = Everywhere)
  <2> SUFFICES ASSUME Base, AddressInv, Apply, db.node = 0
               PROVE  \/ /\ db'.node = PrimaryIp
                         /\ ~(inv.controller /\ inv.member /\ ~inv.access)
                      \/ /\ db'.node = node.ip /\ node.ip > 0 /\ inv.controller
                         /\ Render(inv, db'.hash)["listen_addr"] = Everywhere
    OBVIOUS
  <2>1. inv.member => node.fact = node.ip /\ node.ip > 0
    BY DEF Apply, At, AddressInv
  <2>2. db'.node = Manifest.agentHost
    <3>1. db' = Applied(db, Manifest, tick)
      BY DEF Apply
    <3> QED  BY <3>1 DEF Applied
  <2>3. CASE inv.controller /\ NodeTailnet
    <3>1. Manifest.agentHost = node.fact
      BY <2>3 DEF Manifest
    <3>2. Render(inv, db'.hash)["listen_addr"] = Everywhere
      BY <2>3 DEF Render, ListenAddr, NodeTailnet
    <3> QED  BY <2>1, <2>2, <2>3, <3>1, <3>2 DEF NodeTailnet
  <2>4. CASE ~(inv.controller /\ NodeTailnet)
    <3>1. Manifest.agentHost = PrimaryIp
      BY <2>4 DEF Manifest
    <3>2. ~(inv.controller /\ inv.member /\ ~inv.access)
      BY <2>1, <2>4 DEF NodeTailnet, Base, NodeInv
    <3> QED  BY <2>2, <3>1, <3>2
  <2> QED  BY <2>3, <2>4
<1> QED
  BY <1>1, AddressHolds, PTL DEF Spec, AgentHostIsTheNodes

-----------------------------------------------------------------------------
(* The immutable keys of a live node                                       *)

\* What the steps of a run leave alone, but for the ones that are named.
LEMMA QuietStep ==
    ASSUME Base, RunStep, ~Deploy, ~Apply, ~Backfill, ~Preview, ~ImmutableCheck
    PROVE  /\ db' = db /\ node'.file = node.file
           /\ hist'.touched = hist.touched /\ hist'.reviewed = hist.reviewed
           /\ hist'.approved = hist.approved /\ hist'.followed = hist.followed
           /\ hist'.changed = hist.changed \/ Join
  BY DEF RunStep, Preflight, StartTailscaled, TailscaleStatus, MemberCheck, Join, JoinFails, Keep,
     ReadTailnetIp, ApplyFirewall, EndPlay, Enroll, StartAgent, RestartAgent,
     Base, Fields, NodeFields, Shape, HistFields

\* Unless somebody touched the rows since the check, a converge that passed it
\* would render the keys the node has.
CheckInv ==
    run.kind = "maintain" /\ ~hist.touched /\ run.pc \in Tailnet \cup {"enroll", "deploy"} =>
        /\ ImmutableChanges(node.file, Render(inv, db.hash)) = {}
        /\ run.pc = "deploy" => run.hash = db.hash

\* What a converge does before it writes agent.yml.
LEMMA MaintainOrder ==
    ASSUME run.kind = "maintain", NEW task, After(task) \in Tailnet \cup {"enroll", "deploy"}
    PROVE  task \in {"check", "enroll"} \cup Tailnet
<1>1. PICK i \in DOMAIN Roles[run.kind] :
          /\ After(task) = Roles[run.kind][i]
          /\ \E k \in 1 .. i - 1 : task = Roles[run.kind][k]
  BY AfterIsLater DEF Roles, Tailnet
<1>2. i \in 1 .. 8
  BY <1>1 DEF Roles, Tailnet
<1> QED
  BY <1>1, <1>2 DEF Roles, Tailnet

\* The check renders what the role will render, from the same row.
LEMMA CheckInvStep == Base /\ CheckInv /\ [Next]_vars => CheckInv'
<1> SUFFICES ASSUME Base, CheckInv, [Next]_vars,
                    run'.kind = "maintain", ~hist'.touched,
                    run'.pc \in Tailnet \cup {"enroll", "deploy"}
             PROVE  /\ ImmutableChanges(node'.file, Render(inv', db'.hash)) = {}
                    /\ run'.pc = "deploy" => run'.hash = db'.hash
  BY DEF CheckInv
<1>0. inv' = inv
  BY InvStep DEF Base, Ends, Tailnet
<1>1. CASE StartRun
  <2>1. run'.pc = "check"
    BY <1>1 DEF StartRun, Base, Fields, RunFields, Roles
  <2> QED  BY <2>1 DEF Tailnet
<1>2. CASE RunStep
  <2>1. run'.pc = After(run.pc) /\ run.kind = "maintain"
    BY <1>2, RunStepRun DEF Base, Tailnet
  <2>2. run.pc \in {"check", "enroll"} \cup Tailnet
    BY <2>1, MaintainOrder
  <2>3. CASE run.pc = "check"
    <3>1. ImmutableCheck
      BY <1>2, <2>3, StepAt
    <3>2. ~Refuse("immutable keys")
      <4> SUFFICES ASSUME Refuse("immutable keys") PROVE run'.pc = "refused"
        BY DEF Tailnet
      <4> QED  BY DEF Refuse, Base, Fields, RunFields
    <3>3. ~Refuse("token hash")
      <4> SUFFICES ASSUME Refuse("token hash") PROVE run'.pc = "refused"
        BY DEF Tailnet
      <4> QED  BY DEF Refuse, Base, Fields, RunFields
    <3>4. ImmutableChanges(node.file, Render(inv, db.hash)) = {} /\ node' = node /\ db' = db
      BY <3>1, <3>2, <3>3 DEF ImmutableCheck
    <3>5. run'.pc # "deploy"
      BY <2>1, <2>3, Before DEF Base, Fields
    <3> QED  BY <1>0, <3>4, <3>5
  <2>4. CASE run.pc \in {"enroll"} \cup Tailnet
    <3>1. ~Deploy /\ ~Apply /\ ~Backfill /\ ~Preview /\ ~ImmutableCheck /\ ~EndPlay
      BY <2>1, <2>4 DEF Deploy, Apply, Backfill, Preview, ImmutableCheck, EndPlay, Stopped,
         At, Tailnet
    <3>2. db' = db /\ node'.file = node.file /\ hist'.touched = hist.touched
      BY <1>2, <3>1, QuietStep
    <3>3. run'.pc = "deploy" => run'.hash = db.hash
      <4> SUFFICES ASSUME run'.pc = "deploy" PROVE run'.hash = db.hash
        OBVIOUS
      <4>1. run.pc = "enroll"
        BY <2>1, Before DEF Base, Fields
      <4>2. Enroll
        BY <1>2, <3>1, <4>1
        DEF RunStep, Preflight, StartTailscaled, TailscaleStatus, MemberCheck, Join, JoinFails, Keep,
           ReadTailnetIp, ApplyFirewall, StartAgent, RestartAgent, At
      <4>3. ~Refuse("token hash")
        <5> SUFFICES ASSUME Refuse("token hash") PROVE run'.pc = "refused"
          OBVIOUS
        <5> QED  BY DEF Refuse, Base, Fields, RunFields
      <4> QED  BY <4>2, <4>3 DEF Enroll, Base, Fields, RunFields
    <3> QED  BY <1>0, <2>1, <2>4, <3>2, <3>3 DEF CheckInv
  <2> QED  BY <2>2, <2>3, <2>4
<1>3. CASE Outside
  <2>1. run' = run
    BY <1>3, OutsideRun DEF Base, Tailnet
  <2>2. node'.file = node.file
    BY <1>3, OutsideNode DEF Base
  <2>3. db' = db /\ hist'.touched = hist.touched
    BY <1>3 DEF Outside, RunDies, Reboot, DaemonLoads, KeyExpires, Approve,
       TailscaleByHand, DeleteRow, NewToken, ChangeDomain, RecreateClient, Admin,
       EditInventory, FollowAdvice, Base, Shape, HistFields
  <2> QED  BY <1>0, <2>1, <2>2, <2>3 DEF CheckInv
<1>4. CASE UNCHANGED vars
  BY <1>4 DEF CheckInv, vars
<1> QED
  BY <1>1, <1>2, <1>3, <1>4 DEF Next

\* A converge leaves every immutable key of a live node's agent.yml as it was
\* (maintain-nodes.yml, before the hold; cs_agent_immutable.py).
THEOREM KeysAreKept == Spec => ImmutableKeysKept
<1>1. Init => Base /\ CheckInv
  BY BaseInit DEF Init, CheckInv
<1>2. Base /\ CheckInv /\ [Next]_vars => (Base /\ CheckInv)'
  BY BaseStep, CheckInvStep
<1>3. Base /\ CheckInv =>
         (Deploy /\ run.kind = "maintain" /\ ~hist.touched =>
             \A k \in IMMUTABLE_KEYS :
                /\ Has(node.file, k) = Has(node'.file, k)
                /\ Has(node.file, k) => SameValue(node.file[k], node'.file[k]))
  <2> SUFFICES ASSUME Base, CheckInv, Deploy, run.kind = "maintain", ~hist.touched,
                      NEW k \in IMMUTABLE_KEYS
               PROVE  /\ Has(node.file, k) = Has(node'.file, k)
                      /\ Has(node.file, k) => SameValue(node.file[k], node'.file[k])
    OBVIOUS
  <2> DEFINE new == Render(inv, db.hash)
  <2>1. ImmutableChanges(node.file, new) = {} /\ run.hash = db.hash
    BY DEF CheckInv, Deploy, At
  <2>2. node'.file = new
    BY <2>1 DEF Deploy, Base, Fields, NodeFields
  <2> HIDE DEF new
  <2>3. ~(Has(node.file, k) # Has(new, k)
            \/ (Has(node.file, k) /\ Has(new, k) /\ ~SameValue(node.file[k], new[k])))
    BY <2>1 DEF ImmutableChanges
  <2> QED  BY <2>2, <2>3 DEF Has
<1> QED
  BY <1>1, <1>2, <1>3, PTL DEF Spec, ImmutableKeysKept
-----------------------------------------------------------------------------
(* What a reviewed apply writes                                            *)

\* A reviewed run has a preview to compare with, and what the operator
\* approved is what that preview's lines tell.
ReviewedInv ==
    /\ run.mode = "reviewed" /\ run.pc \notin Ends => hist.reviewed # NoDoc
    /\ hist.reviewed # NoDoc =>
          \E d, m : hist.reviewed = Lines(d, m) /\ hist.approved = WritesOf(d, m)

\* Unless somebody touched the rows since the run's own preview, they are the
\* rows it saw.
SeenInv ==
    run.pc = "apply" /\ ~hist.touched =>
        /\ db.domain \in {0, inv.domain}
        /\ run.mode = "reviewed" => hist.reviewed = Lines(db, Manifest)

\* Ids that are not there yet are past every row's.
LEMMA IdsAreFresh == ASSUME Base PROVE FreshIds(db, tick)
<1>1. {db.client, db.link} \subseteq 0 .. tick /\ tick \in Nat
  BY DEF Base, Shape
<1>2. db.client \in 0 .. tick /\ db.link \in 0 .. tick
  BY <1>1
<1> QED
  BY <1>1, <1>2 DEF FreshIds

\* What an apply writes that a reader of its preview can see.
LEMMA WritesAre ==
    ASSUME Base, NEW m
    PROVE  Writes(db, Applied(db, m, tick)) = WritesOf(db, m)
<1>1. FreshIds(db, tick)
  BY IdsAreFresh
<1> DEFINE new == Applied(db, m, tick)
<1>2. /\ new.node = IF db.node = 0 THEN m.agentHost ELSE db.node
      /\ new.client = ClientOf(db, m, tick)
      /\ new.domain = IF db.domain = 0 THEN m.domain ELSE db.domain
      /\ new.cert = m.cert
  BY DEF Applied
<1>3. db.client # new.client <=> m.full /\ db.client = 0
  BY <1>1, <1>2 DEF ClientOf, FreshIds
<1> HIDE DEF new
<1>4. (db.client # new.client) = (m.full /\ db.client = 0)
  BY <1>3
<1>5. /\ (IF db.node # new.node THEN new.node ELSE 0) = (IF db.node = 0 THEN m.agentHost ELSE 0)
      /\ (IF db.domain # new.domain THEN new.domain ELSE 0) = (IF db.domain = 0 THEN m.domain ELSE 0)
      /\ (db.cert # new.cert) = (db.cert # m.cert)
  BY <1>2
<1>6. Writes(db, new) = WritesOf(db, m)
  BY <1>4, <1>5, Zenon DEF Writes, WritesOf
<1> QED
  BY <1>6 DEF new

\* What a preview does to the history: in phase 1 it is what is reviewed.
LEMMA PreviewStep ==
    ASSUME Base, Preview
    PROVE  /\ run'.mode = run.mode /\ ~hist'.touched
           /\ UNCHANGED <<inv, node, db>> /\ Manifest' = Manifest
           /\ hist'.followed = hist.followed
           /\ \/ /\ run.mode = "preview" /\ run'.pc = "enroll" /\ ~hist'.changed
                 /\ hist'.reviewed = Lines(db, Manifest)
                 /\ hist'.approved = WritesOf(db, Manifest)
              \/ /\ hist'.reviewed = hist.reviewed /\ hist'.approved = hist.approved
                 /\ hist'.changed = hist.changed
                 /\ \/ run'.pc = "refused" /\ run'.why = "lb domain"
                    \/ /\ run'.pc = "refused" /\ run'.why = "fingerprint"
                       /\ run.mode = "reviewed" /\ hist.reviewed # Lines(db, Manifest)
                    \/ /\ run'.pc = After("preview") /\ db.domain \in {0, inv.domain}
                       /\ run.mode = "reviewed" => hist.reviewed = Lines(db, Manifest)
<1> DEFINE doc == Printed(db, Manifest, tick)
           writes == Writes(db, Applied(db, Manifest, tick))
<1>1. Fingerprint(doc) = Lines(db, Manifest)
  BY FingerprintIs, IdsAreFresh
<1>2. LbDomainDrift(doc) <=> db.domain \notin {0, inv.domain}
  BY DriftIs DEF Manifest
<1>3. writes = WritesOf(db, Manifest)
  BY WritesAre
<1>4. UNCHANGED <<inv, node, db>>
  BY DEF Preview
<1>5. Manifest' = Manifest
  BY <1>4 DEF Manifest, NodeTailnet
<1> HIDE DEF doc, writes
<1>6. IF LbDomainDrift(doc)
      THEN Refuse("lb domain") /\ hist' = [hist EXCEPT !.touched = FALSE]
      ELSE IF run.mode = "preview"
      THEN /\ run' = [run EXCEPT !.pc = "enroll", !.stopped = TRUE, !.doc = doc]
           /\ hist' = [hist EXCEPT !.touched = FALSE, !.changed = FALSE,
                         !.reviewed = Fingerprint(doc), !.approved = writes]
      ELSE /\ IF run.mode = "reviewed" /\ Fingerprint(doc) # hist.reviewed
              THEN Refuse("fingerprint")
              ELSE run' = [run EXCEPT !.pc = Done, !.doc = doc]
           /\ hist' = [hist EXCEPT !.touched = FALSE]
  BY DEF Preview, doc, writes
<1>7. run.pc = "preview"
  BY DEF Preview, At
<1> USE DEF Base, Fields, RunFields, Shape, HistFields, Refuse, Done
<1>8. CASE LbDomainDrift(doc)
  BY <1>4, <1>5, <1>6, <1>8
<1>9. CASE ~LbDomainDrift(doc) /\ run.mode = "preview"
  BY <1>1, <1>3, <1>4, <1>5, <1>6, <1>9
<1>10. CASE ~LbDomainDrift(doc) /\ run.mode # "preview"
  <2>1. hist' = [hist EXCEPT !.touched = FALSE]
    BY <1>6, <1>10
  <2>2. CASE run.mode = "reviewed" /\ Fingerprint(doc) # hist.reviewed
    BY <1>1, <1>4, <1>5, <1>6, <1>10, <2>1, <2>2
  <2>3. CASE ~(run.mode = "reviewed" /\ Fingerprint(doc) # hist.reviewed)
    BY <1>1, <1>2, <1>4, <1>5, <1>6, <1>7, <1>10, <2>1, <2>3
  <2> QED  BY <2>2, <2>3
<1> QED
  BY <1>8, <1>9, <1>10

\* Steps that are not a preview leave what was reviewed alone.
LEMMA ReviewedStep ==
    ASSUME Base, [Next]_vars, ~Preview
    PROVE  /\ hist'.reviewed = hist.reviewed /\ hist'.approved = hist.approved
           /\ hist'.changed \in {hist.changed, TRUE}
<1> USE DEF Base, Shape, HistFields
<1>1. CASE RunStep
  BY <1>1 DEF RunStep, Preflight, StartTailscaled, TailscaleStatus, MemberCheck, Join, JoinFails, Keep,
     ReadTailnetIp, ApplyFirewall, Apply, EndPlay, Enroll, ImmutableCheck, Deploy,
     StartAgent, RestartAgent, Backfill
<1>2. CASE Outside
  BY <1>2 DEF Outside, RunDies, Reboot, DaemonLoads, KeyExpires, Approve,
     TailscaleByHand, DeleteRow, NewToken, ChangeDomain, RecreateClient, Admin,
     EditInventory, FollowAdvice
<1>3. CASE StartRun \/ UNCHANGED vars
  BY <1>3 DEF StartRun, vars
<1> QED
  BY <1>1, <1>2, <1>3 DEF Next

\* A reviewed run keeps its preview, and the preview its meaning.
LEMMA ReviewedInvStep == Base /\ ReviewedInv /\ [Next]_vars => ReviewedInv'
<1> SUFFICES ASSUME Base, ReviewedInv, [Next]_vars PROVE ReviewedInv'
  OBVIOUS
<1>1. CASE Preview
  <2>1. CASE run.mode = "preview" /\ hist'.reviewed = Lines(db, Manifest)
             /\ hist'.approved = WritesOf(db, Manifest)
    <3>1. run'.mode # "reviewed"
      BY <1>1, <2>1, PreviewStep
    <3> QED  BY <2>1, <3>1 DEF ReviewedInv
  <2>2. CASE hist'.reviewed = hist.reviewed /\ hist'.approved = hist.approved
    <3>1. run'.mode = run.mode /\ run.pc \notin Ends
      BY <1>1, PreviewStep DEF Preview, At, Ends
    <3> QED  BY <2>2, <3>1 DEF ReviewedInv
  <2> QED  BY <1>1, <2>1, <2>2, PreviewStep
<1>2. CASE ~Preview
  <2>1. hist'.reviewed = hist.reviewed /\ hist'.approved = hist.approved
    BY <1>2, ReviewedStep
  <2>2. run'.mode = "reviewed" /\ run'.pc \notin Ends => hist.reviewed # NoDoc
    <3>1. CASE StartRun
      BY <3>1 DEF StartRun, Base, Fields, RunFields
    <3>2. CASE RunStep
      BY <3>2, RunStepRun, StepAt DEF Base, ReviewedInv
    <3>3. CASE Outside
      BY <3>3, OutsideRun DEF Base, ReviewedInv, Ends
    <3>4. CASE UNCHANGED vars
      BY <3>4 DEF vars, ReviewedInv
    <3> QED  BY <3>1, <3>2, <3>3, <3>4 DEF Next
  <2> QED  BY <2>1, <2>2 DEF ReviewedInv
<1> QED
  BY <1>1, <1>2

\* From the preview to the apply, who changes the rows touches them.
LEMMA SeenInvStep == Base /\ SeenInv /\ [Next]_vars => SeenInv'
<1> SUFFICES ASSUME Base, SeenInv, [Next]_vars, run'.pc = "apply", ~hist'.touched
             PROVE  /\ db'.domain \in {0, inv'.domain}
                    /\ run'.mode = "reviewed" => hist'.reviewed = Lines(db', Manifest')
  BY DEF SeenInv
<1>0. inv' = inv
  BY InvStep DEF Base, Ends
<1>1. CASE StartRun
  <2>1. run'.kind \in DOMAIN Roles /\ run'.pc = Head(Roles[run'.kind])
    BY <1>1 DEF StartRun, Base, Fields, RunFields, Roles
  <2> QED  BY <2>1, FirstTask
<1>2. CASE RunStep
  <2>1. run'.pc = After(run.pc)
    BY <1>2, RunStepRun DEF Base
  <2>2. Preview
    BY <1>2, <2>1, AttachOrder, StepAt DEF Base, Fields
  <2> QED  BY <1>0, <2>2, PreviewStep
<1>3. CASE Outside
  <2>1. run' = run
    BY <1>3, OutsideRun DEF Base
  <2>2. node'.fact = node.fact
    BY <1>3, OutsideNode DEF Base
  <2>3. db' = db /\ hist'.touched = hist.touched /\ hist'.reviewed = hist.reviewed
    BY <1>3 DEF Outside, RunDies, Reboot, DaemonLoads, KeyExpires, Approve,
       TailscaleByHand, DeleteRow, NewToken, ChangeDomain, RecreateClient, Admin,
       EditInventory, FollowAdvice, Base, Shape, HistFields
  <2>4. Manifest' = Manifest
    BY <1>0, <2>2 DEF Manifest, NodeTailnet
  <2> QED  BY <1>0, <2>1, <2>3, <2>4 DEF SeenInv
<1>4. CASE UNCHANGED vars
  <2>1. Manifest' = Manifest
    BY <1>4 DEF vars, Manifest, NodeTailnet
  <2> QED  BY <1>4, <2>1 DEF SeenInv, vars
<1> QED
  BY <1>1, <1>2, <1>3, <1>4 DEF Next

\* Both, from the start.
LEMMA PreviewHolds == Spec => [](Base /\ ReviewedInv /\ SeenInv)
<1>1. Init => Base /\ ReviewedInv /\ SeenInv
  <2> SUFFICES ASSUME Init PROVE ReviewedInv /\ SeenInv
    BY BaseInit
  <2>1. run.pc = "none" /\ hist.reviewed = NoDoc
    BY DEF Init
  <2> QED  BY <2>1 DEF ReviewedInv, SeenInv, Ends
<1>2. Base /\ ReviewedInv /\ SeenInv /\ [Next]_vars => (Base /\ ReviewedInv /\ SeenInv)'
  BY BaseStep, ReviewedInvStep, SeenInvStep
<1> QED
  BY <1>1, <1>2, PTL DEF Spec

\* A phase-2 run writes what the preview showed that the operator approved
\* (controller_seed_preview.py; apply.yml's comparison), whatever ids and log
\* lines the previews differ in, if nobody touched the rows after its preview.
THEOREM WritesAreReviewed == Spec => AppliedIsReviewed
<1>1. Base /\ ReviewedInv /\ SeenInv =>
         (Apply /\ run.mode = "reviewed" /\ ~hist.touched => Writes(db, db') = hist.approved)
  <2> SUFFICES ASSUME Base, ReviewedInv, SeenInv,
                      Apply, run.mode = "reviewed", ~hist.touched
               PROVE  Writes(db, db') = hist.approved
    OBVIOUS
  <2>1. run.pc = "apply" /\ db' = Applied(db, Manifest, tick)
    BY DEF Apply, At
  <2>2. hist.reviewed = Lines(db, Manifest) /\ hist.reviewed # NoDoc
    BY <2>1 DEF SeenInv, ReviewedInv, Ends
  <2>3. PICK d, m : hist.reviewed = Lines(d, m) /\ hist.approved = WritesOf(d, m)
    BY <2>2 DEF ReviewedInv
  <2>4. WritesOf(db, Manifest) = WritesOf(d, m)
    <3>1. Lines(db, Manifest) = Lines(d, m)
      BY <2>2, <2>3
    <3>2. \A d1, m1, d2, m2 :
             Lines(d1, m1) = Lines(d2, m2) => WritesOf(d1, m1) = WritesOf(d2, m2)
      BY SameLinesSameWrites
    <3> QED  BY <3>1, <3>2, SMT
  <2>5. Writes(db, Applied(db, Manifest, tick)) = WritesOf(db, Manifest)
    BY WritesAre
  <2> QED  BY <2>1, <2>3, <2>4, <2>5
<1> QED
  BY <1>1, PreviewHolds, PTL DEF Spec, AppliedIsReviewed

\* Gate G of the preview: no apply leaves a load balancer with a certificate
\* for another domain than it answers on.
THEOREM CertificateFits == Spec => CertificateFitsDomain
<1>1. Base /\ ReviewedInv /\ SeenInv =>
         (Apply /\ ~hist.touched => db'.cert[1] = db'.domain)
  <2> SUFFICES ASSUME Base, SeenInv, Apply, ~hist.touched
               PROVE  db'.cert[1] = db'.domain
    OBVIOUS
  <2>1. db.domain \in {0, inv.domain} /\ db' = Applied(db, Manifest, tick)
    BY DEF Apply, At, SeenInv
  <2>2. inv.cert[1] = inv.domain /\ Manifest.cert = inv.cert /\ Manifest.domain = inv.domain
    BY DEF Base, Shape, Manifest
  <2>3. db'.cert = inv.cert /\ db'.domain = inv.domain
    BY <2>1, <2>2 DEF Applied
  <2> QED  BY <2>2, <2>3
<1> QED
  BY <1>1, PreviewHolds, PTL DEF Spec, CertificateFitsDomain
-----------------------------------------------------------------------------
(* What a refused fingerprint means                                        *)

\* Until something changed, a preview would show what was reviewed; a run
\* that was refused for its fingerprint is past that.
ChangedInv ==
    /\ ~hist.changed /\ hist.reviewed # NoDoc =>
          /\ inv.member => node.fact = node.ip
          /\ hist.reviewed = Lines(db, Manifest)
    /\ RefusedMeansChanged

\* The lines are about what the manifest is about.
LEMMA LinesKept ==
    ASSUME NEW d, NEW e, NEW m, e.node = d.node, e.client = d.client, e.link = d.link,
           e.domain = d.domain, e.cert = d.cert
    PROVE  Lines(e, m) = Lines(d, m)
  BY DEF Lines

\* A step that does not count as a change leaves the inventory, and the rows
\* but for the backfill's mark; it joins no node.
LEMMA UnchangedStep ==
    ASSUME Base, [Next]_vars, ~Preview, ~hist'.changed
    PROVE  /\ ~hist.changed /\ inv' = inv
           /\ db' = db \/ db' = [db EXCEPT !.latched = TRUE]
           /\ node'.ip = node.ip /\ node'.fact \in {node.fact, node.ip}
<1>1. ~hist.changed
  BY ReviewedStep
<1> USE DEF Base, Shape, HistFields, Fields, NodeFields
<1>2. CASE RunStep
  <2>1. ~Join /\ ~Apply
    BY <1>1 DEF Join, JoinFails, Apply
  <2>2. CASE ReadTailnetIp
    BY <1>1, <2>2 DEF ReadTailnetIp, FactOf
  <2>3. CASE Backfill
    BY <1>1, <2>3 DEF Backfill
  <2>4. CASE ~ReadTailnetIp /\ ~Backfill
    BY <1>1, <1>2, <2>1, <2>4 DEF RunStep, Preflight, StartTailscaled, TailscaleStatus,
       MemberCheck, JoinFails, Keep, ApplyFirewall, EndPlay, Enroll, ImmutableCheck, Deploy,
       StartAgent, RestartAgent
  <2> QED  BY <2>2, <2>3, <2>4
<1>3. CASE Outside
  <2>1. /\ ~DeleteRow /\ ~NewToken /\ ~ChangeDomain /\ ~RecreateClient
        /\ ~EditInventory /\ ~FollowAdvice
    BY DEF DeleteRow, NewToken, ChangeDomain, RecreateClient, Admin, EditInventory, FollowAdvice
  <2>2. inv' = inv /\ db' = db
    BY <1>3, <2>1 DEF Outside, RunDies, Reboot, DaemonLoads, KeyExpires, Approve, TailscaleByHand
  <2> QED  BY <1>1, <1>3, <2>2, OutsideNode
<1>4. CASE StartRun \/ UNCHANGED vars
  BY <1>1, <1>4 DEF StartRun, vars
<1> QED
  BY <1>2, <1>3, <1>4 DEF Next

\* Only a preview refuses a run for its fingerprint.
LEMMA FingerprintStep ==
    ASSUME Base, [Next]_vars, ~Preview, run'.pc = "refused", run'.why = "fingerprint"
    PROVE  run.pc = "refused" /\ run.why = "fingerprint"
<1> USE DEF Base, Fields, RunFields
<1>1. CASE StartRun
  BY <1>1 DEF StartRun
<1>2. CASE RunStep
  <2> USE DEF Refuse
  <2>1. After(run.pc) # "refused"
    <3>1. SUFFICES ASSUME After(run.pc) = "refused" PROVE FALSE
      OBVIOUS
    <3>2. \E i \in DOMAIN Roles[run.kind] : "refused" = Roles[run.kind][i]
      BY <3>1, AfterIsLater
    <3> QED  BY <3>2, RolesInjective DEF Ends
  <2>2. run' # [run EXCEPT !.pc = Done]
    BY <2>1 DEF Done
  <2>3. CASE TailscaleStatus \/ MemberCheck
    BY <2>1, <2>3 DEF TailscaleStatus, MemberCheck, ReadStatus, Done
  <2>4. CASE EndPlay
    BY <2>4 DEF EndPlay
  <2>5. CASE Enroll \/ Deploy
    BY <2>1, <2>5 DEF Enroll, Deploy, Done
  <2>6. CASE Preflight \/ ReadTailnetIp \/ ImmutableCheck \/ Backfill
    BY <2>2, <2>6 DEF Preflight, ReadTailnetIp, ImmutableCheck, Backfill, Go
  <2>7. CASE StartTailscaled \/ Join \/ JoinFails \/ Keep \/ ApplyFirewall \/ Apply \/ StartAgent \/ RestartAgent
    BY <2>2, <2>7 DEF StartTailscaled, Join, JoinFails, Keep, ApplyFirewall, Apply, StartAgent,
       RestartAgent, Go
  <2> QED  BY <1>2, <2>3, <2>4, <2>5, <2>6, <2>7 DEF RunStep
<1>3. CASE Outside
  BY <1>3, OutsideRun
<1>4. CASE UNCHANGED vars
  BY <1>4 DEF vars
<1> QED
  BY <1>1, <1>2, <1>3, <1>4 DEF Next

\* Ids, times and the backfill's mark are no change.
LEMMA ChangedInvStep ==
    Base /\ AddressInv /\ ReviewedInv /\ ChangedInv /\ [Next]_vars => ChangedInv'
<1> SUFFICES ASSUME Base, AddressInv, ReviewedInv, ChangedInv, [Next]_vars PROVE ChangedInv'
  OBVIOUS
<1>1. CASE Preview
  <2>1. /\ run.pc = "preview" /\ UNCHANGED <<inv, node, db>> /\ Manifest' = Manifest
    BY <1>1, PreviewStep DEF Preview, At
  <2>2. inv.member => node.fact = node.ip
    BY <2>1 DEF AddressInv
  <2>3. CASE run'.pc = "enroll" /\ hist'.reviewed = Lines(db, Manifest)
    BY <2>1, <2>2, <2>3 DEF ChangedInv, RefusedMeansChanged
  <2>4. CASE hist'.reviewed = hist.reviewed /\ hist'.changed = hist.changed
    <3>1. /\ ~hist'.changed /\ hist'.reviewed # NoDoc =>
             /\ inv'.member => node'.fact = node'.ip
             /\ hist'.reviewed = Lines(db', Manifest')
      BY <2>1, <2>4 DEF ChangedInv
    <3>2. RefusedMeansChanged'
      <4> SUFFICES ASSUME run'.pc = "refused", run'.why = "fingerprint" PROVE hist'.changed
        BY DEF RefusedMeansChanged
      <4>1. After("preview") # "refused"
        <5>1. SUFFICES ASSUME After("preview") = "refused" PROVE FALSE
          OBVIOUS
        <5>2. \E i \in DOMAIN Roles[run.kind] : "refused" = Roles[run.kind][i]
          BY <5>1, AfterIsLater DEF Base, Fields
        <5> QED  BY <5>2, RolesInjective DEF Ends, Base, Fields
      <4>2. run.mode = "reviewed" /\ hist.reviewed # Lines(db, Manifest)
        BY <1>1, <4>1, PreviewStep
      <4>3. hist.reviewed # NoDoc
        BY <2>1, <4>2 DEF ReviewedInv, Ends
      <4> QED  BY <2>4, <4>2, <4>3 DEF ChangedInv
    <3> QED  BY <3>1, <3>2 DEF ChangedInv
  <2> QED  BY <1>1, <2>3, <2>4, PreviewStep
<1>2. CASE ~Preview
  <2>1. /\ hist'.reviewed = hist.reviewed /\ hist'.changed \in {hist.changed, TRUE}
    BY <1>2, ReviewedStep
  <2>2. RefusedMeansChanged'
    BY <1>2, <2>1, FingerprintStep DEF ChangedInv, RefusedMeansChanged
  <2>3. ASSUME ~hist'.changed, hist'.reviewed # NoDoc
        PROVE  /\ inv'.member => node'.fact = node'.ip
               /\ hist'.reviewed = Lines(db', Manifest')
    <3>1. /\ ~hist.changed /\ inv' = inv /\ (db' = db \/ db' = [db EXCEPT !.latched = TRUE])
          /\ node'.ip = node.ip /\ node'.fact \in {node.fact, node.ip}
      BY <1>2, <2>3, UnchangedStep
    <3>2. (inv.member => node.fact = node.ip) /\ hist.reviewed = Lines(db, Manifest)
      BY <2>1, <2>3, <3>1 DEF ChangedInv
    <3>3. Manifest' = Manifest
      BY <3>1, <3>2 DEF Manifest, NodeTailnet, Base, Shape
    <3>4. Lines(db', Manifest) = Lines(db, Manifest)
      <4>1. /\ db'.node = db.node /\ db'.client = db.client /\ db'.link = db.link
            /\ db'.domain = db.domain /\ db'.cert = db.cert
        BY <3>1 DEF Base, Shape, DbFields
      <4> QED  BY <4>1, LinesKept
    <3> QED  BY <2>1, <3>1, <3>2, <3>3, <3>4
  <2> QED  BY <2>2, <2>3 DEF ChangedInv
<1> QED
  BY <1>1, <1>2

\* Ids, serial lines and times that differ on every preview refuse no phase-2
\* run (controller_seed_preview.py): what it refuses did change since the
\* review.
THEOREM RefusalMeansChange == Spec => []RefusedMeansChanged
<1> DEFINE IInv == AddressInv /\ ReviewedInv /\ ChangedInv
<1>1. Init => Base /\ IInv
  <2> SUFFICES ASSUME Init PROVE IInv
    BY BaseInit
  <2>1. run.pc = "none" /\ hist.reviewed = NoDoc
    BY DEF Init
  <2> QED  BY <2>1 DEF AddressInv, ReviewedInv, ChangedInv, RefusedMeansChanged, Ends
<1>2. Base /\ IInv /\ [Next]_vars => (Base /\ IInv)'
  BY BaseStep, AddressInvStep, ReviewedInvStep, ChangedInvStep
<1>3. IInv => RefusedMeansChanged
  BY DEF ChangedInv
<1> HIDE DEF IInv
<1> QED
  BY <1>1, <1>2, <1>3, PTL DEF Spec
-----------------------------------------------------------------------------
(* The steps of a refusal                                                  *)

\* Where a refusal's steps were followed, the node and the inventory agree,
\* whatever happens to either short of an edit.
AdviceInv == hist.followed => Agrees(node.prefs, inv.flags, inv.tags)

\* Whether tailscale is wanted up is no part of it.
LEMMA AgreesKept ==
    ASSUME NEW prefs, NEW flags, NEW tags, NEW on,
           DOMAIN prefs = PrefFields, Agrees(prefs, flags, tags)
    PROVE  Agrees([prefs EXCEPT !.running = on], flags, tags)
<1> DEFINE after == [prefs EXCEPT !.running = on]
<1>1. /\ after.bools = prefs.bools /\ after.strings = prefs.strings
      /\ after.control = prefs.control /\ after.routes = prefs.routes
      /\ after.snat = prefs.snat /\ after.netfilter = prefs.netfilter
      /\ after.tags = prefs.tags /\ after.exitNode = prefs.exitNode
      /\ after.byHand = prefs.byHand
  BY DEF PrefFields
<1> HIDE DEF after
<1>2. Agrees(after, flags, tags)
  BY <1>1 DEF Agrees
<1> QED
  BY <1>2 DEF after

\* Which inventory and which steps followed a step leaves.
LEMMA FollowedStep ==
    ASSUME Base, [Next]_vars
    PROVE  \/ inv' = inv /\ hist'.followed = hist.followed /\ ~FollowAdvice
           \/ EditInventory /\ ~hist'.followed /\ inv' \in Inventories
           \/ FollowAdvice /\ run'.pc = "none"
<1> USE DEF Base, Shape, HistFields, Fields, RunFields
<1>1. CASE FollowAdvice
  BY <1>1 DEF FollowAdvice
<1>2. CASE EditInventory
  BY <1>2 DEF EditInventory
<1>3. CASE ~FollowAdvice /\ ~EditInventory
  <2>1. CASE Preview
    BY <1>3, <2>1, PreviewStep
  <2>2. CASE RunStep /\ ~Preview
    BY <1>3, <2>2 DEF RunStep, Preflight, StartTailscaled, TailscaleStatus, MemberCheck,
       Join, JoinFails, Keep, ReadTailnetIp, ApplyFirewall, Apply, EndPlay, Enroll, ImmutableCheck,
       Deploy, StartAgent, RestartAgent, Backfill
  <2>3. CASE Outside
    BY <1>3, <2>3 DEF Outside, RunDies, Reboot, DaemonLoads, KeyExpires, Approve,
       TailscaleByHand, DeleteRow, NewToken, ChangeDomain, RecreateClient, Admin
  <2>4. CASE StartRun \/ UNCHANGED vars
    BY <1>3, <2>4 DEF StartRun, vars
  <2> QED  BY <2>1, <2>2, <2>3, <2>4 DEF Next
<1> QED
  BY <1>1, <1>2, <1>3

\* Only a node that is wanted up is refused for its settings.
LEMMA PrefsRefusal == ASSUME Base, RefusedForPrefs PROVE node.prefs.running
<1>1. After(run.pc) # "refused"
  <2>1. SUFFICES ASSUME After(run.pc) = "refused" PROVE FALSE
    OBVIOUS
  <2>2. \E i \in DOMAIN Roles[run.kind] : "refused" = Roles[run.kind][i]
    BY <2>1, AfterIsLater DEF Base, Fields
  <2> QED  BY <2>2, RolesInjective DEF Base, Fields, Ends
<1>2. BackendState = LOGGED_IN_STATE
  BY <1>1 DEF RefusedForPrefs, TailscaleStatus, MemberCheck, ReadStatus, Refuse, Done,
     Base, Fields, RunFields
<1> QED
  BY <1>2 DEF BackendState, LOGGED_IN_STATE, Base, NodeInv

\* No step but an edit of the inventory undoes the steps.
LEMMA AdviceInvStep == Base /\ AdviceInv /\ [Next]_vars => AdviceInv'
<1> SUFFICES ASSUME Base, AdviceInv, [Next]_vars PROVE AdviceInv'
  OBVIOUS
<1> DEFINE set   == Set(node.prefs, inv.flags, SetArgs(node.prefs, inv.flags, inv.tags))
           after == SetByHand(set, inv.flags, inv.tags, Manual(node.prefs, inv.flags, inv.tags))
<1>1. CASE FollowAdvice
  <2>1. node'.prefs = after /\ inv' = inv
    BY <1>1 DEF FollowAdvice, Base, Fields, NodeFields
  <2>2. Agrees(after, inv.flags, inv.tags)
    BY AdviceReconciles DEF Base, Shape
  <2> HIDE DEF after
  <2> QED  BY <2>1, <2>2 DEF AdviceInv
<1>2. CASE EditInventory
  BY <1>2, FollowedStep DEF AdviceInv, EditInventory
<1>3. CASE ~FollowAdvice /\ ~EditInventory
  <2>1. inv' = inv /\ hist'.followed = hist.followed
    BY <1>3, FollowedStep
  <2>2. hist.followed => Agrees(node'.prefs, inv.flags, inv.tags)
    <3> SUFFICES ASSUME Agrees(node.prefs, inv.flags, inv.tags)
                 PROVE  Agrees(node'.prefs, inv.flags, inv.tags)
      BY DEF AdviceInv
    <3>1. DOMAIN node.prefs = PrefFields
      BY DEF Base, Shape
    <3>2. CASE node'.prefs = Joined(inv.flags, inv.tags)
      BY <3>2, JoinedAgrees
    <3>3. ASSUME NEW on, node'.prefs = [node.prefs EXCEPT !.running = on]
          PROVE  Agrees(node'.prefs, inv.flags, inv.tags)
      <4>1. Agrees([node.prefs EXCEPT !.running = on], inv.flags, inv.tags)
        BY <3>1, AgreesKept
      <4> QED  BY <3>3, <4>1
    <3> QED  BY <1>3, <3>2, <3>3, PrefsStep DEF Base
  <2> QED  BY <2>1, <2>2 DEF AdviceInv
<1> QED
  BY <1>1, <1>2, <1>3

\* The steps status.yml names in its refusal are all the node needs: after them,
\* however often it is joined, rebooted or taken down by hand, a run is refused
\* for the settings only over flags of the inventory that no setting of the node
\* can satisfy, until somebody edits the inventory.
THEOREM OnlyFlagsRemain == Spec => AdviceLeavesOnlyFlags
<1>1. Init => Base /\ AdviceInv
  BY BaseInit DEF Init, AdviceInv
<1>2. Base /\ AdviceInv /\ [Next]_vars => (Base /\ AdviceInv)'
  BY BaseStep, AdviceInvStep
<1>3. Base /\ AdviceInv =>
         (RefusedForPrefs /\ hist.followed => Remaining \subseteq Standing(inv.flags))
  BY PrefsRefusal, AgreesMeans DEF AdviceInv, Remaining
<1> QED
  BY <1>1, <1>2, <1>3, PTL DEF Spec, AdviceLeavesOnlyFlags
=============================================================================

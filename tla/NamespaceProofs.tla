--------------------------- MODULE NamespaceProofs ---------------------------
(***************************************************************************)
(* Theorems about the life of a namespace, for any nodes and any failures. *)
(***************************************************************************)
EXTENDS NamespaceLifecycle, TLAPS

-----------------------------------------------------------------------------
(* The parts of the invariant. *)

\* Helpers whose node is gone are known to be out of reach, and while boxes are
\* removed so are all that are left.
OrphansKnown ==
    /\ \A n \in helper : box[n] = "none" => n \in orphan
    /\ at \in {"rm", "left", "stop", "rmleft"} => helper \subseteq orphan

\* A deployment writes its inventory from nothing.
InventoryFresh ==
    /\ at \in {"state", "gone"} => inventory = {}
    /\ cmd \in {"deploy", "keep"} /\ at \in {"clusters", "network", "create"} => inventory = {}

\* How far a deletion that nothing disturbed has come.
DeletionAdvances ==
    clean =>
        /\ at \in {"unmount", "unpause", "helpers"} => listed = Existing
        /\ at = "rm" => todo = Existing
        /\ at \notin {"stop", "rmleft"}
        /\ at \in {"left", "netrm", "files", "state", "gone"} => Existing = {}
        /\ at \in {"files", "state", "gone"} => ~net
        /\ at = "gone" => ~links

Deploys == cmd \in {"deploy", "keep"}
Boxes == wanted \ Cluster

\* How far a deployment has come.
DeploymentAdvances ==
    Deploys =>
        /\ at \in {"create", "hosts"} => todo \subseteq Boxes
        /\ at = "create" /\ clean => \A n \in Boxes \ todo : box[n] = "running"
        /\ at = "hosts" => inventory = Boxes \ todo
        /\ at = "playbook" => inventory = Boxes
        /\ at \in {"hosts", "playbook"} /\ clean => \A n \in Boxes : box[n] = "running"

\* deploy --keep deletes nothing.
KeepDeletesNothing ==
    cmd = "keep" =>
        at \in {"clusters", "network", "create", "hosts", "playbook", "done", "aborted"}

LifeInv ==
    /\ TypeOK
    /\ OrphansKnown /\ InventoryFresh /\ DeletionAdvances
    /\ DeploymentAdvances /\ KeepDeletesNothing

-----------------------------------------------------------------------------
(* The initial state, and the types. *)

LEMMA LifeInit == Init => LifeInv
BY DEF Init, LifeInv, TypeOK, Points, OrphansKnown, InventoryFresh, DeletionAdvances,
       DeploymentAdvances, KeepDeletesNothing, Deploys, Boxes, Existing

LEMMA LifeType == LifeInv /\ [Next]_vars => TypeOK'
<1> SUFFICES ASSUME TypeOK, [Next]_vars PROVE TypeOK'
  BY DEF LifeInv
<1> USE NamespaceAssumption DEF TypeOK, Points, vars, docker, files, process, history,
        Step, Ends, Existing
<1>1. CASE Delete
  <2>1. CASE DeleteClusters \/ NoClusters \/ ListBoxes
    BY <2>1 DEF DeleteClusters, NoClusters, ListBoxes, Remove
  <2>2. CASE Unmount \/ Unpause \/ CleanupHelpers
    BY <2>2 DEF Unmount, Unpause, CleanupHelpers, BestEffort
  <2>3. CASE (\E n \in Node : RemoveOne(n)) \/ BulkRemoved \/ RemoveFails
    BY <2>3 DEF RemoveOne, Remove, BulkRemoved, RemoveFails
  <2>4. CASE ListLeft \/ ListLeftFails \/ StopLeft \/ RemoveLeft \/ RemoveLeftFails
    BY <2>4 DEF ListLeft, ListLeftFails, StopLeft, RemoveLeft, Remove, RemoveLeftFails
  <2>5. CASE RemoveNetwork \/ RemoveInventory \/ RemoveState \/ Deleted
    BY <2>5 DEF RemoveNetwork, RemoveInventory, RemoveState, Deleted
  <2> QED BY <1>1, <2>1, <2>2, <2>3, <2>4, <2>5 DEF Delete
<1>2. CASE Create
  <2>1. CASE CreateClusters
    <3> PICK done \in SUBSET (wanted \cap Cluster) :
          /\ BestEffort(wanted \cap Cluster, done)
          /\ box' = [n \in Node |-> IF n \in done /\ box[n] = "none" THEN "running" ELSE box[n]]
          /\ net' = (net \/ done # {})
      BY <2>1 DEF CreateClusters
    <3>1. clean' \in BOOLEAN /\ net' \in BOOLEAN
      BY DEF BestEffort
    <3> QED BY <2>1, <3>1 DEF CreateClusters
  <2>4. CASE CreateNetwork
    <3>1. net' \in BOOLEAN
      BY <2>4 DEF CreateNetwork
    <3>2. UNCHANGED <<box, mount, helper, links, inventory, listed, clean, orphan, cmd, wanted>>
          /\ at' = "create" /\ todo' = wanted \ Cluster
      BY <2>4 DEF CreateNetwork
    <3> QED BY <3>1, <3>2
  <2>5. CASE Created
    BY <2>5 DEF Created
  <2>2. CASE \E n \in Node : ReuseBox(n) \/ ReuseFails(n) \/ RunBox(n) \/ RunFails(n)
    BY <2>2 DEF ReuseBox, ReuseFails, RunBox, RunFails
  <2>3. CASE (\E n \in Node : AppendInventory(n)) \/ HostsDone \/ RunPlaybook \/ PlaybookFails
    BY <2>3 DEF AppendInventory, HostsDone, RunPlaybook, PlaybookFails
  <2> QED BY <1>2, <2>1, <2>2, <2>3, <2>4, <2>5 DEF Create
<1>3. CASE User
  <2>1. ASSUME NEW c \in {"destroy", "deploy", "keep", "create", "playbook"},
               NEW W \in SUBSET Node, Begin(c, W)
        PROVE  TypeOK'
    BY <2>1 DEF Begin
  <2> QED BY <1>3, <2>1 DEF User
<1>4. CASE Exits \/ Aborts \/ TimesOut \/ CreationTimesOut
  BY <1>4 DEF Exits, Aborts, TimesOut, CreationTimesOut
<1>5. CASE Chaos
  <2> PICK n \in Disturbed : ChaosPauses(n) \/ UserStops(n) \/ ChaosShapes(n)
    BY <1>5 DEF Chaos
  <2>1. clean' \in BOOLEAN
    BY DEF ChaosPauses, UserStops, ChaosShapes, Interferes
  <2>2. UNCHANGED <<net, inventory, at, cmd, wanted, todo, listed>>
    BY DEF ChaosPauses, UserStops, ChaosShapes, Interferes
  <2>3. box' \in [Node -> {"none", "running", "paused", "exited"}]
    BY DEF ChaosPauses, UserStops, ChaosShapes, Interferes
  <2>4. mount' \in SUBSET Node /\ helper' \in SUBSET Node /\ orphan' \in SUBSET Node
    BY DEF ChaosPauses, UserStops, ChaosShapes, Interferes
  <2>5. links' \in BOOLEAN
    BY DEF ChaosPauses, UserStops, ChaosShapes, Interferes
  <2> QED BY <2>1, <2>2, <2>3, <2>4, <2>5
<1>6. CASE UNCHANGED vars
  BY <1>6
<1> QED BY <1>1, <1>2, <1>3, <1>4, <1>5, <1>6 DEF Next, Process

-----------------------------------------------------------------------------
(* The parts of the invariant, one by one. *)

LEMMA LifeOrphans == LifeInv /\ [Next]_vars => OrphansKnown'
<1> SUFFICES ASSUME TypeOK, OrphansKnown, [Next]_vars PROVE OrphansKnown'
  BY DEF LifeInv
<1> USE NamespaceAssumption DEF TypeOK, OrphansKnown, vars, docker, files, process, history,
        Step, Ends, Existing
<1>1. CASE Delete
  <2>1. CASE DeleteClusters \/ NoClusters
    BY <2>1 DEF DeleteClusters, NoClusters, Remove
  <2>2. CASE ListBoxes
    BY <2>2 DEF ListBoxes
  <2>3. CASE Unmount
    BY <2>3 DEF Unmount, BestEffort
  <2>4. CASE Unpause
    BY <2>4 DEF Unpause, BestEffort
  <2>5. CASE CleanupHelpers
    BY <2>5 DEF CleanupHelpers
  <2>6. CASE \E n \in Node : RemoveOne(n)
    BY <2>6 DEF RemoveOne, Remove
  <2>7. CASE BulkRemoved \/ RemoveFails
    BY <2>7 DEF BulkRemoved, RemoveFails
  <2>8. CASE ListLeft \/ ListLeftFails
    BY <2>8 DEF ListLeft, ListLeftFails
  <2>9. CASE StopLeft \/ RemoveLeft \/ RemoveLeftFails
    BY <2>9 DEF StopLeft, RemoveLeft, Remove, RemoveLeftFails
  <2>10. CASE RemoveNetwork
    BY <2>10 DEF RemoveNetwork, Alive
  <2>11. CASE RemoveInventory \/ RemoveState \/ Deleted
    BY <2>11 DEF RemoveInventory, RemoveState, Deleted
  <2> QED BY <1>1, <2>1, <2>2, <2>3, <2>4, <2>5, <2>6, <2>7, <2>8, <2>9, <2>10, <2>11 DEF Delete
<1>2. CASE Create
  <2>1. CASE CreateClusters
    BY <2>1 DEF CreateClusters, BestEffort
  <2>2. CASE CreateNetwork
    BY <2>2 DEF CreateNetwork
  <2>3. CASE Created
    BY <2>3 DEF Created
  <2>4. CASE \E n \in Node : ReuseBox(n) \/ ReuseFails(n) \/ RunBox(n) \/ RunFails(n)
    BY <2>4 DEF ReuseBox, ReuseFails, RunBox, RunFails
  <2>5. CASE \E n \in Node : AppendInventory(n)
    BY <2>5 DEF AppendInventory
  <2>6. CASE HostsDone
    BY <2>6 DEF HostsDone
  <2>7. CASE RunPlaybook \/ PlaybookFails
    BY <2>7 DEF RunPlaybook, PlaybookFails
  <2> QED BY <1>2, <2>1, <2>2, <2>3, <2>4, <2>5, <2>6, <2>7 DEF Create
<1>3. CASE User
  <2>1. ASSUME NEW c \in {"destroy", "deploy", "keep", "create", "playbook"},
               NEW W \in SUBSET Node, Begin(c, W)
        PROVE  OrphansKnown'
    BY <2>1 DEF Begin
  <2> QED BY <1>3, <2>1 DEF User
<1>4. CASE Exits \/ Aborts
  BY <1>4 DEF Exits, Aborts
<1>5. CASE TimesOut \/ CreationTimesOut
  BY <1>5 DEF TimesOut, CreationTimesOut
<1>6. CASE Chaos
  <2> PICK n \in Disturbed : ChaosPauses(n) \/ UserStops(n) \/ ChaosShapes(n)
    BY <1>6 DEF Chaos
  <2> QED BY DEF ChaosPauses, UserStops, ChaosShapes, Interferes
<1>7. CASE UNCHANGED vars
  BY <1>7
<1> QED BY <1>1, <1>2, <1>3, <1>4, <1>5, <1>6, <1>7 DEF Next, Process

LEMMA LifeInventory == LifeInv /\ [Next]_vars => InventoryFresh'
<1> SUFFICES ASSUME TypeOK, InventoryFresh, KeepDeletesNothing, [Next]_vars PROVE InventoryFresh'
  BY DEF LifeInv
<1> USE NamespaceAssumption DEF TypeOK, InventoryFresh, vars, docker, files, process, history,
        Step, Ends, Existing, KeepDeletesNothing
<1>1. CASE Delete
  <2>1. CASE DeleteClusters \/ NoClusters
    BY <2>1 DEF DeleteClusters, NoClusters, Remove
  <2>2. CASE ListBoxes
    BY <2>2 DEF ListBoxes
  <2>3. CASE Unmount
    BY <2>3 DEF Unmount, BestEffort
  <2>4. CASE Unpause
    BY <2>4 DEF Unpause, BestEffort
  <2>5. CASE CleanupHelpers
    BY <2>5 DEF CleanupHelpers
  <2>6. CASE \E n \in Node : RemoveOne(n)
    BY <2>6 DEF RemoveOne, Remove
  <2>7. CASE BulkRemoved \/ RemoveFails
    BY <2>7 DEF BulkRemoved, RemoveFails
  <2>8. CASE ListLeft \/ ListLeftFails
    BY <2>8 DEF ListLeft, ListLeftFails
  <2>9. CASE StopLeft \/ RemoveLeft \/ RemoveLeftFails
    BY <2>9 DEF StopLeft, RemoveLeft, Remove, RemoveLeftFails
  <2>10. CASE RemoveNetwork
    BY <2>10 DEF RemoveNetwork, Alive
  <2>11. CASE RemoveInventory \/ RemoveState \/ Deleted
    BY <2>11 DEF RemoveInventory, RemoveState, Deleted
  <2> QED BY <1>1, <2>1, <2>2, <2>3, <2>4, <2>5, <2>6, <2>7, <2>8, <2>9, <2>10, <2>11 DEF Delete
<1>2. CASE Create
  <2>1. CASE CreateClusters
    BY <2>1 DEF CreateClusters, BestEffort
  <2>2. CASE CreateNetwork
    BY <2>2 DEF CreateNetwork
  <2>3. CASE Created
    BY <2>3 DEF Created
  <2>4. CASE \E n \in Node : ReuseBox(n) \/ ReuseFails(n) \/ RunBox(n) \/ RunFails(n)
    BY <2>4 DEF ReuseBox, ReuseFails, RunBox, RunFails
  <2>5. CASE \E n \in Node : AppendInventory(n)
    BY <2>5 DEF AppendInventory
  <2>6. CASE HostsDone
    BY <2>6 DEF HostsDone
  <2>7. CASE RunPlaybook \/ PlaybookFails
    BY <2>7 DEF RunPlaybook, PlaybookFails
  <2> QED BY <1>2, <2>1, <2>2, <2>3, <2>4, <2>5, <2>6, <2>7 DEF Create
<1>3. CASE User
  <2>1. ASSUME NEW c \in {"destroy", "deploy", "keep", "create", "playbook"},
               NEW W \in SUBSET Node, Begin(c, W)
        PROVE  InventoryFresh'
    BY <2>1 DEF Begin
  <2> QED BY <1>3, <2>1 DEF User
<1>4. CASE Exits \/ Aborts
  BY <1>4 DEF Exits, Aborts
<1>5. CASE TimesOut \/ CreationTimesOut
  BY <1>5 DEF TimesOut, CreationTimesOut
<1>6. CASE Chaos
  <2> PICK n \in Disturbed : ChaosPauses(n) \/ UserStops(n) \/ ChaosShapes(n)
    BY <1>6 DEF Chaos
  <2> QED BY DEF ChaosPauses, UserStops, ChaosShapes, Interferes
<1>7. CASE UNCHANGED vars
  BY <1>7
<1> QED BY <1>1, <1>2, <1>3, <1>4, <1>5, <1>6, <1>7 DEF Next, Process

LEMMA LifeDeletion == LifeInv /\ [Next]_vars => DeletionAdvances'
<1> SUFFICES ASSUME TypeOK, DeletionAdvances, [Next]_vars PROVE DeletionAdvances'
  BY DEF LifeInv
<1> USE NamespaceAssumption DEF TypeOK, DeletionAdvances, vars, docker, files, process, history,
        Step, Ends, Existing
<1>1. CASE Delete
  <2>1. CASE DeleteClusters \/ NoClusters
    BY <2>1 DEF DeleteClusters, NoClusters, Remove
  <2>2. CASE ListBoxes
    BY <2>2 DEF ListBoxes
  <2>3. CASE Unmount
    BY <2>3 DEF Unmount, BestEffort
  <2>4. CASE Unpause
    BY <2>4 DEF Unpause, BestEffort
  <2>5. CASE CleanupHelpers
    BY <2>5 DEF CleanupHelpers
  <2>6. CASE \E n \in Node : RemoveOne(n)
    BY <2>6 DEF RemoveOne, Remove
  <2>7. CASE BulkRemoved \/ RemoveFails
    BY <2>7 DEF BulkRemoved, RemoveFails
  <2>8. CASE ListLeft \/ ListLeftFails
    BY <2>8 DEF ListLeft, ListLeftFails
  <2>9. CASE StopLeft \/ RemoveLeft \/ RemoveLeftFails
    BY <2>9 DEF StopLeft, RemoveLeft, Remove, RemoveLeftFails
  <2>10. CASE RemoveNetwork
    BY <2>10 DEF RemoveNetwork, Alive
  <2>11. CASE RemoveInventory \/ RemoveState \/ Deleted
    BY <2>11 DEF RemoveInventory, RemoveState, Deleted
  <2> QED BY <1>1, <2>1, <2>2, <2>3, <2>4, <2>5, <2>6, <2>7, <2>8, <2>9, <2>10, <2>11 DEF Delete
<1>2. CASE Create
  <2>1. CASE CreateClusters
    BY <2>1 DEF CreateClusters, BestEffort
  <2>2. CASE CreateNetwork
    BY <2>2 DEF CreateNetwork
  <2>3. CASE Created
    BY <2>3 DEF Created
  <2>4. CASE \E n \in Node : ReuseBox(n) \/ ReuseFails(n) \/ RunBox(n) \/ RunFails(n)
    BY <2>4 DEF ReuseBox, ReuseFails, RunBox, RunFails
  <2>5. CASE \E n \in Node : AppendInventory(n)
    BY <2>5 DEF AppendInventory
  <2>6. CASE HostsDone
    BY <2>6 DEF HostsDone
  <2>7. CASE RunPlaybook \/ PlaybookFails
    BY <2>7 DEF RunPlaybook, PlaybookFails
  <2> QED BY <1>2, <2>1, <2>2, <2>3, <2>4, <2>5, <2>6, <2>7 DEF Create
<1>3. CASE User
  <2>1. ASSUME NEW c \in {"destroy", "deploy", "keep", "create", "playbook"},
               NEW W \in SUBSET Node, Begin(c, W)
        PROVE  DeletionAdvances'
    BY <2>1 DEF Begin
  <2> QED BY <1>3, <2>1 DEF User
<1>4. CASE Exits \/ Aborts
  BY <1>4 DEF Exits, Aborts
<1>5. CASE TimesOut \/ CreationTimesOut
  BY <1>5 DEF TimesOut, CreationTimesOut
<1>6. CASE Chaos
  <2> PICK n \in Disturbed : ChaosPauses(n) \/ UserStops(n) \/ ChaosShapes(n)
    BY <1>6 DEF Chaos
  <2> QED BY DEF ChaosPauses, UserStops, ChaosShapes, Interferes
<1>7. CASE UNCHANGED vars
  BY <1>7
<1> QED BY <1>1, <1>2, <1>3, <1>4, <1>5, <1>6, <1>7 DEF Next, Process

LEMMA LifeDeployment == LifeInv /\ [Next]_vars => DeploymentAdvances'
<1> SUFFICES ASSUME TypeOK, DeploymentAdvances, InventoryFresh, [Next]_vars PROVE DeploymentAdvances'
  BY DEF LifeInv
<1> USE NamespaceAssumption DEF TypeOK, DeploymentAdvances, vars, docker, files, process, history,
        Step, Ends, Existing, Deploys, Boxes, InventoryFresh
<1>1. CASE Delete
  <2>1. CASE DeleteClusters \/ NoClusters
    BY <2>1 DEF DeleteClusters, NoClusters, Remove
  <2>2. CASE ListBoxes
    BY <2>2 DEF ListBoxes
  <2>3. CASE Unmount
    BY <2>3 DEF Unmount, BestEffort
  <2>4. CASE Unpause
    BY <2>4 DEF Unpause, BestEffort
  <2>5. CASE CleanupHelpers
    BY <2>5 DEF CleanupHelpers
  <2>6. CASE \E n \in Node : RemoveOne(n)
    BY <2>6 DEF RemoveOne, Remove
  <2>7. CASE BulkRemoved \/ RemoveFails
    BY <2>7 DEF BulkRemoved, RemoveFails
  <2>8. CASE ListLeft \/ ListLeftFails
    BY <2>8 DEF ListLeft, ListLeftFails
  <2>9. CASE StopLeft \/ RemoveLeft \/ RemoveLeftFails
    BY <2>9 DEF StopLeft, RemoveLeft, Remove, RemoveLeftFails
  <2>10. CASE RemoveNetwork
    BY <2>10 DEF RemoveNetwork, Alive
  <2>11. CASE RemoveInventory \/ RemoveState \/ Deleted
    BY <2>11 DEF RemoveInventory, RemoveState, Deleted
  <2> QED BY <1>1, <2>1, <2>2, <2>3, <2>4, <2>5, <2>6, <2>7, <2>8, <2>9, <2>10, <2>11 DEF Delete
<1>2. CASE Create
  <2>1. CASE CreateClusters
    BY <2>1 DEF CreateClusters, BestEffort
  <2>2. CASE CreateNetwork
    BY <2>2 DEF CreateNetwork
  <2>3. CASE Created
    BY <2>3 DEF Created
  <2>4. CASE \E n \in Node : ReuseBox(n) \/ ReuseFails(n) \/ RunBox(n) \/ RunFails(n)
    BY <2>4 DEF ReuseBox, ReuseFails, RunBox, RunFails
  <2>5. CASE \E n \in Node : AppendInventory(n)
    BY <2>5 DEF AppendInventory
  <2>6. CASE HostsDone
    BY <2>6 DEF HostsDone
  <2>7. CASE RunPlaybook \/ PlaybookFails
    BY <2>7 DEF RunPlaybook, PlaybookFails
  <2> QED BY <1>2, <2>1, <2>2, <2>3, <2>4, <2>5, <2>6, <2>7 DEF Create
<1>3. CASE User
  <2>1. ASSUME NEW c \in {"destroy", "deploy", "keep", "create", "playbook"},
               NEW W \in SUBSET Node, Begin(c, W)
        PROVE  DeploymentAdvances'
    BY <2>1 DEF Begin
  <2> QED BY <1>3, <2>1 DEF User
<1>4. CASE Exits \/ Aborts
  BY <1>4 DEF Exits, Aborts
<1>5. CASE TimesOut \/ CreationTimesOut
  BY <1>5 DEF TimesOut, CreationTimesOut
<1>6. CASE Chaos
  <2> PICK n \in Disturbed : ChaosPauses(n) \/ UserStops(n) \/ ChaosShapes(n)
    BY <1>6 DEF Chaos
  <2> QED BY DEF ChaosPauses, UserStops, ChaosShapes, Interferes
<1>7. CASE UNCHANGED vars
  BY <1>7
<1> QED BY <1>1, <1>2, <1>3, <1>4, <1>5, <1>6, <1>7 DEF Next, Process

LEMMA LifeKeep == LifeInv /\ [Next]_vars => KeepDeletesNothing'
<1> SUFFICES ASSUME TypeOK, KeepDeletesNothing, [Next]_vars PROVE KeepDeletesNothing'
  BY DEF LifeInv
<1> USE NamespaceAssumption DEF TypeOK, KeepDeletesNothing, vars, docker, files, process, history,
        Step, Ends, Existing
<1>1. CASE Delete
  <2>1. CASE DeleteClusters \/ NoClusters
    BY <2>1 DEF DeleteClusters, NoClusters, Remove
  <2>2. CASE ListBoxes
    BY <2>2 DEF ListBoxes
  <2>3. CASE Unmount
    BY <2>3 DEF Unmount, BestEffort
  <2>4. CASE Unpause
    BY <2>4 DEF Unpause, BestEffort
  <2>5. CASE CleanupHelpers
    BY <2>5 DEF CleanupHelpers
  <2>6. CASE \E n \in Node : RemoveOne(n)
    BY <2>6 DEF RemoveOne, Remove
  <2>7. CASE BulkRemoved \/ RemoveFails
    BY <2>7 DEF BulkRemoved, RemoveFails
  <2>8. CASE ListLeft \/ ListLeftFails
    BY <2>8 DEF ListLeft, ListLeftFails
  <2>9. CASE StopLeft \/ RemoveLeft \/ RemoveLeftFails
    BY <2>9 DEF StopLeft, RemoveLeft, Remove, RemoveLeftFails
  <2>10. CASE RemoveNetwork
    BY <2>10 DEF RemoveNetwork, Alive
  <2>11. CASE RemoveInventory \/ RemoveState \/ Deleted
    BY <2>11 DEF RemoveInventory, RemoveState, Deleted
  <2> QED BY <1>1, <2>1, <2>2, <2>3, <2>4, <2>5, <2>6, <2>7, <2>8, <2>9, <2>10, <2>11 DEF Delete
<1>2. CASE Create
  <2>1. CASE CreateClusters
    BY <2>1 DEF CreateClusters, BestEffort
  <2>2. CASE CreateNetwork
    BY <2>2 DEF CreateNetwork
  <2>3. CASE Created
    BY <2>3 DEF Created
  <2>4. CASE \E n \in Node : ReuseBox(n) \/ ReuseFails(n) \/ RunBox(n) \/ RunFails(n)
    BY <2>4 DEF ReuseBox, ReuseFails, RunBox, RunFails
  <2>5. CASE \E n \in Node : AppendInventory(n)
    BY <2>5 DEF AppendInventory
  <2>6. CASE HostsDone
    BY <2>6 DEF HostsDone
  <2>7. CASE RunPlaybook \/ PlaybookFails
    BY <2>7 DEF RunPlaybook, PlaybookFails
  <2> QED BY <1>2, <2>1, <2>2, <2>3, <2>4, <2>5, <2>6, <2>7 DEF Create
<1>3. CASE User
  <2>1. ASSUME NEW c \in {"destroy", "deploy", "keep", "create", "playbook"},
               NEW W \in SUBSET Node, Begin(c, W)
        PROVE  KeepDeletesNothing'
    BY <2>1 DEF Begin
  <2> QED BY <1>3, <2>1 DEF User
<1>4. CASE Exits \/ Aborts
  BY <1>4 DEF Exits, Aborts
<1>5. CASE TimesOut \/ CreationTimesOut
  BY <1>5 DEF TimesOut, CreationTimesOut
<1>6. CASE Chaos
  <2> PICK n \in Disturbed : ChaosPauses(n) \/ UserStops(n) \/ ChaosShapes(n)
    BY <1>6 DEF Chaos
  <2> QED BY DEF ChaosPauses, UserStops, ChaosShapes, Interferes
<1>7. CASE UNCHANGED vars
  BY <1>7
<1> QED BY <1>1, <1>2, <1>3, <1>4, <1>5, <1>6, <1>7 DEF Next, Process

-----------------------------------------------------------------------------
(* The theorems. *)

LEMMA LifeNext == LifeInv /\ [Next]_vars => LifeInv'
BY LifeType, LifeOrphans, LifeInventory, LifeDeletion, LifeDeployment, LifeKeep DEF LifeInv

LEMMA LifeAlways == Spec => []LifeInv
BY LifeInit, LifeNext, PTL DEF Spec

\* deleteNamespace, createNamespace, deployHosts and what disturbs them keep to
\* the types of the state.
THEOREM TypeCorrect == Spec => []TypeOK
<1>1. LifeInv => TypeOK
  BY DEF LifeInv
<1> QED BY LifeAlways, <1>1, PTL

\* deleteNamespace, undisturbed, leaves no container, network, inventory, chaos
\* state or helper that it could have found, whatever is left of the commands before.
THEOREM DestroyIsComplete == Spec => []DestroyLeavesNothing
<1>1. LifeInv => DestroyLeavesNothing
  BY DEF LifeInv, TypeOK, DestroyLeavesNothing, OrphansKnown, InventoryFresh,
         DeletionAdvances, Existing
<1> QED BY LifeAlways, <1>1, PTL

\* runPlaybook of an undisturbed deployment finds an inventory of the nodes of the
\* command line, no more and no less, and all of them running.
THEOREM PlaybookIsComplete == Spec => []PlaybookReachesAll
<1>1. LifeInv => PlaybookReachesAll
  BY DEF LifeInv, TypeOK, PlaybookReachesAll, DeploymentAdvances, Deploys, Boxes
<1> QED BY LifeAlways, <1>1, PTL

\* No step of deploy --keep, whichever fails, removes a container or the chaos
\* state, or touches a node its command line does not name.
THEOREM KeepIsSafe == Spec => KeepSparesNodes
<1> DEFINE A == cmd = "keep" /\ at # "idle" /\ ~Chaos =>
                  /\ Existing \subseteq Existing' /\ links' = links
                  /\ \A n \in Node : box'[n] # box[n] => n \in wanted
<1>1. LifeInv /\ [Next]_vars => [A]_vars
  <2> SUFFICES ASSUME TypeOK, KeepDeletesNothing, DeploymentAdvances, Next,
                      cmd = "keep", at # "idle", ~Chaos
               PROVE  /\ Existing \subseteq Existing' /\ links' = links
                      /\ \A n \in Node : box'[n] # box[n] => n \in wanted
    BY DEF LifeInv
  <2> USE NamespaceAssumption DEF TypeOK, KeepDeletesNothing, Existing,
          docker, files, process, history, Step, Ends
  <2>1. ~Delete /\ ~TimesOut /\ ~User
    BY DEF Delete, DeleteClusters, NoClusters, ListBoxes, Unmount, Unpause, CleanupHelpers,
           RemoveOne, BulkRemoved, RemoveFails, ListLeft, ListLeftFails, StopLeft, RemoveLeft,
           RemoveLeftFails, RemoveNetwork, RemoveInventory, RemoveState, Deleted, TimesOut,
           User, Begin
  <2>2. CASE CreateClusters
    BY <2>2 DEF CreateClusters, BestEffort
  <2>3. CASE CreateNetwork \/ Created \/ HostsDone \/ RunPlaybook \/ PlaybookFails
    BY <2>3 DEF CreateNetwork, Created, HostsDone, RunPlaybook, PlaybookFails
  <2>4. CASE \E n \in Node : ReuseBox(n) \/ ReuseFails(n) \/ RunBox(n) \/ RunFails(n)
    BY <2>4 DEF ReuseBox, ReuseFails, RunBox, RunFails, DeploymentAdvances, Deploys, Boxes
  <2>5. CASE \E n \in Node : AppendInventory(n)
    BY <2>5 DEF AppendInventory
  <2>6. CASE Exits \/ Aborts \/ CreationTimesOut
    BY <2>6 DEF Exits, Aborts, CreationTimesOut
  <2> QED BY <2>1, <2>2, <2>3, <2>4, <2>5, <2>6 DEF Next, Process, Create
<1> QED BY LifeAlways, <1>1, PTL DEF Spec, KeepSparesNodes

-----------------------------------------------------------------------------
(* A destroy that ends.  The bulk docker rm -f gives up on what docker cannot  *)
(* kill and on a paused node, and the mounts are dropped before nodes are      *)
(* unpaused: a paused client would keep its mount.                             *)

CanEnd == Stubborn = {} /\ Disturbed \cap Client = {}

MountsEnd ==
    /\ mount \subseteq Client
    /\ \A n \in Client : box[n] # "paused"
    /\ \A n \in mount : box[n] = "running"
    /\ clean /\ at \in {"unpause", "helpers", "rm"} => mount = {}
    /\ clean /\ at \in {"helpers", "rm"} => \A n \in Node : box[n] # "paused"

\* Without stubborn nodes, and when chaos keeps its hands off the clients of the
\* NFS share, an undisturbed deleteNamespace never ends at its docker rm -f.
THEOREM DestroyEnds == CanEnd /\ Spec => DestroySucceeds
<1> SUFFICES ASSUME CanEnd PROVE Spec => DestroySucceeds
  OBVIOUS
<1>1. Init => MountsEnd
  BY NamespaceAssumption DEF Init, MountsEnd
<1>2. LifeInv /\ MountsEnd /\ [Next]_vars => MountsEnd'
  <2> SUFFICES ASSUME TypeOK, DeletionAdvances, MountsEnd, [Next]_vars PROVE MountsEnd'
    BY DEF LifeInv
  <2> USE CanEnd, NamespaceAssumption DEF TypeOK, MountsEnd, CanEnd, vars, docker, files,
          process, history, Step, Ends, Existing
  <2>1. CASE Delete
    <3>1. CASE DeleteClusters \/ NoClusters \/ ListBoxes
      BY <3>1 DEF DeleteClusters, NoClusters, ListBoxes, Remove
    <3>2. CASE Unmount
      BY <3>2 DEF Unmount, BestEffort, DeletionAdvances
    <3>3. CASE Unpause
      BY <3>3 DEF Unpause, BestEffort, DeletionAdvances
    <3>4. CASE CleanupHelpers
      BY <3>4 DEF CleanupHelpers
    <3>5. CASE \E n \in Node : RemoveOne(n)
      BY <3>5 DEF RemoveOne, Remove
    <3>6. CASE BulkRemoved \/ RemoveFails \/ ListLeft \/ ListLeftFails
      BY <3>6 DEF BulkRemoved, RemoveFails, ListLeft, ListLeftFails
    <3>7. CASE StopLeft \/ RemoveLeft \/ RemoveLeftFails
      BY <3>7 DEF StopLeft, RemoveLeft, Remove, RemoveLeftFails
    <3>8. CASE RemoveNetwork \/ RemoveInventory \/ RemoveState \/ Deleted
      BY <3>8 DEF RemoveNetwork, RemoveInventory, RemoveState, Deleted
    <3> QED BY <2>1, <3>1, <3>2, <3>3, <3>4, <3>5, <3>6, <3>7, <3>8 DEF Delete
  <2>2. CASE Create
    <3>1. CASE CreateClusters
      BY <3>1 DEF CreateClusters
    <3>2. CASE CreateNetwork \/ Created \/ HostsDone \/ PlaybookFails
      BY <3>2 DEF CreateNetwork, Created, HostsDone, PlaybookFails
    <3>3. CASE \E n \in Node : ReuseBox(n) \/ ReuseFails(n) \/ RunBox(n) \/ RunFails(n)
      BY <3>3 DEF ReuseBox, ReuseFails, RunBox, RunFails
    <3>4. CASE (\E n \in Node : AppendInventory(n)) \/ RunPlaybook
      <4>1. CASE RunPlaybook
        BY <4>1 DEF RunPlaybook
      <4> QED BY <3>4, <4>1 DEF AppendInventory
    <3> QED BY <2>2, <3>1, <3>2, <3>3, <3>4 DEF Create
  <2>3. CASE User \/ Exits \/ Aborts \/ TimesOut \/ CreationTimesOut
    BY <2>3 DEF User, Begin, Exits, Aborts, TimesOut, CreationTimesOut
  <2>4. CASE Chaos
    <3> PICK n \in Disturbed : ChaosPauses(n) \/ UserStops(n) \/ ChaosShapes(n)
      BY <2>4 DEF Chaos
    <3> QED BY DEF ChaosPauses, UserStops, ChaosShapes, Interferes
  <2>5. CASE UNCHANGED vars
    BY <2>5
  <2> QED BY <2>1, <2>2, <2>3, <2>4, <2>5 DEF Next, Process
<1>3. LifeInv /\ MountsEnd /\ [Next]_vars =>
        [clean' /\ at \in {"rm", "rmleft"} => at' # "aborted"]_vars
  <2> SUFFICES ASSUME TypeOK, DeletionAdvances, MountsEnd, Next,
                      clean', at \in {"rm", "rmleft"}, at' = "aborted"
               PROVE  FALSE
    BY DEF LifeInv
  <2>1. ~Create /\ ~Exits /\ ~Aborts /\ ~TimesOut /\ ~CreationTimesOut /\ ~User /\ ~Chaos
    BY DEF Create, CreateClusters, CreateNetwork, ReuseBox, ReuseFails, RunBox, RunFails, Created,
           AppendInventory, HostsDone, RunPlaybook, PlaybookFails, Exits, Aborts, TimesOut,
           CreationTimesOut, User, Begin, Chaos, ChaosPauses, UserStops, ChaosShapes, Interferes, process, Step
  <2>2. RemoveFails \/ RemoveLeftFails
    BY <2>1 DEF Next, Process, Delete, DeleteClusters, NoClusters, ListBoxes, Unmount, Unpause,
           CleanupHelpers, RemoveOne, BulkRemoved, ListLeft, ListLeftFails, StopLeft, RemoveLeft,
           RemoveNetwork, RemoveInventory, RemoveState, Deleted, Step
  <2>3. clean
    BY <2>2 DEF RemoveFails, RemoveLeftFails, history
  <2>4. at = "rm" /\ RemoveFails
    BY <2>2, <2>3 DEF DeletionAdvances, RemoveLeftFails, RemoveFails
  <2>5. PICK n \in todo : box[n] # "none" /\ (~Removable(n) \/ box[n] = "paused")
    BY <2>4 DEF RemoveFails, Existing
  <2> QED BY <2>3, <2>4, <2>5, CanEnd DEF MountsEnd, TypeOK, CanEnd, Removable
<1> QED BY LifeAlways, <1>1, <1>2, <1>3, PTL DEF Spec, DestroySucceeds

=============================================================================

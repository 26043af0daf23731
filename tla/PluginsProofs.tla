--------------------------- MODULE PluginsProofs ---------------------------
(***************************************************************************)
(* Proofs about Plugins, for any packages and any components, and any      *)
(* number of versions, requests and failures: first what holds whatever    *)
(* the names of the components, then what needs them to be distinct.       *)
(***************************************************************************)
EXTENDS Plugins, FiniteSetTheorems, TLAPS

Consistent(r) == \A a, b \in Names : r.relations[a][b] = r.relations[b][a]

\* A registry of the right type whose lists agree.
Sound(r) == r \in Registry /\ Consistent(r)

IInv == TypeOK /\ \A x \in Processes : Sound(registry[x])

-----------------------------------------------------------------------------
(* The relationship manager *)

\* A relation enters two lists, once each: the entries are as many both ways.
LEMMA EntriesSymmetric ==
  ASSUME NEW P \in SUBSET (Classes \X Names), NEW a \in Names, NEW b \in Names
  PROVE  Entries(P, a, b) \in Nat /\ Entries(P, a, b) = Entries(P, b, a)
<1> DEFINE from(x, y) == {p \in P : NameOf[p[1]] = x /\ p[2] = y}
<1>1. IsFiniteSet(P)
  <2>1. IsFiniteSet(Classes \X Names)  BY RegistryAssumption, FS_Product
  <2> QED  BY <2>1, FS_Subset
<1>2. ASSUME NEW x, NEW y  PROVE Cardinality(from(x, y)) \in Nat
  <2>1. IsFiniteSet(from(x, y))  BY <1>1, FS_Subset
  <2> QED  BY <2>1, FS_CardinalityType
<1>3. Entries(P, a, b) = Cardinality(from(a, b)) + Cardinality(from(b, a))
  BY DEF Entries
<1>4. Entries(P, b, a) = Cardinality(from(b, a)) + Cardinality(from(a, b))
  BY DEF Entries
<1> HIDE DEF from
<1> QED  BY <1>2, <1>3, <1>4

\* The relations of classes are pairs of a class and a name.
LEMMA RelationsTyped ==
  ASSUME NEW C \in SUBSET Classes
  PROVE  RelationsOf(C) \in SUBSET (Classes \X Names)
BY DEF RelationsOf

\* register_component keeps the lists consistent, over whatever is there.
LEMMA RegisterSound ==
  ASSUME NEW r, Sound(r), NEW C \in SUBSET Classes, NEW new \in RegisterAll(r, C)
  PROVE  Sound(new)
<1>1. PICK classes \in Overwrite(r.classes, C) :
        new = [classes |-> classes, relations |-> AddRelations(r.relations, RelationsOf(C))]
  BY DEF RegisterAll
<1>2. r.classes \in [Names -> Classes \cup {NoClass}] /\ r.relations \in [Names -> [Names -> Nat]]
  BY DEF Sound, Registry
<1>3. classes \in [Names -> Classes \cup {NoClass}]
  BY <1>2 DEF Overwrite
<1>4. \A a, b \in Names : /\ Entries(RelationsOf(C), a, b) \in Nat
                          /\ Entries(RelationsOf(C), a, b) = Entries(RelationsOf(C), b, a)
  BY RelationsTyped, EntriesSymmetric
<1>5. AddRelations(r.relations, RelationsOf(C)) \in [Names -> [Names -> Nat]]
  BY <1>2, <1>4 DEF AddRelations
<1>6. Consistent(new)
  BY <1>1, <1>4 DEF Sound, Consistent, AddRelations
<1> QED  BY <1>1, <1>3, <1>5, <1>6 DEF Sound, Registry

\* Removing relations that are there keeps the lists consistent.
LEMMA RemoveSound ==
  ASSUME NEW r, Sound(r), NEW C \in SUBSET Classes, NEW P \in SUBSET (Classes \X Names),
         HasRelations(r.relations, P)
  PROVE  Sound([classes |-> Pop(r.classes, C), relations |-> RemoveRelations(r.relations, P)])
<1>1. r.classes \in [Names -> Classes \cup {NoClass}] /\ r.relations \in [Names -> [Names -> Nat]]
  BY DEF Sound, Registry
<1>2. Pop(r.classes, C) \in [Names -> Classes \cup {NoClass}]
  BY <1>1 DEF Pop
<1>3. \A a, b \in Names : /\ Entries(P, a, b) \in Nat
                          /\ Entries(P, a, b) = Entries(P, b, a)
                          /\ Entries(P, a, b) <= r.relations[a][b]
  BY EntriesSymmetric DEF HasRelations
<1>4. RemoveRelations(r.relations, P) \in [Names -> [Names -> Nat]]
  <2>1. \A a, b \in Names : r.relations[a][b] - Entries(P, a, b) \in Nat
    BY <1>1, <1>3
  <2> QED  BY <2>1 DEF RemoveRelations
<1>5. \A a, b \in Names :
        RemoveRelations(r.relations, P)[a][b] = RemoveRelations(r.relations, P)[b][a]
  BY <1>3 DEF Sound, Consistent, RemoveRelations
<1> QED  BY <1>2, <1>4, <1>5 DEF Sound, Registry, Consistent

\* unregister_component keeps them consistent even when it raises half-way.
LEMMA UnregisterSound ==
  ASSUME NEW r, Sound(r), NEW C \in SUBSET Classes, NEW left \in UnregisterAll(r, C)
  PROVE  Sound(left)
<1>1. CASE CanUnregister(r, C)
  <2>1. left = [classes |-> Pop(r.classes, C),
                relations |-> RemoveRelations(r.relations, RelationsOf(C))]
    BY <1>1 DEF UnregisterAll, Unregister
  <2>2. HasRelations(r.relations, RelationsOf(C))  BY <1>1 DEF CanUnregister
  <2> QED  BY <2>1, <2>2, RelationsTyped, RemoveSound
<1>2. CASE ~CanUnregister(r, C)
  <2>1. left \in UnregisterRaises(r, C)  BY <1>2 DEF UnregisterAll
  <2>2. PICK D \in SUBSET C, P \in SUBSET RelationsOf(C) :
          /\ HasRelations(r.relations, P)
          /\ left = [classes |-> Pop(r.classes, D), relations |-> RemoveRelations(r.relations, P)]
    BY <2>1 DEF UnregisterRaises
  <2>3. P \in SUBSET (Classes \X Names)  BY RelationsTyped
  <2> QED  BY <2>2, <2>3, RemoveSound
<1> QED  BY <1>1, <1>2

\* So a process starts with consistent lists.
LEMMA StartedSound ==
  ASSUME NEW C \in SUBSET Classes, NEW r \in Started(C)
  PROVE  Sound(r)
<1>1. Sound(EmptyRegistry)
  BY DEF EmptyRegistry, Sound, Registry, Consistent
<1>2. PICK core \in RegisterAll(EmptyRegistry, Core) : r \in RegisterAll(core, C)
  BY DEF Started
<1>3. Sound(core)  BY <1>1, <1>2, RegisterSound, PluginsAssumption
<1> QED  BY <1>2, <1>3, RegisterSound

-----------------------------------------------------------------------------
(* The inductive invariant *)

\* The entry points of whatever packages are installed are classes.
LEMMA AvailableTyped == available \in SUBSET Classes /\ available' \in SUBSET Classes
BY PluginsAssumption DEF available, Components

\* The registry of one process is replaced by a sound one.
LEMMA ReplaceSound ==
  ASSUME IInv, NEW x \in Processes, NEW r, Sound(r), registry' = [registry EXCEPT ![x] = r]
  PROVE  registry' \in [Processes -> Registry] /\ \A y \in Processes : Sound(registry'[y])
BY DEF IInv, TypeOK, Sound

\* Nothing is consulted about a registry but that it is sound.
LEMMA KeepIInv ==
  ASSUME IInv, TypeOK', \A x \in Processes : Sound(registry'[x])
  PROVE  IInv'
BY DEF IInv, Sound, Consistent

\* Counting faults and requests.
LEMMA CountsTyped ==
  ASSUME TypeOK
  PROVE  /\ (UNCHANGED faults \/ Fault) => faults' \in Nat
         /\ Request => requests' \in Nat
BY DEF TypeOK, Fault, Request

\* What the end of a handler may do to the queue and the rows.
LEMMA PutTyped ==
  ASSUME TypeOK, NEW s \in {"REGISTERED", "INSTALLED"},
         \/ PutAndRecord(s)
         \/ UNCHANGED <<status, syncs, unsynced, faults>>
         \/ (PutSync \/ PutFails) /\ UNCHANGED status
  PROVE  /\ syncs' \in Nat /\ unsynced' \in BOOLEAN /\ faults' \in Nat
         /\ status' \in [Packages -> {"absent", "REGISTERED", "INSTALLED"}]
<1> USE DEF TypeOK
<1>0. (UNCHANGED faults \/ Fault) => faults' \in Nat  BY DEF Fault
<1>1. CASE PutAndRecord(s)
  <2>1. status' = status \/ status' = [status EXCEPT ![apiPkg] = s]
    BY <1>1 DEF PutAndRecord
  <2>2. syncs' = syncs \/ syncs' = syncs + 1  BY <1>1 DEF PutAndRecord, PutSync, PutFails
  <2>3. unsynced' = unsynced \/ unsynced' = TRUE  BY <1>1 DEF PutAndRecord, PutSync, PutFails
  <2>4. UNCHANGED faults \/ Fault  BY <1>1 DEF PutAndRecord, PutSync, PutFails
  <2>5. syncs' \in Nat  BY <2>2
  <2>6. unsynced' \in BOOLEAN  BY <2>3
  <2>7. status' \in [Packages -> {"absent", "REGISTERED", "INSTALLED"}]  BY <2>1
  <2> QED  BY <1>0, <2>4, <2>5, <2>6, <2>7
<1>2. CASE UNCHANGED <<status, syncs, unsynced, faults>>  BY <1>2
<1>3. CASE (PutSync \/ PutFails) /\ UNCHANGED status
  <2>1. syncs' = syncs \/ syncs' = syncs + 1  BY <1>3 DEF PutSync, PutFails
  <2>2. unsynced' = unsynced \/ unsynced' = TRUE  BY <1>3 DEF PutSync, PutFails
  <2>3. UNCHANGED faults \/ Fault  BY <1>3 DEF PutSync, PutFails
  <2>4. syncs' \in Nat  BY <2>1
  <2>5. unsynced' \in BOOLEAN  BY <2>2
  <2> QED  BY <1>0, <1>3, <2>3, <2>4, <2>5
<1> QED  BY <1>1, <1>2, <1>3

\* What unregistering in the API may do.
LEMMA UnregisteredSound ==
  ASSUME IInv, NEW r \in UnregisterAll(registry["api"], found),
         registry' = [registry EXCEPT !["api"] = r]
  PROVE  registry' \in [Processes -> Registry] /\ \A y \in Processes : Sound(registry'[y])
<1>1. Sound(registry["api"]) /\ found \in SUBSET Classes  BY DEF IInv, TypeOK, Processes
<1>2. Sound(r)  BY <1>1, UnregisterSound
<1> QED  BY <1>2, ReplaceSound DEF Processes

\* What registering in the API may do.
LEMMA RegisteredSound ==
  ASSUME IInv, NEW r \in RegisterAll(registry["api"], found),
         registry' = [registry EXCEPT !["api"] = r]
  PROVE  registry' \in [Processes -> Registry] /\ \A y \in Processes : Sound(registry'[y])
<1>1. Sound(registry["api"]) /\ found \in SUBSET Classes  BY DEF IInv, TypeOK, Processes
<1>2. Sound(r)  BY <1>1, RegisterSound
<1> QED  BY <1>2, ReplaceSound DEF Processes

\* Both processes start with sound registries.
LEMMA InitIInv == Init => IInv
<1> SUFFICES ASSUME Init  PROVE IInv
  OBVIOUS
<1>1. \A x \in Processes : Sound(registry[x])
  BY StartedSound DEF Init
<1>2. registry \in [Processes -> Registry]
  BY <1>1 DEF Init, Sound
<1>3. TypeOK
  <2>1. published \in [Packages -> 1..MaxVersion]  BY PluginsAssumption DEF Init
  <2>2. unsynced \in BOOLEAN /\ apiPc \in ApiPcs  BY DEF Init, ApiPcs
  <2> QED  BY <1>2, <2>1, <2>2 DEF Init, TypeOK
<1> QED  BY <1>1, <1>3 DEF IInv

\* Every step of the handlers, the sync jobs and the restarts keeps the
\* inductive invariant.
LEMMA StepIInv == IInv /\ [Next]_vars => IInv'
<1> SUFFICES ASSUME IInv, [Next]_vars  PROVE IInv'
  OBVIOUS
<1> USE DEF pluginRows, apiHandler, worker
<1>a. TypeOK /\ \A x \in Processes : Sound(registry[x])  BY DEF IInv
<1>b. found \in SUBSET Classes  BY <1>a DEF TypeOK
<1>1. ASSUME NEW p \in Packages, Publish(p)  PROVE IInv'
  <2>1. published' \in [Packages -> 1..MaxVersion]
    BY <1>1, <1>a, PluginsAssumption DEF Publish, TypeOK
  <2>2. TypeOK'  BY <1>1, <1>a, <2>1 DEF Publish, TypeOK
  <2> QED  BY <1>1, <1>a, <2>2, KeepIInv DEF Publish
<1>2. ASSUME NEW p \in Packages, RefreshPluginsRecord(p)  PROVE IInv'
  <2>1. installed_version' \in [Packages -> Nat]
    BY <1>2, <1>a, PluginsAssumption DEF RefreshPluginsRecord, TypeOK
  <2>2. TypeOK'  BY <1>2, <1>a, <2>1 DEF RefreshPluginsRecord, TypeOK
  <2> QED  BY <1>2, <1>a, <2>2, KeepIInv DEF RefreshPluginsRecord
<1>3. ASSUME NEW p \in Packages, DeletePlugin(p)  PROVE IInv'
  <2>1. TypeOK'  BY <1>3, <1>a DEF DeletePlugin, TypeOK
  <2> QED  BY <1>3, <1>a, <2>1, KeepIInv DEF DeletePlugin
<1>4. ASSUME NEW p \in Packages, Install(p)  PROVE IInv'
  <2>1. found' \in SUBSET Classes  BY <1>4, AvailableTyped DEF Install, PipInstall
  <2>2. pip' \in [Packages -> Nat]
    BY <1>4, <1>a, PluginsAssumption DEF Install, PipInstall, TypeOK
  <2>3. requests' \in Nat  BY <1>4, <1>a, CountsTyped DEF Install
  <2>4. TypeOK'
    BY <1>4, <1>a, <2>1, <2>2, <2>3 DEF Install, Handle, TypeOK, ApiPcs
  <2> QED  BY <1>4, <1>a, <2>4, KeepIInv DEF Install
<1>5. ASSUME NEW p \in Packages, Uninstall(p)  PROVE IInv'
  <2>1. found' \in SUBSET Classes  BY <1>5, AvailableTyped DEF Uninstall, PipUninstall
  <2>2. pip' \in [Packages -> Nat]
    BY <1>5, <1>a DEF Uninstall, PipUninstall, TypeOK
  <2>3. requests' \in Nat  BY <1>5, <1>a, CountsTyped DEF Uninstall
  <2>4. TypeOK'
    BY <1>5, <1>a, <2>1, <2>2, <2>3 DEF Uninstall, Handle, TypeOK, ApiPcs
  <2> QED  BY <1>5, <1>a, <2>4, KeepIInv DEF Uninstall
<1>6. CASE InstallEnds /\ Conflict
  <2>1. InstallAborts /\ Done  BY <1>6 DEF InstallEnds
  <2>2. pip' \in [Packages -> Nat]
    BY <2>1, <1>a DEF InstallAborts, TypeOK
  <2>3. TypeOK'
    BY <1>6, <1>a, <2>1, <2>2 DEF InstallEnds, InstallAborts, Done, Handle, TypeOK, ApiPcs
  <2> QED  BY <2>1, <1>a, <2>3, KeepIInv DEF InstallAborts
<1>7. CASE InstallEnds /\ ~Conflict
  <2>1. registry' \in [Processes -> Registry] /\ \A y \in Processes : Sound(registry'[y])
    BY <1>7, RegisteredSound DEF InstallEnds
  <2>2. PutAndRecord("INSTALLED") /\ Done /\ UNCHANGED pip  BY <1>7 DEF InstallEnds
  <2>3. /\ syncs' \in Nat /\ unsynced' \in BOOLEAN /\ faults' \in Nat
        /\ status' \in [Packages -> {"absent", "REGISTERED", "INSTALLED"}]
    BY <1>a, <2>2, PutTyped
  <2>4. TypeOK'
    BY <1>7, <1>a, <2>1, <2>2, <2>3 DEF InstallEnds, Done, Handle, TypeOK, ApiPcs
  <2> QED  BY <2>1, <2>4, KeepIInv
<1>8. CASE UninstallEnds
  <2>1. registry' \in [Processes -> Registry] /\ \A y \in Processes : Sound(registry'[y])
    BY <1>8, UnregisteredSound DEF UninstallEnds, Unregistered
  <2>2. PutAndRecord("REGISTERED") \/ UNCHANGED <<status, syncs, unsynced, faults>>
    BY <1>8 DEF UninstallEnds, Unregistered
  <2>3. /\ syncs' \in Nat /\ unsynced' \in BOOLEAN /\ faults' \in Nat
        /\ status' \in [Packages -> {"absent", "REGISTERED", "INSTALLED"}]
    BY <1>a, <2>2, PutTyped
  <2>4. Done  BY <1>8 DEF UninstallEnds, Unregistered
  <2>5. TypeOK'
    BY <1>8, <1>a, <2>1, <2>3, <2>4 DEF UninstallEnds, Done, Handle, TypeOK, ApiPcs
  <2> QED  BY <2>1, <2>5, KeepIInv
<1>9. ASSUME NEW p \in Packages, UpgradeInstalled(p)  PROVE IInv'
  <2>1. found' \in SUBSET Classes  BY <1>9, AvailableTyped DEF UpgradeInstalled, PipUninstall
  <2>2. pip' \in [Packages -> Nat]
    BY <1>9, <1>a DEF UpgradeInstalled, PipUninstall, TypeOK
  <2>3. requests' \in Nat  BY <1>9, <1>a, CountsTyped DEF UpgradeInstalled
  <2>4. TypeOK'
    BY <1>9, <1>a, <2>1, <2>2, <2>3 DEF UpgradeInstalled, Handle, TypeOK, ApiPcs
  <2> QED  BY <1>9, <1>a, <2>4, KeepIInv DEF UpgradeInstalled
<1>10. ASSUME NEW p \in Packages, UpgradeRegistered(p)  PROVE IInv'
  <2>1. requests' \in Nat  BY <1>10, <1>a, CountsTyped DEF UpgradeRegistered
  <2>2. TypeOK'
    BY <1>10, <1>a, <2>1 DEF UpgradeRegistered, Handle, TypeOK, ApiPcs
  <2> QED  BY <1>10, <1>a, <2>2, KeepIInv DEF UpgradeRegistered
<1>11. CASE UpgradeUnregisters
  <2>1. registry' \in [Processes -> Registry] /\ \A y \in Processes : Sound(registry'[y])
    BY <1>11, UnregisteredSound DEF UpgradeUnregisters, Unregistered
  <2>2. \/ UNCHANGED <<status, syncs, unsynced, faults>>
        \/ (PutSync \/ PutFails) /\ UNCHANGED status
    BY <1>11 DEF UpgradeUnregisters, Unregistered
  <2>3. /\ syncs' \in Nat /\ unsynced' \in BOOLEAN /\ faults' \in Nat
        /\ status' \in [Packages -> {"absent", "REGISTERED", "INSTALLED"}]
    BY <1>a, <2>2, PutTyped
  <2>4. found' = {} /\ (Handle("idle", NoPackage) \/ Handle("upgradeFetches", apiPkg))
    BY <1>11 DEF UpgradeUnregisters, Unregistered, Done
  <2>5. TypeOK'
    BY <1>11, <1>a, <2>1, <2>3, <2>4 DEF UpgradeUnregisters, Handle, TypeOK, ApiPcs
  <2> QED  BY <2>1, <2>5, KeepIInv
<1>12. CASE UpgradeInstalls
  <2>1. found' \in SUBSET Classes
    BY <1>12, AvailableTyped DEF UpgradeInstalls, PipInstall, Done
  <2>2. pip' \in [Packages -> Nat]
    BY <1>12, <1>a, PluginsAssumption DEF UpgradeInstalls, PipInstall, TypeOK
  <2>3. faults' \in Nat  BY <1>12, <1>a, CountsTyped DEF UpgradeInstalls
  <2>4. Handle("upgradeAdds", apiPkg) \/ Handle("idle", NoPackage)
    BY <1>12 DEF UpgradeInstalls, Done
  <2>5. TypeOK'
    BY <1>12, <1>a, <2>1, <2>2, <2>3, <2>4 DEF UpgradeInstalls, Handle, TypeOK, ApiPcs
  <2> QED  BY <1>12, <1>a, <2>5, KeepIInv DEF UpgradeInstalls
<1>13. CASE UpgradeRegisters
  <2>1. registry' \in [Processes -> Registry] /\ \A y \in Processes : Sound(registry'[y])
    BY <1>13, RegisteredSound DEF UpgradeRegisters
  <2>2. (PutSync \/ PutFails) /\ UNCHANGED status  BY <1>13 DEF UpgradeRegisters
  <2>3. /\ syncs' \in Nat /\ unsynced' \in BOOLEAN /\ faults' \in Nat
        /\ status' \in [Packages -> {"absent", "REGISTERED", "INSTALLED"}]
    BY <1>a, <2>2, PutTyped
  <2>4. TypeOK'
    BY <1>13, <1>a, <2>1, <2>3 DEF UpgradeRegisters, Done, Handle, TypeOK, ApiPcs
  <2> QED  BY <2>1, <2>4, KeepIInv
<1>14. CASE CancelSyncs
  <2>1. TypeOK'  BY <1>14, <1>a DEF CancelSyncs, TypeOK
  <2> QED  BY <1>14, <1>a, <2>1, KeepIInv DEF CancelSyncs
<1>15. CASE SyncStarts
  <2>1. basic' \in SUBSET Classes  BY <1>15, AvailableTyped, PluginsAssumption DEF SyncStarts
  <2>2. syncs' \in Nat  BY <1>15, <1>a DEF SyncStarts, TypeOK
  <2>3. unsynced' \in BOOLEAN  BY <1>15 DEF SyncStarts
  <2>4. TypeOK'  BY <1>15, <1>a, <2>1, <2>2, <2>3 DEF SyncStarts, TypeOK
  <2> QED  BY <1>15, <1>a, <2>4, KeepIInv DEF SyncStarts
<1>16. CASE SyncRuns
  <2> DEFINE r == registry["consumer"]
             plugins == {r.classes[n] : n \in Registered(r)} \ basic
  <2>1. Sound(r)  BY <1>a DEF Processes
  <2>2. plugins \in SUBSET Classes
    BY <2>1 DEF Registered, Sound, Registry
  <2>3. PICK added \in RegisterAll(r, available \ plugins) :
          \E synced \in UnregisterAll(added, plugins \ available) :
            registry' = [registry EXCEPT !["consumer"] = synced]
    BY <1>16 DEF SyncRuns
  <2>4. PICK synced \in UnregisterAll(added, plugins \ available) :
          registry' = [registry EXCEPT !["consumer"] = synced]
    BY <2>3
  <2> HIDE DEF r, plugins
  <2>5. Sound(added)  BY <2>1, <2>3, AvailableTyped, RegisterSound
  <2>6. Sound(synced)  BY <2>2, <2>4, <2>5, UnregisterSound
  <2>7. registry' \in [Processes -> Registry] /\ \A y \in Processes : Sound(registry'[y])
    BY <2>4, <2>6, ReplaceSound DEF Processes
  <2>8. TypeOK'  BY <1>16, <1>a, <2>7 DEF SyncRuns, TypeOK
  <2> QED  BY <2>7, <2>8, KeepIInv
<1>17. CASE Restart
  <2>1. \A x \in Processes : Sound(registry'[x])
    BY <1>17, AvailableTyped, StartedSound DEF Restart
  <2>2. registry' \in [Processes -> Registry]  BY <1>17, <2>1 DEF Restart, Sound
  <2>3. faults' \in Nat  BY <1>17, <1>a, CountsTyped DEF Restart
  <2>4. TypeOK'
    BY <1>17, <1>a, <2>2, <2>3 DEF Restart, Done, Handle, TypeOK, ApiPcs
  <2> QED  BY <2>1, <2>4, KeepIInv
<1>18. CASE UNCHANGED vars
  BY <1>18, <1>a, KeepIInv DEF vars, TypeOK
<1> QED
  BY <1>1, <1>2, <1>3, <1>4, <1>5, <1>6, <1>7, <1>8, <1>9, <1>10, <1>11, <1>12, <1>13,
     <1>14, <1>15, <1>16, <1>17, <1>18 DEF Next, Update, Upgrade, Sync

\* The inductive invariant holds throughout.
LEMMA Invariance == Spec => []IInv
BY InitIInv, StepIInv, PTL DEF Spec

-----------------------------------------------------------------------------
\* Every variable keeps to its type: no list of relations ever holds an entry
\* less than none, and the queue no job less.
THEOREM TypeCorrect == Spec => []TypeOK
<1>1. IInv => TypeOK  BY DEF IInv
<1> QED  BY <1>1, Invariance, PTL

\* RelationshipManager's hope is fulfilled in both processes: whatever is
\* registered twice or over something else, and wherever unregistering stops.
THEOREM RelationsConsistentHolds == Spec => []RelationsConsistent
<1>1. IInv => RelationsConsistent  BY DEF IInv, Sound, Consistent, RelationsConsistent
<1> QED  BY <1>1, Invariance, PTL

-----------------------------------------------------------------------------
(* Registries that hold what they should                                   *)

PluginClasses == UNION {ComponentsOf[p] : p \in Packages}
Everything == Core \cup PluginClasses
Installed == Core \cup available

\* No plugin brings a component of the name of another's, or of DashAI's.
\* Nothing in the code sees to it but the first install of a plugin, and the
\* properties below need it: see plugins_race.
DistinctNames == OneOfEachName(Everything) /\ Core \cap PluginClasses = {}

\* The register has the classes of C and no other, and their relations at least.
Holds(r, C) ==
  /\ \A n \in Names : r.classes[n] \in IF Named(C, n) = {} THEN {NoClass} ELSE Named(C, n)
  /\ HasRelations(r.relations, RelationsOf(C))

Held(r) == {r.classes[n] : n \in Registered(r)}

\* More relations make more entries, and relations of different classes add up.
LEMMA EntriesUnion ==
  ASSUME NEW P \in SUBSET (Classes \X Names), NEW Q \in SUBSET (Classes \X Names),
         NEW a \in Names, NEW b \in Names
  PROVE  /\ Entries(P, a, b) \in Nat /\ Entries(Q, a, b) \in Nat /\ Entries(P \cup Q, a, b) \in Nat
         /\ Entries(P \cup Q, a, b) <= Entries(P, a, b) + Entries(Q, a, b)
         /\ Entries(P, a, b) <= Entries(P \cup Q, a, b)
         /\ P \cap Q = {} => Entries(P \cup Q, a, b) = Entries(P, a, b) + Entries(Q, a, b)
<1> DEFINE from(R, x, y) == {p \in R : NameOf[p[1]] = x /\ p[2] = y}
<1>1. IsFiniteSet(P) /\ IsFiniteSet(Q)
  <2>1. IsFiniteSet(Classes \X Names)  BY RegistryAssumption, FS_Product
  <2> QED  BY <2>1, FS_Subset
<1>2. ASSUME NEW x, NEW y
      PROVE  /\ Cardinality(from(P, x, y)) \in Nat /\ Cardinality(from(Q, x, y)) \in Nat
             /\ Cardinality(from(P \cup Q, x, y)) \in Nat
             /\ Cardinality(from(P \cup Q, x, y)) <= Cardinality(from(P, x, y)) + Cardinality(from(Q, x, y))
             /\ Cardinality(from(P, x, y)) <= Cardinality(from(P \cup Q, x, y))
             /\ P \cap Q = {} => Cardinality(from(P \cup Q, x, y)) =
                                   Cardinality(from(P, x, y)) + Cardinality(from(Q, x, y))
  <2>1. IsFiniteSet(from(P, x, y)) /\ IsFiniteSet(from(Q, x, y))
    BY <1>1, FS_Subset
  <2>2. from(P \cup Q, x, y) = from(P, x, y) \cup from(Q, x, y)
    OBVIOUS
  <2>3. from(P, x, y) \cap from(Q, x, y) \subseteq P \cap Q
    OBVIOUS
  <2>4. P \cap Q = {} => from(P, x, y) \cap from(Q, x, y) = {}
    BY <2>3
  <2> HIDE DEF from
  <2>5. /\ IsFiniteSet(from(P, x, y) \cup from(Q, x, y))
        /\ Cardinality(from(P, x, y) \cup from(Q, x, y)) =
             Cardinality(from(P, x, y)) + Cardinality(from(Q, x, y))
             - Cardinality(from(P, x, y) \cap from(Q, x, y))
    BY <2>1, FS_Union
  <2>6. IsFiniteSet(from(P, x, y) \cap from(Q, x, y))
    BY <2>1, FS_Subset
  <2>7. /\ Cardinality(from(P, x, y)) \in Nat /\ Cardinality(from(Q, x, y)) \in Nat
        /\ Cardinality(from(P, x, y) \cap from(Q, x, y)) \in Nat
        /\ Cardinality(from(P, x, y) \cup from(Q, x, y)) \in Nat
    BY <2>1, <2>5, <2>6, FS_CardinalityType
  <2>8. Cardinality(from(P, x, y)) <= Cardinality(from(P, x, y) \cup from(Q, x, y))
    BY <2>5, FS_Subset
  <2>9. P \cap Q = {} => Cardinality(from(P, x, y) \cap from(Q, x, y)) = 0
    BY <2>4, FS_EmptySet
  <2>10. Cardinality(from(P \cup Q, x, y)) = Cardinality(from(P, x, y) \cup from(Q, x, y))
    BY <2>2
  <2>11. P \cap Q = {} => Cardinality(from(P, x, y) \cup from(Q, x, y)) =
                            Cardinality(from(P, x, y)) + Cardinality(from(Q, x, y))
    BY <2>5, <2>7, <2>9
  <2>12. Cardinality(from(P, x, y) \cup from(Q, x, y))
           <= Cardinality(from(P, x, y)) + Cardinality(from(Q, x, y))
    BY <2>5, <2>7
  <2> QED  BY <2>7, <2>8, <2>10, <2>11, <2>12
<1>3. ASSUME NEW R  PROVE Entries(R, a, b) = Cardinality(from(R, a, b)) + Cardinality(from(R, b, a))
  BY DEF Entries
<1> HIDE DEF from
<1>4. /\ Entries(P, a, b) = Cardinality(from(P, a, b)) + Cardinality(from(P, b, a))
      /\ Entries(Q, a, b) = Cardinality(from(Q, a, b)) + Cardinality(from(Q, b, a))
      /\ Entries(P \cup Q, a, b) = Cardinality(from(P \cup Q, a, b)) + Cardinality(from(P \cup Q, b, a))
  BY <1>3
<1>5. /\ Cardinality(from(P, a, b)) \in Nat /\ Cardinality(from(Q, a, b)) \in Nat
      /\ Cardinality(from(P \cup Q, a, b)) \in Nat
      /\ Cardinality(from(P, b, a)) \in Nat /\ Cardinality(from(Q, b, a)) \in Nat
      /\ Cardinality(from(P \cup Q, b, a)) \in Nat
  BY <1>2
<1>6. /\ Cardinality(from(P \cup Q, a, b)) <= Cardinality(from(P, a, b)) + Cardinality(from(Q, a, b))
      /\ Cardinality(from(P \cup Q, b, a)) <= Cardinality(from(P, b, a)) + Cardinality(from(Q, b, a))
      /\ Cardinality(from(P, a, b)) <= Cardinality(from(P \cup Q, a, b))
      /\ Cardinality(from(P, b, a)) <= Cardinality(from(P \cup Q, b, a))
  BY <1>2
<1>7. P \cap Q = {} =>
        /\ Cardinality(from(P \cup Q, a, b)) = Cardinality(from(P, a, b)) + Cardinality(from(Q, a, b))
        /\ Cardinality(from(P \cup Q, b, a)) = Cardinality(from(P, b, a)) + Cardinality(from(Q, b, a))
  BY <1>2
<1> QED  BY <1>4, <1>5, <1>6, <1>7

\* Classes and their relations.
LEMMA RelationsUnion ==
  ASSUME NEW C \in SUBSET Classes, NEW D \in SUBSET Classes
  PROVE  /\ RelationsOf(C) \in SUBSET (Classes \X Names)
         /\ RelationsOf(C \cup D) = RelationsOf(C) \cup RelationsOf(D)
         /\ C \cap D = {} => RelationsOf(C) \cap RelationsOf(D) = {}
BY DEF RelationsOf

\* All there is to register are classes, each with a name.
LEMMA EverythingTyped ==
  /\ Everything \in SUBSET Classes /\ available \in SUBSET PluginClasses
  /\ \A c \in Classes : NameOf[c] \in Names /\ c # NoClass
  /\ DistinctNames => \A c, d \in Everything : NameOf[c] = NameOf[d] => c = d
BY RegistryAssumption, PluginsAssumption
   DEF Everything, PluginClasses, available, Components, DistinctNames, OneOfEachName

\* register_component: what was there stays, what was not there comes.
LEMMA HoldsRegistered ==
  ASSUME DistinctNames, NEW r, Sound(r), NEW C \in SUBSET Everything, NEW D \in SUBSET Everything,
         Holds(r, C), NEW new \in RegisterAll(r, D)
  PROVE  Holds(new, C \cup D)
<1>0. C \in SUBSET Classes /\ D \in SUBSET Classes
  BY EverythingTyped
<1>1. PICK classes \in Overwrite(r.classes, D) :
        new = [classes |-> classes, relations |-> AddRelations(r.relations, RelationsOf(D))]
  BY DEF RegisterAll
<1>2. PICK chosen \in [NamesOf(D) -> D] :
        /\ \A n \in NamesOf(D) : NameOf[chosen[n]] = n
        /\ classes = [n \in Names |-> IF n \in NamesOf(D) THEN chosen[n] ELSE r.classes[n]]
  BY DEF Overwrite
<1>3. ASSUME NEW n \in Names
      PROVE  classes[n] \in IF Named(C \cup D, n) = {} THEN {NoClass} ELSE Named(C \cup D, n)
  <2>1. CASE n \in NamesOf(D)
    <3>1. classes[n] \in Named(C \cup D, n)  BY <1>2, <2>1 DEF Named
    <3> QED  BY <3>1
  <2>2. CASE n \notin NamesOf(D)
    <3>1. classes[n] = r.classes[n]  BY <1>2, <2>2
    <3>2. Named(C \cup D, n) = Named(C, n)  BY <2>2 DEF Named, NamesOf
    <3> QED  BY <3>1, <3>2 DEF Holds
  <2> QED  BY <2>1, <2>2
<1>4. HasRelations(AddRelations(r.relations, RelationsOf(D)), RelationsOf(C \cup D))
  <2> SUFFICES ASSUME NEW a \in Names, NEW b \in Names
               PROVE  Entries(RelationsOf(C \cup D), a, b)
                        <= AddRelations(r.relations, RelationsOf(D))[a][b]
    BY DEF HasRelations
  <2>1. AddRelations(r.relations, RelationsOf(D))[a][b] = r.relations[a][b] + Entries(RelationsOf(D), a, b)
    BY DEF AddRelations
  <2>2. Entries(RelationsOf(C), a, b) <= r.relations[a][b]
    BY DEF Holds, HasRelations
  <2>3. r.relations[a][b] \in Nat
    BY DEF Sound, Registry
  <2>4. /\ Entries(RelationsOf(C), a, b) \in Nat /\ Entries(RelationsOf(D), a, b) \in Nat
        /\ Entries(RelationsOf(C \cup D), a, b) \in Nat
        /\ Entries(RelationsOf(C \cup D), a, b)
             <= Entries(RelationsOf(C), a, b) + Entries(RelationsOf(D), a, b)
    BY <1>0, RelationsUnion, EntriesUnion
  <2> QED  BY <2>1, <2>2, <2>3, <2>4
<1> QED  BY <1>1, <1>3, <1>4 DEF Holds

\* unregister_component finds what it looks for, and takes away no more.
LEMMA HoldsUnregistered ==
  ASSUME DistinctNames, NEW r, Sound(r), NEW C \in SUBSET Everything, NEW D \in SUBSET C, Holds(r, C)
  PROVE  /\ CanUnregister(r, D)
         /\ \A left \in UnregisterAll(r, D) : Holds(left, C \ D)
<1> DEFINE rest == C \ D
<1>0. C \in SUBSET Classes /\ D \in SUBSET Classes /\ rest \in SUBSET Classes
  BY EverythingTyped
<1>1. ASSUME NEW n \in Names, n \in NamesOf(D)  PROVE r.classes[n] # NoClass /\ Named(rest, n) = {}
  <2>1. PICK d \in D : NameOf[d] = n  BY <1>1 DEF NamesOf
  <2>2. d \in Named(C, n)  BY <2>1 DEF Named
  <2>3. r.classes[n] \in Named(C, n)  BY <2>2 DEF Holds
  <2>4. Named(rest, n) = {}  BY <2>1, EverythingTyped DEF Named
  <2> QED  BY <1>0, <2>3, <2>4, EverythingTyped DEF Named
<1>2. ASSUME NEW a \in Names, NEW b \in Names
      PROVE  /\ Entries(RelationsOf(D), a, b) <= r.relations[a][b]
             /\ Entries(RelationsOf(rest), a, b) <= r.relations[a][b] - Entries(RelationsOf(D), a, b)
  <2>1. Entries(RelationsOf(C), a, b) <= r.relations[a][b]
    BY DEF Holds, HasRelations
  <2>2. r.relations[a][b] \in Nat
    BY DEF Sound, Registry
  <2>3. C = D \cup rest /\ D \cap rest = {}
    OBVIOUS
  <2>4. /\ Entries(RelationsOf(rest), a, b) \in Nat /\ Entries(RelationsOf(D), a, b) \in Nat
        /\ Entries(RelationsOf(C), a, b)
             = Entries(RelationsOf(D), a, b) + Entries(RelationsOf(rest), a, b)
    <3> HIDE DEF rest
    <3>1. RelationsOf(C) = RelationsOf(D) \cup RelationsOf(rest) /\ RelationsOf(D) \cap RelationsOf(rest) = {}
      BY <1>0, <2>3, RelationsUnion
    <3>2. RelationsOf(D) \in SUBSET (Classes \X Names) /\ RelationsOf(rest) \in SUBSET (Classes \X Names)
      BY <1>0, RelationsUnion
    <3> QED  BY <3>1, <3>2, EntriesUnion
  <2> HIDE DEF rest
  <2> QED  BY <2>1, <2>2, <2>4
<1>3. CanUnregister(r, D)
  <2>1. NamesOf(D) \subseteq Registered(r)  BY <1>0, <1>1, EverythingTyped DEF NamesOf, Registered
  <2> QED  BY <1>2, <2>1 DEF CanUnregister, HasRelations
<1>4. Holds(Unregister(r, D), rest)
  <2>1. ASSUME NEW n \in Names
        PROVE  Pop(r.classes, D)[n] \in IF Named(rest, n) = {} THEN {NoClass} ELSE Named(rest, n)
    <3>1. CASE n \in NamesOf(D)
      BY <1>1, <3>1 DEF Pop
    <3>2. CASE n \notin NamesOf(D)
      <4>1. Named(rest, n) = Named(C, n)  BY <3>2 DEF Named, NamesOf
      <4> QED  BY <3>2, <4>1 DEF Pop, Holds
    <3> QED  BY <3>1, <3>2
  <2>2. HasRelations(RemoveRelations(r.relations, RelationsOf(D)), RelationsOf(rest))
    BY <1>2 DEF HasRelations, RemoveRelations
  <2> QED  BY <2>1, <2>2 DEF Holds, Unregister
<1>5. UnregisterAll(r, D) = {Unregister(r, D)}
  BY <1>3 DEF UnregisterAll
<1> QED  BY <1>3, <1>4, <1>5

\* What a registry holds can be read off it.
LEMMA HoldsHeld ==
  ASSUME DistinctNames, NEW r, NEW C \in SUBSET Everything, Holds(r, C)
  PROVE  Held(r) = C
<1>1. ASSUME NEW c \in C  PROVE c \in Held(r)
  <2>1. c \in Named(C, NameOf[c]) /\ NameOf[c] \in Names /\ c \in Everything
    BY EverythingTyped DEF Named
  <2>2. r.classes[NameOf[c]] \in Named(C, NameOf[c])  BY <2>1 DEF Holds
  <2>3. r.classes[NameOf[c]] = c  BY <2>1, <2>2, EverythingTyped DEF Named
  <2> QED  BY <2>1, <2>3, EverythingTyped DEF Held, Registered
<1>2. ASSUME NEW n \in Registered(r)  PROVE r.classes[n] \in C
  <2>1. n \in Names /\ r.classes[n] # NoClass  BY <1>2 DEF Registered
  <2> QED  BY <2>1 DEF Holds, Named
<1> QED  BY <1>1, <1>2 DEF Held

\* A process starts with DashAI's components and those installed.
LEMMA StartedHolds ==
  ASSUME DistinctNames, NEW C \in SUBSET PluginClasses, NEW r \in Started(C)
  PROVE  Holds(r, Core \cup C)
<1>1. Sound(EmptyRegistry)
  BY DEF EmptyRegistry, Sound, Registry, Consistent
<1>2. Holds(EmptyRegistry, {})
  <2>1. ASSUME NEW a \in Names, NEW b \in Names  PROVE Entries(RelationsOf({}), a, b) = 0
    <3>0. RelationsOf({}) = {}  BY DEF RelationsOf
    <3>1. /\ {p \in RelationsOf({}) : NameOf[p[1]] = a /\ p[2] = b} = {}
          /\ {p \in RelationsOf({}) : NameOf[p[1]] = b /\ p[2] = a} = {}
      BY <3>0
    <3>2. Entries(RelationsOf({}), a, b) = Cardinality({}) + Cardinality({})  BY <3>1 DEF Entries
    <3> QED  BY <3>2, FS_EmptySet
  <2>2. \A n \in Names : Named({}, n) = {}  BY DEF Named
  <2> QED  BY <2>1, <2>2 DEF Holds, HasRelations, EmptyRegistry
<1>3. PICK core \in RegisterAll(EmptyRegistry, Core) : r \in RegisterAll(core, C)
  BY DEF Started
<1>4. Core \in SUBSET Everything /\ C \in SUBSET Everything /\ {} \in SUBSET Everything
  BY DEF Everything
<1>5. Holds(core, {} \cup Core)
  BY <1>1, <1>2, <1>3, <1>4, HoldsRegistered
<1>6. Sound(core)  BY <1>1, <1>3, RegisterSound, PluginsAssumption
<1>7. {} \cup Core = Core
  OBVIOUS
<1> QED  BY <1>3, <1>4, <1>5, <1>6, <1>7, HoldsRegistered

-----------------------------------------------------------------------------
(* The inductive invariant of the processes' registries                    *)

Adding == apiPc \in {"installing", "upgradeAdds"}
Removing == apiPc \in {"uninstalling", "upgradeRemoves"}

\* The classes of the API's register: pip is ahead of it by what was found.
ApiHolds ==
  IF Adding THEN Installed \ found ELSE IF Removing THEN Installed \cup found ELSE Installed

HandlerInv ==
  /\ Adding => found \subseteq available
  /\ Removing => found \subseteq PluginClasses \ available
  /\ ~Adding /\ ~Removing => found = {}
  /\ apiPc # "idle" => apiPkg \in Packages
ApiInv == HandlerInv /\ Holds(registry["api"], ApiHolds)

\* A sync job is on its way, or was given up.
Pending == syncs > 0 \/ unsynced

\* pip has not moved since the last sync job was put.
Quiet == ~Adding /\ ~Removing

\* What the sync job in progress will end with, if pip stays as it is.
Aim == IF workPc = "idle" THEN Held(registry["consumer"]) ELSE basic

ConsumerInv ==
  /\ Core \subseteq Held(registry["consumer"]) /\ Held(registry["consumer"]) \subseteq Everything
  /\ Holds(registry["consumer"], Held(registry["consumer"]))
  /\ workPc = "syncing" => Core \subseteq basic
  /\ ~Pending /\ Quiet => Aim = Installed

\* A package that is said to be installed is, but for the handler in progress.
RowsInv ==
  /\ Adding => pip[apiPkg] # 0
  /\ faults = 0 =>
       /\ apiPc = "installing" /\ found # {} => status[apiPkg] # "INSTALLED"
       /\ \A p \in Packages : status[p] = "INSTALLED" =>
            \/ pip[p] # 0
            \/ p = apiPkg /\ apiPc \in {"uninstalling", "upgradeRemoves", "upgradeFetches"}

\* pip install adds classes, and none if the package is there already.
LEMMA PipInstalls ==
  ASSUME IInv, NEW p \in Packages, PipInstall(p)
  PROVE  /\ available \subseteq available' /\ found' = available' \ available
         /\ pip'[p] # 0 /\ \A q \in Packages : pip[q] # 0 => pip'[q] # 0
         /\ pip[p] # 0 => found' = {}
<1>1. pip \in [Packages -> Nat] /\ published \in [Packages -> 1..MaxVersion]
  BY DEF IInv, TypeOK
<1>2. \A q \in Packages : pip'[q] = IF q = p /\ pip[p] = 0 THEN published[p] ELSE pip[q]
  BY <1>1 DEF PipInstall
<1>3. published[p] # 0
  BY <1>1, PluginsAssumption
<1>4. \A q \in Packages : pip[q] # 0 => pip'[q] # 0
  BY <1>2, <1>3
<1>5. available \subseteq available'
  BY <1>4 DEF available
<1>6. pip[p] # 0 => available' = available
  BY <1>2 DEF available
<1> QED  BY <1>2, <1>3, <1>4, <1>5, <1>6 DEF PipInstall

\* pip uninstall takes classes away.
LEMMA PipUninstalls ==
  ASSUME IInv, NEW p \in Packages, PipUninstall(p)
  PROVE  /\ available' \subseteq available /\ found' = available \ available'
         /\ \A q \in Packages : q # p => pip'[q] = pip[q]
<1>1. pip \in [Packages -> Nat]
  BY DEF IInv, TypeOK
<1>2. \A q \in Packages : pip'[q] = IF q = p THEN 0 ELSE pip[q]
  BY <1>1 DEF PipUninstall
<1>3. available' \subseteq available
  BY <1>2 DEF available
<1> QED  BY <1>2, <1>3 DEF PipUninstall

\* With distinct names no install is given up.
LEMMA NoConflict ==
  ASSUME DistinctNames, ApiInv, apiPc = "installing"
  PROVE  ~Conflict
<1> SUFFICES ASSUME NEW c \in found, NameOf[c] \in Registered(registry["api"])
             PROVE  FALSE
  BY DEF Conflict, NamesOf
<1>1. Holds(registry["api"], Installed \ found) /\ found \subseteq available
  BY DEF ApiInv, HandlerInv, ApiHolds, Adding
<1>2. registry["api"].classes[NameOf[c]] \in Named(Installed \ found, NameOf[c])
  BY <1>1 DEF Holds, Registered
<1>3. PICK d \in Installed \ found : NameOf[d] = NameOf[c]
  BY <1>2 DEF Named
<1>4. c \in Everything /\ d \in Everything
  BY <1>1, EverythingTyped DEF Everything, Installed
<1> QED  BY <1>3, <1>4, EverythingTyped

\* And what pip took away is in the register, with its relations.
LEMMA RemovalFinds ==
  ASSUME DistinctNames, IInv, ApiInv, Removing
  PROVE  /\ CanUnregister(registry["api"], found)
         /\ \A r \in UnregisterAll(registry["api"], found) : Holds(r, Installed)
<1>1. Sound(registry["api"])
  BY DEF IInv, Processes
<1>2. Holds(registry["api"], Installed \cup found) /\ found \subseteq PluginClasses \ available
  BY DEF ApiInv, HandlerInv, ApiHolds, Adding, Removing
<1>3. Installed \cup found \in SUBSET Everything
  BY <1>2, EverythingTyped DEF Installed, Everything
<1>4. (Installed \cup found) \ found = Installed
  BY <1>2 DEF Installed, DistinctNames
<1>5. found \in SUBSET (Installed \cup found)
  OBVIOUS
<1> HIDE DEF Removing
<1>6. /\ CanUnregister(registry["api"], found)
      /\ \A r \in UnregisterAll(registry["api"], found) : Holds(r, (Installed \cup found) \ found)
  BY <1>1, <1>2, <1>3, <1>5, HoldsUnregistered
<1> QED  BY <1>4, <1>6

\* Only pip's packages decide on what is available.
LEMMA KeepInstalled == pip' = pip => available' = available /\ Installed' = Installed
BY DEF available, Installed

\* A handler that calls pip install, and one that calls pip uninstall.
LEMMA PipStep ==
  ASSUME DistinctNames, IInv, ApiInv, Quiet, UNCHANGED registry, NEW p \in Packages, apiPkg' = p,
         \/ PipInstall(p) /\ apiPc' \in {"installing", "upgradeAdds"}
         \/ PipUninstall(p) /\ apiPc' \in {"uninstalling", "upgradeRemoves"}
  PROVE  ApiInv'
<1>1. Holds(registry["api"], Installed)
  BY DEF ApiInv, ApiHolds, Quiet
<1>2. Core \cap PluginClasses = {} /\ available \subseteq PluginClasses /\ available' \subseteq PluginClasses
  <2>1. available' \subseteq PluginClasses
    BY DEF available, PluginClasses
  <2> QED  BY <2>1, EverythingTyped DEF DistinctNames
<1>3. CASE PipInstall(p) /\ apiPc' \in {"installing", "upgradeAdds"}
  <2>1. available \subseteq available' /\ found' = available' \ available
    BY <1>3, PipInstalls
  <2>2. Adding' /\ ~Removing'
    BY <1>3 DEF Adding, Removing
  <2>3. ApiHolds' = (Core \cup available') \ found'
    BY <2>2 DEF ApiHolds, Installed
  <2>4. ApiHolds' = Installed
    BY <1>2, <2>1, <2>3 DEF Installed
  <2>5. HandlerInv'
    BY <2>1, <2>2 DEF HandlerInv
  <2> QED  BY <1>1, <2>4, <2>5 DEF ApiInv, Holds
<1>4. CASE PipUninstall(p) /\ apiPc' \in {"uninstalling", "upgradeRemoves"}
  <2>1. available' \subseteq available /\ found' = available \ available'
    BY <1>4, PipUninstalls
  <2>2. Removing' /\ ~Adding'
    BY <1>4 DEF Adding, Removing
  <2>3. ApiHolds' = (Core \cup available') \cup found'
    BY <2>2 DEF ApiHolds, Installed
  <2>4. ApiHolds' = Installed
    BY <2>1, <2>3 DEF Installed
  <2>5. HandlerInv'
    BY <1>2, <2>1, <2>2 DEF HandlerInv
  <2> QED  BY <1>1, <2>4, <2>5 DEF ApiInv, Holds
<1> QED  BY <1>3, <1>4

\* A handler that brings the register up to date with pip.
LEMMA RegisterStep ==
  ASSUME DistinctNames, IInv, ApiInv, UNCHANGED pip, Quiet', found' = {},
         apiPc' = "idle" \/ (apiPkg' = apiPkg /\ apiPc # "idle"), NEW r, registry' = [registry EXCEPT !["api"] = r],
         \/ Adding /\ r \in RegisterAll(registry["api"], found)
         \/ Removing /\ r \in UnregisterAll(registry["api"], found)
  PROVE  ApiInv'
<1>1. Sound(registry["api"]) /\ registry'["api"] = r
  BY DEF IInv, TypeOK, Processes
<1>2. Holds(r, Installed)
  <2>1. CASE Adding /\ r \in RegisterAll(registry["api"], found)
    <3>1. Holds(registry["api"], Installed \ found) /\ found \subseteq available
      BY <2>1 DEF ApiInv, HandlerInv, ApiHolds
    <3>2. Installed \ found \in SUBSET Everything /\ found \in SUBSET Everything
      BY <3>1, EverythingTyped DEF Installed, Everything
    <3>3. Holds(r, (Installed \ found) \cup found)
      BY <1>1, <2>1, <3>1, <3>2, HoldsRegistered
    <3>4. (Installed \ found) \cup found = Installed
      BY <3>1 DEF Installed
    <3> QED  BY <3>3, <3>4
  <2>2. CASE Removing /\ r \in UnregisterAll(registry["api"], found)
    BY <2>2, RemovalFinds
  <2> QED  BY <2>1, <2>2
<1>3. ApiHolds' = Installed
  BY KeepInstalled DEF ApiHolds, Quiet
<1>4. HandlerInv'
  BY DEF HandlerInv, Quiet, ApiInv
<1> QED  BY <1>1, <1>2, <1>3, <1>4 DEF ApiInv, Holds

\* Steps that are not about the API's register.
LEMMA ApiRests ==
  ASSUME ApiInv, UNCHANGED <<pip, apiHandler>>, registry'["api"] = registry["api"]
  PROVE  ApiInv'
<1>1. UNCHANGED <<available, apiPc, apiPkg, found>>
  BY KeepInstalled DEF apiHandler
<1>2. HandlerInv'
  BY <1>1 DEF ApiInv, HandlerInv, Adding, Removing
<1>3. ApiHolds' = ApiHolds
  BY <1>1 DEF ApiHolds, Adding, Removing, Installed
<1> QED  BY <1>2, <1>3 DEF ApiInv, Holds

\* Every step keeps the API's register what pip's packages, and the handler in
\* progress, say it is.
LEMMA ApiStep ==
  ASSUME DistinctNames, IInv, ApiInv, [Next]_vars
  PROVE  ApiInv'
<1> USE DEF pluginRows, apiHandler, worker
<1>1. ASSUME NEW p \in Packages, Install(p) \/ Uninstall(p) \/ UpgradeInstalled(p)  PROVE ApiInv'
  BY <1>1, PipStep DEF Install, Uninstall, UpgradeInstalled, Handle, Quiet, Adding, Removing
<1>2. ASSUME NEW p \in Packages, UpgradeRegistered(p)  PROVE ApiInv'
  <2>1. Quiet /\ Quiet' /\ UNCHANGED <<pip, registry, found>> /\ apiPkg' = p
    BY <1>2 DEF UpgradeRegistered, Handle, Quiet, Adding, Removing
  <2>2. ApiHolds = Installed /\ ApiHolds' = Installed
    BY <2>1, KeepInstalled DEF ApiHolds, Quiet
  <2> QED  BY <2>1, <2>2 DEF ApiInv, HandlerInv, Holds, Quiet
<1>3. CASE UpgradeInstalls
  <2>1. Quiet /\ apiPkg \in Packages /\ UNCHANGED registry
    BY <1>3 DEF UpgradeInstalls, Quiet, Adding, Removing, ApiInv, HandlerInv
  <2>2. CASE PipInstall(apiPkg) /\ Handle("upgradeAdds", apiPkg)
    BY <2>1, <2>2, PipStep DEF Handle
  <2>3. CASE Done /\ UNCHANGED pip
    <3>1. Quiet' /\ found' = {} /\ apiPc' = "idle"
      BY <2>3 DEF Done, Handle, Quiet, Adding, Removing
    <3>2. ApiHolds = Installed /\ ApiHolds' = Installed
      BY <2>1, <2>3, <3>1, KeepInstalled DEF ApiHolds, Quiet
    <3> QED  BY <2>1, <3>1, <3>2 DEF ApiInv, HandlerInv, Holds, Quiet
  <2> QED  BY <1>3, <2>2, <2>3 DEF UpgradeInstalls
<1>4. CASE InstallEnds \/ UpgradeRegisters
  <2>1. Adding /\ (InstallEnds => ~Conflict)
    BY <1>4, NoConflict DEF InstallEnds, UpgradeRegisters, Adding
  <2>2. /\ \E r \in RegisterAll(registry["api"], found) : registry' = [registry EXCEPT !["api"] = r]
        /\ Done /\ UNCHANGED pip
    BY <1>4, <2>1 DEF InstallEnds, UpgradeRegisters
  <2>3. Quiet' /\ found' = {} /\ apiPc' = "idle"
    BY <2>2 DEF Done, Handle, Quiet, Adding, Removing
  <2>4. PICK r \in RegisterAll(registry["api"], found) : registry' = [registry EXCEPT !["api"] = r]
    BY <2>2
  <2>5. UNCHANGED pip
    BY <2>2
  <2> HIDE DEF pluginRows, apiHandler, worker
  <2>6. Adding
    BY <2>1
  <2> QED  BY <2>3, <2>4, <2>5, <2>6, RegisterStep
<1>5. CASE UninstallEnds \/ UpgradeUnregisters
  <2>1. Removing
    BY <1>5 DEF UninstallEnds, UpgradeUnregisters, Removing
  <2>2. PICK r \in UnregisterAll(registry["api"], found) : registry' = [registry EXCEPT !["api"] = r]
    BY <1>5 DEF UninstallEnds, UpgradeUnregisters, Unregistered
  <2>3. UNCHANGED pip /\ found' = {} /\ (Done \/ Handle("upgradeFetches", apiPkg))
    BY <1>5 DEF UninstallEnds, UpgradeUnregisters, Unregistered, Done
  <2>4. Quiet' /\ (apiPc' = "idle" \/ apiPkg' = apiPkg) /\ apiPc # "idle"
    BY <2>1, <2>3 DEF Done, Handle, Quiet, Adding, Removing
  <2> QED  BY <2>1, <2>2, <2>3, <2>4, RegisterStep
<1>6. ASSUME NEW p \in Packages, Publish(p) \/ RefreshPluginsRecord(p) \/ DeletePlugin(p)  PROVE ApiInv'
  BY <1>6, ApiRests DEF Publish, RefreshPluginsRecord, DeletePlugin
<1>7. CASE CancelSyncs \/ SyncStarts
  BY <1>7, ApiRests DEF CancelSyncs, SyncStarts
<1>8. CASE SyncRuns
  <2>1. PICK r : registry' = [registry EXCEPT !["consumer"] = r]
    BY <1>8 DEF SyncRuns
  <2>2. registry'["api"] = registry["api"]
    BY <2>1 DEF IInv, TypeOK, Processes
  <2> QED  BY <1>8, <2>2, ApiRests DEF SyncRuns
<1>9. CASE Restart
  <2>1. registry'["api"] \in Started(available) /\ UNCHANGED pip /\ found' = {} /\ apiPc' = "idle"
    BY <1>9 DEF Restart, Processes, Done, Handle
  <2>2. Holds(registry'["api"], Installed)
    BY <2>1, StartedHolds, EverythingTyped DEF Installed
  <2>3. ~Adding' /\ ~Removing'
    BY <2>1 DEF Adding, Removing
  <2>4. ApiHolds' = Installed
    BY <2>1, <2>3, KeepInstalled DEF ApiHolds
  <2> QED  BY <2>1, <2>2, <2>3, <2>4 DEF ApiInv, HandlerInv, Holds
<1>10. CASE UNCHANGED vars
  BY <1>10, ApiRests DEF vars
<1> QED
  BY <1>1, <1>2, <1>3, <1>4, <1>5, <1>6, <1>7, <1>8, <1>9, <1>10 DEF Next, Update, Upgrade, Sync

\* A step of a handler: if pip is no longer ahead of the registers after it, a
\* sync job was put, or given up, or pip and the sync jobs are as they were.
LEMMA HandlerTellsConsumer ==
  ASSUME DistinctNames, IInv, ApiInv, Update \/ Upgrade
  PROVE  /\ registry'["consumer"] = registry["consumer"] /\ UNCHANGED worker
         /\ Pending' \/ ~Quiet' \/ (Quiet /\ UNCHANGED <<pip, syncs, unsynced>>)
<1> USE DEF pluginRows, apiHandler
<1>1. syncs \in Nat /\ registry \in [Processes -> Registry]
  BY DEF IInv, TypeOK
<1>2. ASSUME NEW s, PutAndRecord(s)  PROVE Pending'
  BY <1>1, <1>2 DEF PutAndRecord, PutSync, PutFails, Pending
<1>3. ASSUME PutSync \/ PutFails  PROVE Pending'
  BY <1>1, <1>3 DEF PutSync, PutFails, Pending
<1>4. ASSUME NEW p \in Packages, Install(p) \/ Uninstall(p) \/ UpgradeInstalled(p)
      PROVE  ~Quiet' /\ UNCHANGED <<registry, worker>>
  BY <1>4 DEF Install, Uninstall, UpgradeInstalled, Handle, Quiet, Adding, Removing
<1>5. ASSUME NEW p \in Packages, UpgradeRegistered(p)
      PROVE  Quiet /\ UNCHANGED <<registry, worker, pip, syncs, unsynced>>
  BY <1>5 DEF UpgradeRegistered, Quiet, Adding, Removing
<1>6. CASE InstallEnds
  <2>1. ~Conflict
    BY <1>6, NoConflict DEF InstallEnds
  <2>2. PutAndRecord("INSTALLED") /\ UNCHANGED worker
    BY <1>6, <2>1 DEF InstallEnds
  <2>3. PICK r : registry' = [registry EXCEPT !["api"] = r]
    BY <1>6, <2>1 DEF InstallEnds
  <2> QED  BY <1>1, <1>2, <2>2, <2>3 DEF Processes
<1>7. CASE UninstallEnds \/ UpgradeUnregisters
  <2>1. Removing
    BY <1>7 DEF UninstallEnds, UpgradeUnregisters, Removing
  <2>2. CanUnregister(registry["api"], found)
    BY <2>1, RemovalFinds
  <2>3. PICK r : registry' = [registry EXCEPT !["api"] = r]
    BY <1>7 DEF UninstallEnds, UpgradeUnregisters, Unregistered
  <2>4. PutAndRecord("REGISTERED") \/ PutSync \/ PutFails
    BY <1>7, <2>2 DEF UninstallEnds, UpgradeUnregisters, Unregistered
  <2>5. UNCHANGED worker
    BY <1>7 DEF UninstallEnds, UpgradeUnregisters
  <2> QED  BY <1>1, <1>2, <1>3, <2>3, <2>4, <2>5 DEF Processes
<1>8. CASE UpgradeInstalls
  <2>1. Quiet /\ UNCHANGED <<registry, worker, syncs, unsynced>>
    BY <1>8 DEF UpgradeInstalls, Quiet, Adding, Removing
  <2>2. ~Quiet' \/ UNCHANGED pip
    BY <1>8 DEF UpgradeInstalls, Handle, Quiet, Adding
  <2> QED  BY <2>1, <2>2
<1>9. CASE UpgradeRegisters
  <2>1. PICK r : registry' = [registry EXCEPT !["api"] = r]
    BY <1>9 DEF UpgradeRegisters
  <2>2. (PutSync \/ PutFails) /\ UNCHANGED worker
    BY <1>9 DEF UpgradeRegisters
  <2> QED  BY <1>1, <1>3, <2>1, <2>2 DEF Processes
<1> QED  BY <1>4, <1>5, <1>6, <1>7, <1>8, <1>9 DEF Update, Upgrade

\* The consumer's registry stays; if the next aim is to be what is installed, it is.
LEMMA ConsumerRests ==
  ASSUME ConsumerInv, registry'["consumer"] = registry["consumer"], UNCHANGED worker,
         Pending' \/ ~Quiet' \/ (Quiet /\ UNCHANGED pip /\ (Pending => Pending'))
  PROVE  ConsumerInv'
<1>1. Aim' = Aim
  BY DEF Aim, Held, Registered, worker
<1>2. Holds(registry["consumer"], Held(registry["consumer"])) => Holds(registry["consumer"], Held(registry["consumer"]))'
  BY DEF Holds, Held, Registered
<1>3. Held(registry["consumer"])' = Held(registry["consumer"])
  BY DEF Held, Registered
<1>4. ~Pending' /\ Quiet' => Aim' = Installed'
  BY <1>1, KeepInstalled DEF ConsumerInv
<1> QED  BY <1>2, <1>3, <1>4 DEF ConsumerInv, worker

\* What a sync job makes of the consumer's registry: what it held and is still
\* installed, or was basic when the job began, and what is installed now.
LEMMA SyncHolds ==
  ASSUME DistinctNames, IInv, ConsumerInv, SyncRuns
  PROVE  LET H    == Held(registry["consumer"])
             gone == (H \ basic) \ available
         IN Holds(registry'["consumer"], (H \cup available) \ gone)
<1> DEFINE r == registry["consumer"]
           H == Held(r)
           plugins == H \ basic
           gone == plugins \ available
<1>1. PICK added \in RegisterAll(r, available \ plugins) :
        \E synced \in UnregisterAll(added, gone) : registry' = [registry EXCEPT !["consumer"] = synced]
  BY DEF SyncRuns, Held
<1>2. PICK synced \in UnregisterAll(added, gone) : registry' = [registry EXCEPT !["consumer"] = synced]
  BY <1>1
<1>3. registry'["consumer"] = synced /\ Sound(r)
  BY <1>2 DEF IInv, TypeOK, Processes
<1>4. H \in SUBSET Everything /\ available \in SUBSET Everything
  BY EverythingTyped DEF ConsumerInv, Everything
<1>5. Holds(r, H)
  BY DEF ConsumerInv
<1>6. available \ plugins \in SUBSET Everything /\ available \ plugins \in SUBSET Classes
  BY <1>4, EverythingTyped
<1> HIDE DEF r, H, plugins
<1>7. Holds(added, H \cup (available \ plugins))
  BY <1>1, <1>3, <1>4, <1>5, <1>6, HoldsRegistered
<1>8. H \cup (available \ plugins) = H \cup available
  BY DEF plugins
<1>9. Sound(added)
  BY <1>1, <1>3, <1>6, RegisterSound
<1>10. gone \in SUBSET (H \cup available) /\ H \cup available \in SUBSET Everything
  BY <1>4 DEF plugins
<1>11. Holds(synced, (H \cup available) \ gone)
  BY <1>2, <1>7, <1>8, <1>9, <1>10, HoldsUnregistered
<1> QED  BY <1>3, <1>11 DEF H, r, plugins

\* Every step keeps what is known of the consumer's registry.
LEMMA ConsumerStep ==
  ASSUME DistinctNames, IInv, ApiInv, ConsumerInv, [Next]_vars
  PROVE  ConsumerInv'
<1> USE DEF pluginRows, apiHandler
<1>0. syncs \in Nat
  BY DEF IInv, TypeOK
<1>1. CASE Update \/ Upgrade
  BY <1>1, HandlerTellsConsumer, ConsumerRests DEF Pending
<1>2. ASSUME NEW p \in Packages, Publish(p) \/ RefreshPluginsRecord(p) \/ DeletePlugin(p)
      PROVE  ConsumerInv'
  <2>1. UNCHANGED <<pip, registry, apiPc, worker, syncs, unsynced>>
    BY <1>2 DEF Publish, RefreshPluginsRecord, DeletePlugin
  <2> QED  BY <2>1, ConsumerRests DEF Quiet, Adding, Removing, Pending
<1>3. CASE CancelSyncs
  BY <1>3, ConsumerRests DEF CancelSyncs, Pending
<1>4. CASE SyncStarts
  <2>1. workPc' = "syncing" /\ basic' = Installed /\ UNCHANGED <<pip, registry>>
    BY <1>4 DEF SyncStarts, Installed
  <2>2. Aim' = Installed'
    BY <2>1, KeepInstalled DEF Aim
  <2> QED  BY <2>1, <2>2 DEF ConsumerInv, Holds, Held, Registered, Installed
<1>5. CASE SyncRuns
  <2> DEFINE H == Held(registry["consumer"])
             after == (H \cup available) \ ((H \ basic) \ available)
  <2>1. Holds(registry'["consumer"], after)
    BY <1>5, SyncHolds
  <2>2. Core \subseteq H /\ H \subseteq Everything /\ Core \subseteq basic
    BY <1>5 DEF ConsumerInv, SyncRuns
  <2>3. after \in SUBSET Everything /\ Core \subseteq after
    BY <2>2, EverythingTyped DEF Everything
  <2>4. Held(registry'["consumer"]) = after
    BY <2>1, <2>3, HoldsHeld
  <2>5. /\ UNCHANGED <<pip, apiPc, syncs, unsynced>>
        /\ workPc = "syncing" /\ workPc' = "idle"
    BY <1>5 DEF SyncRuns
  <2>6. ASSUME ~Pending', Quiet'  PROVE Aim' = Installed'
    <3>1. basic = Installed
      BY <2>5, <2>6 DEF ConsumerInv, Aim, Pending, Quiet, Adding, Removing
    <3>2. after = Installed
      BY <2>2, <3>1 DEF Installed
    <3>3. Aim' = Held(registry'["consumer"])
      BY <2>5 DEF Aim
    <3> QED  BY <2>4, <2>5, <3>2, <3>3, KeepInstalled
  <2> HIDE DEF after
  <2>7. Held(registry["consumer"])' = after
    BY <2>4 DEF Held, Registered
  <2>8. Holds(registry["consumer"], Held(registry["consumer"]))'
    BY <2>1, <2>4 DEF Holds, Held, Registered
  <2>9. Everything' = Everything
    BY DEF Everything, PluginClasses
  <2> QED  BY <2>3, <2>5, <2>6, <2>7, <2>8, <2>9 DEF ConsumerInv
<1>6. CASE Restart
  <2>1. registry'["consumer"] \in Started(available) /\ UNCHANGED pip /\ workPc' = "idle"
    BY <1>6 DEF Restart, Processes
  <2>2. Holds(registry'["consumer"], Installed) /\ Installed \in SUBSET Everything
    BY <2>1, StartedHolds, EverythingTyped DEF Installed, Everything
  <2>3. Held(registry'["consumer"]) = Installed
    BY <2>2, HoldsHeld
  <2>4. Aim' = Held(registry'["consumer"])
    BY <2>1 DEF Aim
  <2>5. Installed' = Installed /\ Core \subseteq Installed
    BY <2>1, KeepInstalled DEF Installed
  <2>6. Everything' = Everything
    BY DEF Everything, PluginClasses
  <2> QED  BY <2>1, <2>2, <2>3, <2>4, <2>5, <2>6 DEF ConsumerInv, Holds, Held, Registered
<1>7. CASE UNCHANGED vars
  <2>1. UNCHANGED <<pip, registry, apiPc, worker, syncs, unsynced>>
    BY <1>7 DEF vars
  <2> QED  BY <2>1, ConsumerRests DEF Quiet, Adding, Removing, Pending
<1> QED  BY <1>1, <1>2, <1>3, <1>4, <1>5, <1>6, <1>7 DEF Next, Sync

\* A fault is one more than no fault.
LEMMA FaultCounts == IInv /\ Fault => faults' # 0
BY PluginsAssumption DEF IInv, TypeOK, Fault

\* Steps that touch neither pip, nor the rows, nor the handler.
LEMMA RowsRest ==
  ASSUME IInv, RowsInv, UNCHANGED <<pip, status, apiHandler>>, UNCHANGED faults \/ Fault
  PROVE  RowsInv'
BY FaultCounts DEF RowsInv, apiHandler, Adding

\* Every step keeps the rows what pip says, while nothing has failed.
LEMMA RowsStep ==
  ASSUME DistinctNames, IInv, ApiInv, RowsInv, [Next]_vars
  PROVE  RowsInv'
<1> USE DEF pluginRows, apiHandler
<1>0. /\ pip \in [Packages -> Nat] /\ published \in [Packages -> 1..MaxVersion] /\ faults \in Nat
      /\ status \in [Packages -> {"absent", "REGISTERED", "INSTALLED"}]
  BY DEF IInv, TypeOK
<1>1. ASSUME NEW p \in Packages, Install(p)  PROVE RowsInv'
  <2>1. /\ apiPc = "idle" /\ apiPc' = "installing" /\ apiPkg' = p
        /\ UNCHANGED <<status, faults>> /\ PipInstall(p)
    BY <1>1 DEF Install, Handle
  <2>2. pip'[p] # 0 /\ (\A q \in Packages : pip[q] # 0 => pip'[q] # 0) /\ (pip[p] # 0 => found' = {})
    BY <2>1, PipInstalls
  <2> QED  BY <2>1, <2>2 DEF RowsInv, Adding
<1>2. ASSUME NEW p \in Packages, Uninstall(p) \/ UpgradeInstalled(p)  PROVE RowsInv'
  <2>1. /\ apiPc = "idle" /\ apiPc' \in {"uninstalling", "upgradeRemoves"} /\ apiPkg' = p
        /\ UNCHANGED <<status, faults>> /\ PipUninstall(p)
    BY <1>2 DEF Uninstall, UpgradeInstalled, Handle
  <2>2. \A q \in Packages : q # p => pip'[q] = pip[q]
    BY <2>1, PipUninstalls
  <2> QED  BY <2>1, <2>2 DEF RowsInv, Adding
<1>3. ASSUME NEW p \in Packages, UpgradeRegistered(p)  PROVE RowsInv'
  <2>1. /\ apiPc = "idle" /\ apiPc' = "upgradeFetches" /\ UNCHANGED <<pip, status, faults>>
    BY <1>3 DEF UpgradeRegistered, Handle
  <2> QED  BY <2>1 DEF RowsInv, Adding
<1>4. CASE InstallEnds
  <2>1. ~Conflict
    BY <1>4, NoConflict DEF InstallEnds
  <2>2. /\ PutAndRecord("INSTALLED") /\ UNCHANGED pip /\ apiPc = "installing" /\ apiPc' = "idle"
    BY <1>4, <2>1 DEF InstallEnds, Done, Handle
  <2>3. status' = status \/ status' = [status EXCEPT ![apiPkg] = "INSTALLED"]
    BY <2>2 DEF PutAndRecord
  <2>4. faults' = 0 => faults = 0
    BY <2>2, FaultCounts DEF PutAndRecord, PutSync, PutFails
  <2> QED  BY <1>0, <2>2, <2>3, <2>4 DEF RowsInv, Adding
<1>5. CASE UninstallEnds
  <2>1. CanUnregister(registry["api"], found)
    BY <1>5, RemovalFinds DEF UninstallEnds, Removing
  <2>2. /\ PutAndRecord("REGISTERED") /\ UNCHANGED pip /\ apiPc = "uninstalling" /\ apiPc' = "idle"
    BY <1>5, <2>1 DEF UninstallEnds, Unregistered, Done, Handle
  <2>3. \/ faults' # 0
        \/ faults' = faults /\ status' = [status EXCEPT ![apiPkg] = "REGISTERED"]
    BY <2>2, FaultCounts DEF PutAndRecord, PutSync, PutFails
  <2> QED  BY <1>0, <2>2, <2>3 DEF RowsInv, Adding
<1>6. CASE UpgradeUnregisters
  <2>1. CanUnregister(registry["api"], found)
    BY <1>6, RemovalFinds DEF UpgradeUnregisters, Removing
  <2>2. /\ UNCHANGED <<pip, status>> /\ apiPc = "upgradeRemoves"
        /\ \/ UNCHANGED faults /\ apiPc' = "upgradeFetches" /\ apiPkg' = apiPkg
           \/ Fault /\ apiPc' = "idle"
    BY <1>6, <2>1 DEF UpgradeUnregisters, Unregistered, Done, Handle, PutSync, PutFails
  <2> QED  BY <2>2, FaultCounts DEF RowsInv, Adding
<1>7. CASE UpgradeInstalls
  <2>1. apiPc = "upgradeFetches" /\ UNCHANGED status
    BY <1>7 DEF UpgradeInstalls
  <2>2. CASE PipInstall(apiPkg) /\ Handle("upgradeAdds", apiPkg) /\ UNCHANGED faults
    <3>1. apiPkg \in Packages
      BY <2>1 DEF ApiInv, HandlerInv
    <3>2. pip'[apiPkg] # 0 /\ (\A q \in Packages : pip[q] # 0 => pip'[q] # 0)
      BY <2>2, <3>1, PipInstalls
    <3> QED  BY <2>1, <2>2, <3>2 DEF RowsInv, Adding, Handle
  <2>3. CASE Fault /\ Done /\ UNCHANGED pip
    BY <2>1, <2>3, FaultCounts DEF RowsInv, Adding, Done, Handle
  <2> QED  BY <1>7, <2>2, <2>3 DEF UpgradeInstalls
<1>8. CASE UpgradeRegisters
  <2>1. /\ UNCHANGED <<pip, status>> /\ apiPc = "upgradeAdds" /\ apiPc' = "idle"
        /\ (UNCHANGED faults \/ Fault)
    BY <1>8 DEF UpgradeRegisters, Done, Handle, PutSync, PutFails
  <2> QED  BY <2>1, FaultCounts DEF RowsInv, Adding
<1>9. ASSUME NEW p \in Packages, RefreshPluginsRecord(p) \/ DeletePlugin(p)  PROVE RowsInv'
  <2>1. /\ UNCHANGED <<pip, apiHandler, faults>>
        /\ \A q \in Packages : status'[q] = "INSTALLED" => status[q] = "INSTALLED"
        /\ apiPc = "idle"
    BY <1>0, <1>9 DEF RefreshPluginsRecord, DeletePlugin
  <2> QED  BY <2>1 DEF RowsInv, Adding
<1>10. ASSUME NEW p \in Packages, Publish(p)  PROVE RowsInv'
  BY <1>10, RowsRest DEF Publish
<1>11. CASE Sync
  BY <1>11, RowsRest DEF Sync, CancelSyncs, SyncStarts, SyncRuns
<1>12. CASE Restart
  <2>1. /\ UNCHANGED <<pip, status>> /\ apiPc' = "idle"
        /\ (apiPc = "idle" /\ UNCHANGED faults) \/ Fault
    BY <1>12 DEF Restart, Done, Handle
  <2> QED  BY <2>1, FaultCounts DEF RowsInv, Adding
<1>13. CASE UNCHANGED vars
  BY <1>13, RowsRest DEF vars
<1> QED
  BY <1>1, <1>2, <1>3, <1>4, <1>5, <1>6, <1>7, <1>8, <1>9, <1>10, <1>11, <1>12, <1>13
     DEF Next, Update, Upgrade

-----------------------------------------------------------------------------
(* The theorems that need distinct names *)

UpToDateInv == ApiInv /\ ConsumerInv /\ RowsInv

\* The program starts with everything up to date.
LEMMA InitUpToDate == ASSUME DistinctNames, Init  PROVE UpToDateInv
<1>1. available = {}
  BY DEF Init, available
<1>2. ASSUME NEW x \in Processes  PROVE Holds(registry[x], Core)
  <2>1. registry[x] \in Started({})
    BY DEF Init
  <2>2. {} \in SUBSET PluginClasses /\ Core \cup {} = Core
    OBVIOUS
  <2> QED  BY <2>1, <2>2, StartedHolds
<1>3. Installed = Core /\ Core \in SUBSET Everything
  BY <1>1 DEF Installed, Everything
<1>4. ApiInv
  BY <1>2, <1>3 DEF Init, ApiInv, HandlerInv, ApiHolds, Adding, Removing, Processes
<1>5. Held(registry["consumer"]) = Core
  BY <1>2, <1>3, HoldsHeld DEF Processes
<1>6. ConsumerInv
  BY <1>2, <1>3, <1>5 DEF Init, ConsumerInv, Aim, Processes
<1>7. RowsInv
  BY DEF Init, RowsInv, Adding
<1> QED  BY <1>4, <1>6, <1>7 DEF UpToDateInv

\* With distinct names, and whatever fails or is started again, the registries
\* are what pip's packages say.
LEMMA UpToDateInvariance == ASSUME DistinctNames  PROVE Spec => []UpToDateInv
<1>1. Init => UpToDateInv
  BY InitUpToDate
<1>2. IInv /\ UpToDateInv /\ [Next]_vars => UpToDateInv'
  BY ApiStep, ConsumerStep, RowsStep DEF UpToDateInv
<1> QED  BY <1>1, <1>2, Invariance, PTL DEF Spec

\* A registry that holds what is installed is up to date.
LEMMA HoldsUpToDate == ASSUME NEW x \in Processes, Holds(registry[x], Installed)  PROVE UpToDate(x)
BY DEF Holds, UpToDate, Installed

\* Between two requests the API's registry has DashAI's components and those of
\* the installed packages: no failure, cancelled job or restart separates the
\* register from pip, if no two components have the same name.
THEOREM ApiUpToDateHolds == ASSUME DistinctNames  PROVE Spec => []ApiUpToDate
<1>1. UpToDateInv => ApiUpToDate
  <2> SUFFICES ASSUME UpToDateInv, apiPc = "idle"  PROVE UpToDate("api")
    BY DEF ApiUpToDate
  <2>1. Holds(registry["api"], Installed)
    BY DEF UpToDateInv, ApiInv, ApiHolds, Adding, Removing
  <2> QED  BY <2>1, HoldsUpToDate DEF Processes
<1> QED  BY <1>1, UpToDateInvariance, PTL

\* The consumer catches up: a sync job that reads pip before a change and runs
\* after it does no harm, as that change puts another one.
THEOREM ConsumerUpToDateHolds == ASSUME DistinctNames  PROVE Spec => []ConsumerUpToDate
<1>1. IInv /\ UpToDateInv => ConsumerUpToDate
  <2> SUFFICES ASSUME IInv, UpToDateInv, apiPc = "idle", workPc = "idle", syncs = 0, ~unsynced
               PROVE  UpToDate("consumer")
    BY DEF ConsumerUpToDate
  <2>1. Held(registry["consumer"]) = Installed
    BY DEF UpToDateInv, ConsumerInv, Pending, Quiet, Adding, Removing, Aim
  <2>2. Holds(registry["consumer"], Installed)
    BY <2>1 DEF UpToDateInv, ConsumerInv
  <2> QED  BY <2>2, HoldsUpToDate DEF Processes
<1> QED  BY <1>1, Invariance, UpToDateInvariance, PTL

\* Unregistering never raises: every class and every relation it is to remove
\* is there, although registrations add up and restarts begin anew.
THEOREM UnregisterFindsHolds == ASSUME DistinctNames  PROVE Spec => []UnregisterFinds
<1>1. IInv /\ UpToDateInv => UnregisterFinds
  BY RemovalFinds DEF UpToDateInv, UnregisterFinds, Removing
<1> QED  BY <1>1, Invariance, UpToDateInvariance, PTL

\* While nothing fails, what a row says is installed is installed.
THEOREM InstalledIsInstalledHolds == ASSUME DistinctNames  PROVE Spec => []InstalledIsInstalled
<1>1. UpToDateInv => InstalledIsInstalled
  BY DEF UpToDateInv, RowsInv, InstalledIsInstalled
<1> QED  BY <1>1, UpToDateInvariance, PTL
=============================================================================

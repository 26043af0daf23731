------------------------------ MODULE Plugins ------------------------------
(***************************************************************************)
(* The plugins: endpoints/plugins.py with plugins/utils.py in the API, and *)
(* SyncComponentsJob in the consumer.  pip's packages are shared by both   *)
(* processes; each has a component registry of its own, and the consumer's *)
(* is brought up to date by sync jobs that the API puts in the queue.      *)
(*                                                                         *)
(* pip runs in a subprocess the handler waits for with the event loop      *)
(* blocked, so one handler is in progress at a time; the consumer goes on. *)
(***************************************************************************)
EXTENDS ComponentRegistry

CONSTANTS
  Packages,       \* DashAI plugins on PyPI
  Core,           \* the classes DashAI itself brings
  ComponentsOf,   \* the entry points of a package, in all its versions
  NoPackage,
  MaxVersion,     \* bound on the versions of a package
  MaxRequests,    \* bound on requests that change pip's packages
  MaxFaults       \* bound on failures and on crashes with work in hand

Components == [Packages -> SUBSET Classes]
OneOfEachName(C) == \A c, d \in C : NameOf[c] = NameOf[d] => c = d

ASSUME PluginsAssumption ==
  /\ Core \subseteq Classes /\ OneOfEachName(Core)
  /\ ComponentsOf \in Components
  /\ \A p \in Packages : OneOfEachName(ComponentsOf[p])
  /\ NoPackage \notin Packages
  /\ MaxVersion \in Nat \ {0} /\ MaxRequests \in Nat /\ MaxFaults \in Nat

VARIABLES
  published,          \* the version of a package on PyPI
  pip,                \* the version installed, 0 for none
  status,             \* the row of a plugin: its status, "absent" for no row
  installed_version,  \* and what it says is installed
  registry,           \* the component registries of "api" and "consumer"
  apiPc, apiPkg, found,  \* the handler in progress and the classes pip changed
  syncs,              \* sync jobs that wait in the queue
  workPc, basic,      \* the sync job in progress: its basic_components
  unsynced,           \* a sync job was cancelled or not put, and none started since
  requests, faults

pluginRows == <<status, installed_version>>
apiHandler == <<apiPc, apiPkg, found>>
worker == <<workPc, basic>>
vars == <<published, pip, pluginRows, registry, apiHandler, syncs, worker, unsynced, requests, faults>>

Processes == {"api", "consumer"}
ApiPcs == {"idle", "installing", "uninstalling", "upgradeRemoves", "upgradeFetches", "upgradeAdds"}

Fault == faults < MaxFaults /\ faults' = faults + 1
Request == requests < MaxRequests /\ requests' = requests + 1

\* get_available_plugins.
available == UNION {ComponentsOf[p] : p \in {q \in Packages : pip[q] # 0}}

\* A process that starts has what DashAI brings and what is installed.
Started(packages) ==
  UNION {RegisterAll(r, packages) : r \in RegisterAll(EmptyRegistry, Core)}

Init ==
  /\ published = [p \in Packages |-> 1]
  /\ pip = [p \in Packages |-> 0]
  /\ status = [p \in Packages |-> "absent"]
  /\ installed_version = [p \in Packages |-> 0]
  /\ registry \in [Processes -> Started({})]
  /\ apiPc = "idle" /\ apiPkg = NoPackage /\ found = {}
  /\ syncs = 0 /\ workPc = "idle" /\ basic = {} /\ unsynced = FALSE
  /\ requests = 0 /\ faults = 0

-----------------------------------------------------------------------------
(* The rows *)

\* Somebody publishes a new version on PyPI.
Publish(p) ==
  /\ published[p] < MaxVersion
  /\ published' = [published EXCEPT ![p] = @ + 1]
  /\ UNCHANGED <<pip, pluginRows, registry, apiHandler, syncs, worker, unsynced, requests, faults>>

\* A plugin that has a row keeps its status and installed_version.
RefreshPluginsRecord(p) ==
  /\ apiPc = "idle" /\ status[p] = "absent"
  /\ status' = [status EXCEPT ![p] = "REGISTERED"]
  /\ installed_version' = [installed_version EXCEPT ![p] = published[p]]
  /\ UNCHANGED <<published, pip, registry, apiHandler, syncs, worker, unsynced, requests, faults>>

DeletePlugin(p) ==
  /\ apiPc = "idle" /\ status[p] # "absent"
  /\ status' = [status EXCEPT ![p] = "absent"]
  /\ installed_version' = [installed_version EXCEPT ![p] = 0]
  /\ UNCHANGED <<published, pip, registry, apiHandler, syncs, worker, unsynced, requests, faults>>

-----------------------------------------------------------------------------
(* update_plugin *)

\* execute_pip_command; what changed is found by comparing the entry points.
PipInstall(p) ==
  /\ pip' = [pip EXCEPT ![p] = IF @ = 0 THEN published[p] ELSE @]
  /\ found' = available' \ available
PipUninstall(p) ==
  /\ pip' = [pip EXCEPT ![p] = 0]
  /\ found' = available \ available'

Handle(pc, p) == apiPc' = pc /\ apiPkg' = p
Done == Handle("idle", NoPackage) /\ found' = {}

\* The queue takes the sync job, or the handler ends here.
PutSync == syncs' = syncs + 1 /\ UNCHANGED <<unsynced, faults>>
PutFails == unsynced' = TRUE /\ Fault /\ UNCHANGED syncs

\* The sync job, and then the status: each may fail.
PutAndRecord(s) ==
  \/ PutSync /\ status' = [status EXCEPT ![apiPkg] = s]
  \/ syncs' = syncs + 1 /\ Fault /\ UNCHANGED <<status, unsynced>>
  \/ PutFails /\ UNCHANGED status

Install(p) ==
  /\ apiPc = "idle" /\ status[p] # "absent"
  /\ Request
  /\ PipInstall(p)
  /\ Handle("installing", p)
  /\ UNCHANGED <<published, pluginRows, registry, syncs, worker, unsynced, faults>>

Conflict == NamesOf(found) \cap Registered(registry["api"]) # {}

\* "A component of the plugin is already in the register".
InstallAborts ==
  pip' = [pip EXCEPT ![apiPkg] = 0] /\ UNCHANGED <<registry, status, syncs, unsynced, faults>>

\* Mutant: the registration is left to the sync job.
InstallEndsUnregistered ==
  /\ apiPc = "installing"
  /\ IF Conflict THEN InstallAborts
     ELSE PutAndRecord("INSTALLED") /\ UNCHANGED <<pip, registry>>
  /\ Done
  /\ UNCHANGED <<published, installed_version, worker, requests>>

InstallEnds ==
  /\ apiPc = "installing"
  /\ IF Conflict THEN InstallAborts
     ELSE /\ \E r \in RegisterAll(registry["api"], found) : registry' = [registry EXCEPT !["api"] = r]
          /\ PutAndRecord("INSTALLED") /\ UNCHANGED pip
  /\ Done
  /\ UNCHANGED <<published, installed_version, worker, requests>>

Uninstall(p) ==
  /\ apiPc = "idle" /\ status[p] = "INSTALLED"
  /\ Request
  /\ PipUninstall(p)
  /\ Handle("uninstalling", p)
  /\ UNCHANGED <<published, pluginRows, registry, syncs, worker, unsynced, faults>>

\* An exception out of the registry ends the handler.
Unregistered(then) ==
  /\ \E r \in UnregisterAll(registry["api"], found) : registry' = [registry EXCEPT !["api"] = r]
  /\ IF CanUnregister(registry["api"], found) THEN then
     ELSE Done /\ UNCHANGED <<status, syncs, unsynced, faults>>

\* Mutant: the components stay registered in the API.
UninstallEndsRegistered ==
  /\ apiPc = "uninstalling"
  /\ PutAndRecord("REGISTERED") /\ Done
  /\ UNCHANGED <<published, pip, installed_version, registry, worker, requests>>

\* Mutant: the status is not set.
UninstallEndsUnrecorded ==
  /\ apiPc = "uninstalling"
  /\ Unregistered((PutSync \/ PutFails) /\ UNCHANGED status /\ Done)
  /\ UNCHANGED <<published, pip, installed_version, worker, requests>>

\* Mutant: the consumer is not told.
UninstallEndsSilent ==
  /\ apiPc = "uninstalling"
  /\ Unregistered(/\ status' = [status EXCEPT ![apiPkg] = "REGISTERED"]
                  /\ Done /\ UNCHANGED <<syncs, unsynced, faults>>)
  /\ UNCHANGED <<published, pip, installed_version, worker, requests>>

UninstallEnds ==
  /\ apiPc = "uninstalling"
  /\ Unregistered(PutAndRecord("REGISTERED") /\ Done)
  /\ UNCHANGED <<published, pip, installed_version, worker, requests>>

-----------------------------------------------------------------------------
(* upgrade_plugin *)

UpgradeInstalled(p) ==
  /\ apiPc = "idle" /\ status[p] = "INSTALLED"
  /\ Request
  /\ PipUninstall(p)
  /\ Handle("upgradeRemoves", p)
  /\ UNCHANGED <<published, pluginRows, registry, syncs, worker, unsynced, faults>>

\* A page that is out of date may ask for it.
UpgradeRegistered(p) ==
  /\ apiPc = "idle" /\ status[p] = "REGISTERED"
  /\ Request
  /\ Handle("upgradeFetches", p)
  /\ UNCHANGED <<published, pip, pluginRows, registry, found, syncs, worker, unsynced, faults>>

UpgradeUnregisters ==
  /\ apiPc = "upgradeRemoves"
  /\ Unregistered(/\ UNCHANGED status
                  /\ \/ PutSync /\ Handle("upgradeFetches", apiPkg) /\ found' = {}
                     \/ PutFails /\ Done)
  /\ UNCHANGED <<published, pip, installed_version, worker, requests>>

\* PyPI may not answer, and pip may fail.
UpgradeInstalls ==
  /\ apiPc = "upgradeFetches"
  /\ \/ PipInstall(apiPkg) /\ Handle("upgradeAdds", apiPkg) /\ UNCHANGED faults
     \/ Fault /\ Done /\ UNCHANGED pip
  /\ UNCHANGED <<published, pluginRows, registry, syncs, worker, unsynced, requests>>

\* upgrade_plugin_info_in_db has no @inject: its session_factory is a Depends
\* object, and calling it is a TypeError.  The row stays as it was.
UpgradeRegisters ==
  /\ apiPc = "upgradeAdds"
  /\ \E r \in RegisterAll(registry["api"], found) : registry' = [registry EXCEPT !["api"] = r]
  /\ PutSync \/ PutFails
  /\ Done
  /\ UNCHANGED <<published, pip, pluginRows, worker, requests>>

-----------------------------------------------------------------------------
(* The sync jobs *)

\* Clear All, or the cancelling of the jobs one by one.
CancelSyncs ==
  /\ apiPc = "idle" /\ syncs > 0
  /\ syncs' = 0 /\ unsynced' = TRUE
  /\ UNCHANGED <<published, pip, pluginRows, registry, apiHandler, worker, requests, faults>>

\* Mutant: the queue is not looked at.
SyncStartsUnasked ==
  /\ workPc = "idle"
  /\ workPc' = "syncing" /\ basic' = Core \cup available
  /\ syncs' = syncs - 1 /\ unsynced' = FALSE
  /\ UNCHANGED <<published, pip, pluginRows, registry, apiHandler, requests, faults>>

\* get_initial_components has the installed plugins among the basic ones.
SyncStarts ==
  /\ workPc = "idle" /\ syncs > 0
  /\ workPc' = "syncing" /\ basic' = Core \cup available
  /\ syncs' = syncs - 1 /\ unsynced' = FALSE
  /\ UNCHANGED <<published, pip, pluginRows, registry, apiHandler, requests, faults>>

\* pip may have changed when the installed plugins are read again.
SyncRuns ==
  /\ workPc = "syncing"
  /\ LET r       == registry["consumer"]
         plugins == {r.classes[n] : n \in Registered(r)} \ basic
     IN \E added \in RegisterAll(r, available \ plugins) :
          \E synced \in UnregisterAll(added, plugins \ available) :
             registry' = [registry EXCEPT !["consumer"] = synced]
  /\ workPc' = "idle" /\ basic' = {}
  /\ UNCHANGED <<published, pip, pluginRows, apiHandler, syncs, unsynced, requests, faults>>

-----------------------------------------------------------------------------
\* The program stops, or crashes, and is started again: what was in hand is
\* lost, what was in the queue is not.
Restart ==
  /\ registry' \in [Processes -> Started(available)]
  /\ Done
  /\ workPc' = "idle" /\ basic' = {} /\ unsynced' = FALSE
  /\ IF apiPc = "idle" /\ workPc = "idle" THEN UNCHANGED faults ELSE Fault
  /\ UNCHANGED <<published, pip, pluginRows, syncs, requests>>

Update ==
  \/ \E p \in Packages : Install(p) \/ Uninstall(p)
  \/ InstallEnds \/ UninstallEnds

Upgrade ==
  \/ \E p \in Packages : UpgradeInstalled(p) \/ UpgradeRegistered(p)
  \/ UpgradeUnregisters \/ UpgradeInstalls \/ UpgradeRegisters

Sync == CancelSyncs \/ SyncStarts \/ SyncRuns

Next ==
  \/ \E p \in Packages : Publish(p) \/ RefreshPluginsRecord(p) \/ DeletePlugin(p)
  \/ Update \/ Upgrade \/ Sync \/ Restart

Spec == Init /\ [][Next]_vars

-----------------------------------------------------------------------------
(* Properties *)

\* Every variable keeps to its type.
TypeOK ==
  /\ published \in [Packages -> 1..MaxVersion]
  /\ pip \in [Packages -> Nat]
  /\ status \in [Packages -> {"absent", "REGISTERED", "INSTALLED"}]
  /\ installed_version \in [Packages -> Nat]
  /\ registry \in [Processes -> Registry]
  /\ apiPc \in ApiPcs /\ apiPkg \in Packages \cup {NoPackage} /\ found \subseteq Classes
  /\ syncs \in Nat /\ workPc \in {"idle", "syncing"} /\ basic \subseteq Classes
  /\ unsynced \in BOOLEAN /\ requests \in Nat /\ faults \in Nat

\* "Note that the relations are duplicated and hopefully, consistent between
\* them": each list has the other component as often.
RelationsConsistent ==
  \A x \in Processes, a, b \in Names :
    registry[x].relations[a][b] = registry[x].relations[b][a]

\* A registry has the components DashAI brings and those of the packages that
\* are installed, and no other.
UpToDate(x) ==
  \A n \in Names :
    LET C == Named(Core \cup available, n) IN
    registry[x].classes[n] \in IF C = {} THEN {NoClass} ELSE C

\* Between two requests the API's registry is up to date, whatever failed.
ApiUpToDate == apiPc = "idle" => UpToDate("api")

\* Once the queue has no sync job left, and none is running, so is the
\* consumer's, unless a sync job was cancelled or could not be put.
ConsumerUpToDate ==
  (apiPc = "idle" /\ workPc = "idle" /\ syncs = 0 /\ ~unsynced) => UpToDate("consumer")

\* remove_relationship is never asked for a relation that is not there, and
\* no name is popped twice.
UnregisterFinds ==
  apiPc \in {"uninstalling", "upgradeRemoves"} => CanUnregister(registry["api"], found)

\* While nothing fails, a plugin whose row says INSTALLED is.
InstalledIsInstalled ==
  (apiPc = "idle" /\ faults = 0) => \A p \in Packages : status[p] = "INSTALLED" => pip[p] # 0

\* upgrade_plugin: "Upgrade the plugin version".
UpgradeRecorded ==
  [][UpgradeRegisters => installed_version'[apiPkg] = pip[apiPkg]]_vars
=============================================================================

----------------------------- MODULE MCPlugins -----------------------------
EXTENDS Plugins

\* DashAI brings a task.  One plugin is a model for it and for the task that
\* the other plugin brings.
MCNames == {"Task", "PluginModel", "PluginTask"}
MCClasses == {"core.Task", "model.PluginModel", "task.PluginTask", "task.Task"}
MCCore == {"core.Task"}
MCNameOf ==
  [c \in MCClasses |->
     CASE c = "model.PluginModel" -> "PluginModel"
       [] c = "task.PluginTask"   -> "PluginTask"
       [] OTHER                   -> "Task"]
MCCompatible ==
  [c \in MCClasses |-> IF c = "model.PluginModel" THEN {"Task", "PluginTask"} ELSE {}]

MCPackages == {"model", "task"}
MCComponentsOf ==
  [p \in MCPackages |-> IF p = "model" THEN {"model.PluginModel"} ELSE {"task.PluginTask"}]

\* The task plugin has, besides, a component with a name of DashAI's.
ConflictingComponentsOf ==
  [p \in MCPackages |-> IF p = "model" THEN {"model.PluginModel"} ELSE {"task.PluginTask", "task.Task"}]

\* Without upgrades and restarts, the API registers nothing under a name that is
\* taken.
UpdatesSpec ==
  Init /\ [][\/ \E p \in Packages : RefreshPluginsRecord(p)
             \/ Update \/ Sync]_vars
=============================================================================

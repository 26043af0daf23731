------------------------------- MODULE MCParts -------------------------------
(* Five components that share no state, checked in one run like those of    *)
(* MCPages: the datasets' page, the metrics of one run, the chats, the      *)
(* splits of a dataset, and the plugins where one brings a component with a *)
(* name of DashAI's.                                                        *)
EXTENDS MCPlugins, DatasetsPage, LiveMetrics, GenerativeChat, Splits

VARIABLE part

PartsInit ==
  /\ part \in {"datasets", "metrics", "chat", "splits", "plugins"}
  /\ DatasetsPageInit /\ LiveMetricsInit /\ GenerativeChatInit /\ SplitsInit /\ Init

DatasetsStep ==
  /\ part = "datasets" /\ DatasetsPageNext
  /\ UNCHANGED <<part, liveMetricsVars, generativeChatVars, splitsVars, vars>>

MetricsStep ==
  /\ part = "metrics" /\ LiveMetricsNext
  /\ UNCHANGED <<part, datasetsPageVars, generativeChatVars, splitsVars, vars>>

\* Once a key of the chat was handed out again, or an answer went astray, the
\* properties of GenerativeChat claim nothing more than types: such states are
\* checked and not gone on from.
ChatStep ==
  /\ part = "chat" /\ ~confused /\ ~astray /\ GenerativeChatNext
  /\ UNCHANGED <<part, datasetsPageVars, liveMetricsVars, splitsVars, vars>>

SplitsStep ==
  /\ part = "splits" /\ SplitsNext
  /\ UNCHANGED <<part, datasetsPageVars, liveMetricsVars, generativeChatVars, vars>>

PluginsStep ==
  /\ part = "plugins" /\ Next
  /\ UNCHANGED <<part, datasetsPageVars, liveMetricsVars, generativeChatVars, splitsVars>>

PartsNext == DatasetsStep \/ MetricsStep \/ ChatStep \/ SplitsStep \/ PluginsStep

PartsSpec ==
  PartsInit /\ [][PartsNext]_<<datasetsPageVars, liveMetricsVars, generativeChatVars, splitsVars,
                               vars, part>>

-----------------------------------------------------------------------------
\* Tables, queues and pages have the shape they should have, in the component
\* the behaviour is one of.
PartsTypeOK ==
  /\ part = "datasets" => DatasetsPageTypeOK
  /\ part = "chat" => GenerativeChatTypeOK
  /\ part = "splits" => SplitsTypeOK
  /\ part = "plugins" => TypeOK
=============================================================================

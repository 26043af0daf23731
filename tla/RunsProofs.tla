------------------------------ MODULE RunsProofs ------------------------------
(***************************************************************************)
(* The runs of several components, MCPages and MCParts, implement the      *)
(* specification of each of them: what is proved of a component holds in   *)
(* the run that checks it, whatever the bounds.                            *)
(***************************************************************************)
EXTENDS MCPages, MCParts, NotebookProofs, ModelsPageProofs, PartsProofs, PluginsProofs

\* A behaviour of the run of the pages is one of the notebook and of the
\* models' page: a step is one of the component's or leaves it as it was.
THEOREM PagesImplement == PagesSpec => NotebookSpec /\ ModelsPageSpec
<1>1. PagesInit => NotebookInit /\ ModelsPageInit
  BY DEF PagesInit
<1>2. [PagesNext]_<<notebookVars, modelsPageVars, component>> => [NotebookNext]_notebookVars
  BY DEF PagesNext, NotebookStep, ModelsStep
<1>3. [PagesNext]_<<notebookVars, modelsPageVars, component>> => [ModelsPageNext]_modelsPageVars
  BY DEF PagesNext, NotebookStep, ModelsStep
<1> QED
  BY <1>1, <1>2, <1>3, PTL DEF PagesSpec, NotebookSpec, ModelsPageSpec

\* Tables, files, queues and pages have their shapes.
THEOREM PagesTypeHolds == PagesSpec => []PagesTypeOK
<1>1. NotebookTypeOK /\ ModelsPageTypeOK => PagesTypeOK
  BY DEF PagesTypeOK
<1> QED
  BY <1>1, PagesImplement, NotebookTypeHolds, ModelsPageTypeHolds, PTL

\* Every invariant of the run Pages, for any values of its bounds.
THEOREM PagesHold ==
  PagesSpec => [](/\ NotebookIsReplay /\ ExplorerSawItsData /\ ProcessingHasJob
                  /\ FinishedHasModel /\ OpsBelongToModel
                  /\ ShownIsSelected /\ RunShownIsFollowed)
  BY PagesImplement, NotebookIsReplayHolds, ExplorerSawItsDataHolds, ProcessingHasJobHolds,
     FinishedHasModelHolds, OpsBelongToModelHolds, ShownIsSelectedHolds,
     RunShownIsFollowedHolds, PTL

-----------------------------------------------------------------------------
\* A behaviour of the run of the parts is one of the datasets' page, of the
\* metrics, of the chats, of the splits and of the plugins.
THEOREM PartsImplement ==
  PartsSpec => DatasetsPageSpec /\ LiveMetricsSpec /\ GenerativeChatSpec /\ SplitsSpec /\ Spec
<1> DEFINE all == <<datasetsPageVars, liveMetricsVars, generativeChatVars, splitsVars, vars, part>>
<1>1. PartsInit => DatasetsPageInit /\ LiveMetricsInit /\ GenerativeChatInit /\ SplitsInit /\ Init
  BY DEF PartsInit
<1>2. [PartsNext]_all => [DatasetsPageNext]_datasetsPageVars
  BY DEF PartsNext, DatasetsStep, MetricsStep, ChatStep, SplitsStep, PluginsStep
<1>3. [PartsNext]_all => [LiveMetricsNext]_liveMetricsVars
  BY DEF PartsNext, DatasetsStep, MetricsStep, ChatStep, SplitsStep, PluginsStep
<1>4. [PartsNext]_all => [GenerativeChatNext]_generativeChatVars
  BY DEF PartsNext, DatasetsStep, MetricsStep, ChatStep, SplitsStep, PluginsStep
<1>5. [PartsNext]_all => [SplitsNext]_splitsVars
  BY DEF PartsNext, DatasetsStep, MetricsStep, ChatStep, SplitsStep, PluginsStep
<1>6. [PartsNext]_all => [Next]_vars
  BY DEF PartsNext, DatasetsStep, MetricsStep, ChatStep, SplitsStep, PluginsStep
<1> QED
  BY <1>1, <1>2, <1>3, <1>4, <1>5, <1>6, PTL
  DEF PartsSpec, DatasetsPageSpec, LiveMetricsSpec, GenerativeChatSpec, SplitsSpec, Spec

\* Tables, queues and pages have their shapes.
THEOREM PartsTypeHolds == PartsSpec => []PartsTypeOK
<1>1. DatasetsPageTypeOK /\ GenerativeChatTypeOK /\ SplitsTypeOK /\ TypeOK => PartsTypeOK
  BY DEF PartsTypeOK
<1> QED
  BY <1>1, PartsImplement, DatasetsTypeCorrect, ChatTypeCorrect, SplitsTypeHolds,
     TypeCorrect, PTL

\* Every invariant of the run Parts, for any values of its bounds and whatever
\* components the plugins bring.
THEOREM PartsHold ==
  PartsSpec => [](/\ FoldersAreDatasets /\ ListsAreTables /\ ChosenIsListed
                  /\ CursorCovers /\ ClosedHasAll /\ OneRowPerStep
                  /\ RepliesAreOwn /\ ChatIsCurrent /\ SplitIsKept /\ RelationsConsistent)
  BY PartsImplement, FoldersAreDatasetsHolds, ListsAreTablesHolds, ChosenIsListedHolds,
     CursorCoversHolds, ClosedHasAllHolds, OneRowPerStepHolds, RepliesAreOwnHolds,
     ChatIsCurrentHolds, SplitIsKeptHolds, RelationsConsistentHolds, PTL
=============================================================================

------------------------------- MODULE MCPages -------------------------------
(* Two components that share no state, checked in one run: a behaviour is   *)
(* one of one component, the other resting in its initial state.            *)
EXTENDS Notebook, ModelsPage

VARIABLE component

PagesInit ==
  /\ component \in {"notebook", "models"}
  /\ NotebookInit /\ ModelsPageInit

NotebookStep ==
  /\ component = "notebook" /\ NotebookNext
  /\ UNCHANGED <<component, modelsPageVars>>

\* Once work on one run has met other work on it the properties of ModelsPage
\* claim nothing more than types: such states are checked and not gone on from.
ModelsStep ==
  /\ component = "models" /\ ~collided /\ ModelsPageNext
  /\ UNCHANGED <<component, notebookVars>>

PagesNext == NotebookStep \/ ModelsStep

PagesSpec == PagesInit /\ [][PagesNext]_<<notebookVars, modelsPageVars, component>>

-----------------------------------------------------------------------------
\* Tables, files, queues and the page have the shape they should have, in the
\* component the behaviour is one of.
PagesTypeOK ==
  /\ component = "notebook" => NotebookTypeOK
  /\ component = "models" => ModelsPageTypeOK
=============================================================================

SPECIFICATION NotebookPageSpec
CONSTANTS
  MaxBoxes = 2
  MaxLists = 1
  MaxAsked = 1
  MaxVisits = 1
INVARIANTS NotebookPageTypeOK BoxesAreRows
PROPERTIES BoxesSettle
CHECK_DEADLOCK FALSE

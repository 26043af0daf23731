SPECIFICATION SplitsSpec
CONSTANTS
  MaxTableRows = 3
  Shares = 4
INVARIANTS ExplainersSeeTheSplit

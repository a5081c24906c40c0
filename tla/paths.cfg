CONSTANTS
  Letters = {"a"}
  MaxTyped = 8
  Currents <- SomeCurrents
SPECIFICATION PathSpec
INVARIANTS ResolvesNames SplitFits LevelsAreParents
CHECK_DEADLOCK FALSE

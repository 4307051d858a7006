SPECIFICATION LiveSpec
CONSTANTS
  Renders = {r1}
  MaxRenders = 2
PROPERTIES ContextsDisposed
\* All renders of the instance may be over.
CHECK_DEADLOCK FALSE

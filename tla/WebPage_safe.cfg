SPECIFICATION Spec
CONSTANTS
  Orders = {o1}
  Executions = {e1}
  Polls = {p1}
  Clicks = {c1, c2}
  NoId = NoId
INVARIANTS TypeOK TableAgrees OneDelete ContentFollowsRoute

SPECIFICATION FairSpec
CONSTANTS
  Orders = {o1}
  Executions = {}
  Polls = {p1, p2}
  Clicks = {c1}
  NoId = NoId
PROPERTIES DetailsAnswered ImplementsMirror

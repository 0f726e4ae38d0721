\* Two editors, and two handlers that run at the same time.
SPECIFICATION TreeSpec
CONSTANTS
  Asset = {a1, a2}
  Client = {e1, e2}
  Root = Root
  Gone = Gone
  MaxRequests = 2
  MaxHandlers = 2
  MaxLate = 0
INVARIANT TreeIsATree

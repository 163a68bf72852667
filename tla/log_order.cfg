SPECIFICATION AuthzSpec
CONSTANTS
  post = post
  poll = poll
  mass_delete = mass_delete
  Readers = {post, poll}
  Gates = {mass_delete}
  TailRows = 2
  Ring = 3
  MaxLines = 3
  MaxRotates = 0
  PendingWindow = 1
  GrantTTL = 1
  MaxAuthzTime = 1
INVARIANTS
  LineOrder

\* The notification handler, a listener, another handler and two timeouts.
SPECIFICATION Spec
CONSTANTS
  Handlers = {n, l, h}
  Internal = {n}
  Timeouts = {t1, t2}
  None = None
  Listener = l
  Fds = {f1, f2, f3}
SYMMETRY Symmetry
INVARIANT TypeOK
INVARIANT RecordsAgree
INVARIANT CalledAsWatched
INVARIANT TimersMatch
INVARIANT DescriptorsOwned
INVARIANT AcceptsOnlyWhileStarted

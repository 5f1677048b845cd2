SPECIFICATION Spec
CONSTANTS
  p1 = p1
  p2 = p2
  a1 = a1
  a2 = a2
  d1 = d1
  d2 = d2
  Proxies <- MCProxies
  Documents <- MCDocuments
  Download <- MCDownload
  Blank = Blank
  None = None
  MaxDials = 2
INVARIANTS UsesRequestedProxy NeverUsesClosed ResultIsLatest NodesAreHeld AppInv
PROPERTY ButtonsComeBack

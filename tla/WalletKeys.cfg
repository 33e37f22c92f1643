\* Three commands on one wallet, of any kind, three keys to generate, and one call
\* that outlives its lock.
CONSTANTS
    Handler = {h1, h2, h3}
    Key = {k1, k2, k3}
    NoKey = NoKey
    NoHandler = NoHandler
    MaxOverruns = 1
SYMMETRY Symmetry
SPECIFICATION Spec
INVARIANTS TypeOK PublishedIsKept KeyIsActiveVersion PrivateAddressIsOfKey
PROPERTIES OverwrittenKeyIsVersion ProvisionedStaysFrozen
CHECK_DEADLOCK FALSE

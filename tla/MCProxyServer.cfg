\* Three clients, each with a key of its own, and one key that two of them may
\* ask for; a kv_client with two slots: the third key blocks the loop.
CONSTANTS
  c1 = c1  c2 = c2  c3 = c3  k1 = k1  k2 = k2  k3 = k3
  ProxyClient <- Clients
  Key <- Keys
  Asks <- Overlap
  QueueDepth = 2
SPECIFICATION Spec
INVARIANT RepliesWanted
INVARIANT CallbackFinds
INVARIANT OnePlaceEach
PROPERTY ClientsServed
CHECK_DEADLOCK FALSE

SPECIFICATION Spec
CONSTANTS
  Callers = {"c1", "c2", "c3"}
  Before = before
  Ops <- MCOps
  Keys = {"style", "url"}
  Payloads <- MCPayloads
  MaxFails = 1
  Visits = {"v1", "v2", "v3", "v4"}
  Sites = {"a", "b"}
  SiteOf <- MCSiteOf
  Clients = {"gpt", "cli"}
  Grants <- MCGrants
  MaxLosses = 1
  Users = {"u1", "u2", "u3"}
  Signed = "signed"
  Does <- MCDoes
  MaxAttempts = 3
  MaxResets = 1
  Queue <- MCQueue
  Wants <- MCWants
  NoOne = noone
  MaxStops = 1
  MaxHands = 1
  MaxPaid = 2
  MaxOver = 1
CHECK_DEADLOCK FALSE
INVARIANTS TypeOK ErasedUnlessOverlapped WrittenUnlessOverlapped OneRowPerLinkUnlessOverlapped SpentOnceUnlessOverlapped LostOnlyByBreaking BearersAreRecognised SchemaOncePerClient DisconnectSticksUnlessOverlapped SoldOnceUnlessOverlapped

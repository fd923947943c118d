\* The database stores a claim but its answer is lost; the provider tries again.
SPECIFICATION Spec
CONSTANTS
  update = update  trigger = trigger  edit = edit
  Events = {update}
  SlackEvents = {}
  Ignored = {}
  Malformed = Malformed  NoEvent = NoEvent
  Handlers = {h1}
  MaxDeliveries = 2
  MaxCrashes = 0
INVARIANTS AcknowledgedWasProcessed

\* Two members' first commands race, a session is saved, everything may be delivered again.
SPECIFICATION ChatSpec
CONSTANTS
  configure = configure  claim = claim  save = save
  trigger = trigger  edit = edit
  u1 = u1  u2 = u2
  Events = {configure, claim, save, trigger, edit}
  SlackEvents = {trigger}
  Ignored = {edit}
  Buttons = {save}
  Configuring = {configure, claim}
  ReadOnly = {trigger}
  Malformed = Malformed  NoEvent = NoEvent
  Users = {u1, u2}
  Sender <- MCSender
  NoUser = NoUser  NoTarget = NoTarget
  Handlers = {h1, h2}
  MaxDeliveries = 3
  MaxCrashes = 1
  MaxTransfers = 1
INVARIANTS ChatTypeOK ProcessedOnce RowsTellTheTruth OneTargetPerChat ButtonsAsRecorded
PROPERTIES SettledIsFinal ImplementsEvents
SYMMETRY HandlerSymmetry

\* Two students share a browser; slots pass.
SPECIFICATION FairSpec
CONSTANTS
  Account = {a, b}
  MaxTries = 2
  None = None
INVARIANTS FingerprintsTrue ChallengeOfProvider OneAutoPerSlot
PROPERTIES RendersOwn ActionsEnd

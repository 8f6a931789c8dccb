SPECIFICATION Spec
CONSTANTS
  Keys = {U, L, R}
  NoKey = NoKey
  MaxPosts = 3
INVARIANTS TypeOK KeysObeyed

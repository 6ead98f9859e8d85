\* Text that means what it says, and text that means nothing.
SPECIFICATION Spec
CONSTANTS
  Plain <- MCPlain
  Meta <- MCMeta
  Intended <- MCIntended
  Quotings <- MCQuotings
  Broken <- MCBroken
INVARIANTS
  TypeOK
  CommandsArrive
  OptionsInAnyOrder
CHECK_DEADLOCK FALSE

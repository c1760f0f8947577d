SPECIFICATION IndexerSpec
CHECK_DEADLOCK FALSE
CONSTANTS
  Contracts <- MCBoth
  Holders = {alice}
  Minter = Minter
  Unset = Unset
  Transfers = FALSE
  MaxEvents = 2
  PerBlock = 1
  MaxStarts = 1
INVARIANT BooksAgree

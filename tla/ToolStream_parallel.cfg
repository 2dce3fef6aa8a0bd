CONSTANTS
  c1 = c1
  c2 = c2
  c3 = c3
  c4 = c4
  Calls <- ThreeCalls
  IdOf <- SharedIdOf
  SignatureOf <- MCSignatureOf
  Confirmable <- MCConfirmable
  Stopping <- MCConfirmable
  MaxTotal = 2
  MaxFailed = 2
  MaxChunks = 1
  ParallelCalls = TRUE
  RepeatedIds = TRUE
  Cancels = TRUE
  root = root
  anyone = anyone
  server = server
  m1 = m1
  m2 = m2
  m3 = m3
  keyed = keyed
  free = free
  bot = bot
  other = other
  a1 = a1
  q1 = q1
  q2 = q2
  q3 = q3
  d1 = d1
  s1 = s1
  s2 = s2
  s3 = s3
  s4 = s4
  r1 = r1
  h1 = h1
  Root = root
  NoOne = NoOne
  Catalogue <- MCCatalogue
  Keyed = {keyed}
  BotList <- MCBotList
  DefaultBot = bot
  Names <- MCNames
  FirstName <- MCFirstName
  Fallback = {bot}
  Additions = {a1}
  Patches <- MCPatches
  Removals = {d1}
  Selections <- MCSelections
  Renames = {r1}
  Starters = {h1}
  Asked <- MCAsked
  MaxBoots = 2
  Server = server
  Symbols = {"<", "/", "k", "a"}
  ThinkStart <- MCOpen
  ThinkEnd <- MCClose
  MaxText = 6
  MaxPiece = 2
SPECIFICATION MCSpec
CHECK_DEADLOCK FALSE
INVARIANT NoSwallowedError
INVARIANT FinalTextComplete
INVARIANT CallsAccountedFor
INVARIANT PiecesDoNotMatter
INVARIANT OnlyOverlapLoses
PROPERTY CatalogueReady

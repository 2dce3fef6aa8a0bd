CONSTANTS
  s1 = s1
  s2 = s2
  s3 = s3
  a = a
  b = b
  q1 = q1
  d1 = d1
  d2 = d2
  NoRow = NoRow
  Tools <- MCTools
  Stores <- MCStores
  StoreTool <- MCStoreTool
  Expiring = {s1}
  Previous <- MCPrevious
  Disposals <- MCDisposals
  Readers = {q1}
  ReaderTool <- MCReaderTool
  c1 = c1
  c2 = c2
  h = h
  bot = bot
  x = x
  y = y
  m1 = m1
  m2 = m2
  k1 = k1
  p1 = p1
  p2 = p2
  p3 = p3
  u1 = u1
  f1 = f1
  f2 = f2
  i1 = i1
  i2 = i2
  z1 = z1
  z2 = z2
  g1 = g1
  e1 = e1
  e2 = e2
  Nothing = Nothing
  Makes <- MCMakes
  Maker <- MCMaker
  Partner <- MCPartner
  Sends <- MCSends
  SendChat <- MCSendChat
  Gives <- MCGives
  GiveChat <- MCGiveChat
  Publishes <- MCPublishes
  Unpublishes <- MCUnpublishes
  ChatOf <- MCChatOf
  UserOf <- MCUserOf
  Uploads <- MCUploads
  Attachings <- MCAttachings
  Receiver <- MCReceiver
  Assemblings <- MCAssemblings
  MessageOf <- MCMessageOf
  Gets <- MCGets
  Deletes <- MCDeletes
  FileOf <- MCFileOf
  FileUser <- MCFileUser
  Automated = {bot}
  WithMessage = {c1}
  WithFiles = {c1}
  WithConfig = {c1}
  AutoShared = {c1}
  WithInit = {m1}
  ToModel = {f2}
  Images = {f1}
  FirstMessages = {i2}
  OpenAI = {z2}
SPECIFICATION MCSpec
SYMMETRY MCSymmetry
CHECK_DEADLOCK FALSE
INVARIANT DisposedStaysGone
INVARIANT RowsHold
PROPERTY ChatsHold
INVARIANT FilesHold

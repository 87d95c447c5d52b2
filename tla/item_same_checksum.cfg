SPECIFICATION Spec
CONSTANTS
  a = a
  b = b
  v = v
  held = held
  other = other
  mail = mail
  journal = journal
  files = files
  p = p
  q = q
  x = x
  y = y
  Id = {a, b}
  Content = {v, held, other}
  Version <- Documents
  None = None
  PartId = {p, q}
  Data = {x, y}
  NoPart = NoPart
  Archive = {mail, journal, files}
  Unsupported = {files}
  Sources <- PlainOrHeld
  StoredOf <- StoredForm
  SignatureOf <- Signature
  Configs <- Configurations
  SharedRehydrator = FALSE
  LiveSource = FALSE
  MaxRetries = 1
  MaxRuns = 3
INVARIANT
  SameChecksumIsReplay
CHECK_DEADLOCK FALSE

SPECIFICATION Spec
CONSTANTS
  a = a
  b = b
  v = v
  held = held
  other = other
  mail = mail
  journal = journal
  files = files
  p = p
  q = q
  x = x
  y = y
  Id = {a, b}
  Content = {v, held, other}
  Version <- Documents
  None = None
  PartId = {p, q}
  Data = {x, y}
  NoPart = NoPart
  Archive = {mail, journal, files}
  Unsupported = {files}
  Sources <- OnlyCopies
  StoredOf <- StoredForm
  SignatureOf <- Signature
  Configs <- JournalConfigurations
  SharedRehydrator = FALSE
  LiveSource = FALSE
  MaxRetries = 1
  MaxRuns = 2
PROPERTY
  OwnArchiveLabels
CHECK_DEADLOCK FALSE

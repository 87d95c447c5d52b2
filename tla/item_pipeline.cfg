SPECIFICATION Spec
CONSTANTS
  a = a
  b = b
  v = v
  held = held
  other = other
  mail = mail
  journal = journal
  files = files
  p = p
  q = q
  x = x
  y = y
  Id = {a, b}
  Content = {v, held, other}
  Version <- Documents
  None = None
  PartId = {p, q}
  Data = {x, y}
  NoPart = NoPart
  Archive = {mail, journal, files}
  Unsupported = {files}
  Sources <- FourSources
  StoredOf <- StoredForm
  SignatureOf <- Signature
  Configs <- Configurations
  SharedRehydrator = TRUE
  LiveSource = TRUE
  MaxRetries = 1
  MaxRuns = 3
INVARIANTS
  TypeOK
  VerdictsStable
  ReconciliationSound
  UploadedReconciliationExact
  NothingLostSilently
  CountersBalanced
  ReplayReproduces
PROPERTIES
  OnlyScopedDocuments
  UploadsAreIdempotent
CHECK_DEADLOCK FALSE

SPECIFICATION FairSpec
CONSTANTS
  note = note  cover = cover  photo = photo
  essay = essay  draft = draft  diary = diary  raw = raw
  image = image  scan = scan  pdf = pdf  clean = clean  recoded = recoded
  n1 = n1  n2 = n2  p1 = p1  p2 = p2  f1 = f1  f2 = f2
  Docs = {note}
  Assets = {cover, photo}
  Texts = {essay, draft, diary, raw}
  Files = {image, scan, pdf}
  Outputs = {clean, recoded}
  Filenames = {f1, f2, NoName}
  Names = {n1, n2}
  Policies = {p1, p2}
  Configs <- MCConfigs
  FirstVaults <- MCFirstVaults
  EarlierFacts <- MCEarlierFacts
  MaxIds = 2
  MaxEdits = 1
  MaxFaults = 1
  Privacy <- MCPrivacy
  Mentions <- MCMentions
  Named <- MCNamed
  Kind <- MCKind
  CleanCopy <- MCCleanCopy
  FileName <- MCFileName
  NoName = NoName
  Absent = Absent
  Nothing = Nothing
INVARIANTS
  TypeOK
  PublicTreeIsClosed
  ApprovedDocumentsResolve
PROPERTIES
  PublicationsAreAuthorised
  AnswersStand
  NothingNewIsContradicted
  PublicationSettles

SPECIFICATION GeneratorSpec
CONSTANTS
  ea = ea
  eb = eb
  ec = ec
  p1 = p1
  p2 = p2
  Internal = vivrintnl
  None = none
  Package = {p1, p2}
  Entities <- TheEntities
  Projects <- TheProjects
  fa = fa
  fb = fb
  Field = {fa, fb}
  Deleted = deleted
  Kind = kind
  Word = {1, 2, 3, 4, 5, 6}
  Prefix <- WordPrefixes
  Infix <- WordInfixes
  Matched <- WordMatches
  Regular = {1, 2, 4, 5, 6}
  Verbatim <- Literal
  Params <- TheParams
  MaxParams = 3
  LookupTags <- TheTags
  User = {u1, u2}
  Parent = {1, 2}
  ChildLists <- Lists
  MaxChild = 5
  MaxReplacements = 3
  MaxLostCalls = 1
  root = root
  middle = middle
  leaf = leaf
  other = other
  Type = {root, middle, leaf, other}
  Base <- TheBase
  NoType = noType
  Name = {"a", "b"}
  Key = {1, 2}
  Declarations <- TheDeclarations
  Lines <- TheLines
  OwnField = {"f", "g"}
  MaxLines = 6
  Types = {ea, eb, ec}
  NoOne = noOne
  Schemas <- TheSchemas
  ClientTypes = {ea, eb, ec}
  Clients <- TheClients
  Text = text
  Number = number
INVARIANTS
  FailuresExplained LinksExplained WrittenIsComplete QueriesAnswered
  ChildrenOfOneInput NearestWins FiledWhereWritten SchemaExplained
  QueriesExplained
CHECK_DEADLOCK FALSE

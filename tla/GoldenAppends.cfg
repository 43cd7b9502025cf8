SPECIFICATION Spec
CONSTANTS
  HardTokenLimit = 8
  NoName = ""
  Lines <- MCLines
  Bodies <- MCBodies
  Configs <- MCConfigs
  c1 = c1 c2 = c2 d1 = d1
  Names <- MCNames
  Installations <- MCInstallations
  Selected <- MCSelected
  Folded <- MCFolded
  Dotted = {".trash"}
  Markdown = {"n.md", "other.md", "README.md"}
  Ids = {1, 2, 3, 4}
  OfAsked = {1, 3, 4}
  Alien = 2
  PageSize = 2
  MaxWrites = 1
  Minima <- MCMinima
  MaxQuestions = 2
  Sessions = {s1, s2}
  Owner = Owner
  Cards = {c1, c2, d1}
  Areas = {"a", "b"}
  AreaOf <- MCAreaOf
  MinOf <- MCMinOf
  MaxOf <- MCMaxOf
  MaxTotal = 2
  MaxKills = 1
  n1 = n1
  Notes = {n1, n2}
  Drilled = n1
  MaxPoints = 2
  MaxEdits = 1
  MaxFaults = 1
INVARIANTS
  ConcurrentAppendsAreSafe

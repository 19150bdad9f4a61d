SPECIFICATION Spec
CONSTANTS
  plain = plain
  unusable = unusable
  split = split
  keyed = keyed
  llama = llama
  gpt = gpt
  claude = claude
  local = local
  lab = lab
  labWithKey = labWithKey
  cloud = cloud
  Input <- MCInput
  Usable <- MCUsable
  Text <- MCText
  Target <- MCTarget
  Provider <- MCProvider
  Endpoint <- MCEndpoint
  Loopback = {local}
  Display <- MCDisplay
  Default <- MCDefault
  Unset = Unset
  None = None
  Sidebar = TRUE
  MaxRuns = 2
INVARIANTS
  TypeOK
  ConsentIsBound
  NoDelimiterSent
  ResultIsOfInput

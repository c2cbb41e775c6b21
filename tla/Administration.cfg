SPECIFICATION Spec
CONSTANTS
  p1 = p1
  p2 = p2
  e1 = e1
  n1 = n1
  n2 = n2
  k1 = k1
  k2 = k2
  None = None
  Wizards <- MCWizards
  Editors <- MCEditors
  Statements <- MCStatements
  Scripts <- MCScripts
  Ddl <- MCDdl
  Needs <- MCNeeds
  UsersTable = "users"
  ConfigTable = "config"
  FlagRow = "flag"
  KeyOrder <- MCKeyOrder
  Flag = "wizard.completed"
  OciKeys = {"oci.user", "oci.bucket_name"}
  FileKeys = {"oci.user"}
  ModelKey = "genai.model"
  Defaults <- MCDefaults
  Values <- MCValues
  Inputs = {" 7"}
  OciForms <- MCOciForms
  Scalar <- MCScalar
  InFile <- MCInFile
  Names <- MCNames
  Passwords <- MCPasswords
  MaxAccounts = 1
  MaxReloads = 1
  MaxRestarts = 1
SYMMETRY MCSymmetry
INVARIANT TypeOK
INVARIANT CompletionIsHonest
INVARIANT KeyFileFollowsSettings
INVARIANT AdministratorSignsIn
PROPERTY CompletionStays
PROPERTY SavedSettingsAreWhole
CHECK_DEADLOCK FALSE

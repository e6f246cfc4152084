SPECIFICATION Spec
CONSTANTS
  Paths = {"A", "B", "C"}
  Names = {"a", "b", "c"}
  Vars = {"v"}
  Contents <- MCContents
  Workspaces <- MCWorkspaces
  MaxEdits = 2
PROPERTIES ImplementsColdCheck

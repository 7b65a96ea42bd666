CONSTANTS
    NamespaceFlags <- MCNamespaceFlags
    PVCFlags <- MCPVCFlags
    PVFlags <- MCPVFlags
    ClientNamespaces <- MCClientNamespaces
SPECIFICATION Spec
\* The command exits after its Run: install, YAML generation or log.Fatalf.
CHECK_DEADLOCK FALSE
INVARIANTS
    ValidatorExact

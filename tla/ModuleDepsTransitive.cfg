SPECIFICATION ModulesSpec
CONSTANTS
    M1 = M1
    M2 = M2
    M3 = M3
    M4 = M4
    ModuleNames = {M1, M2, M3, M4}
    ModuleDefs <- MCModuleDefs
    MaxModules = 3
SYMMETRY MCSymmetry
INVARIANT
    TransitiveDependencies

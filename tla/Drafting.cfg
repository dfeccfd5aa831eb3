SPECIFICATION Spec
CONSTANTS
    Proposals = {p1, p2}
    Files = {f1, f2}
    Editors = {e1, e2}
    Applications <- Borders
    MaxVersions = 3
    DraftMishaps <- WorstDrafts
    People = {"author", "second", "third"}
    Author = "author"
    Managers = {m1}
    MaxRows = 2
    TeamMishaps <- WorstTeams
    SeedRoles = {"STUDENT", "EVALUATOR", "COORDINATOR", "ADRPM", "RAD", "FINANCE", "SYSTEM_ADMIN"}
    NewNames = {"VISITOR"}
    Grants <- SomeGrants
    MaxChanges = 2
    MaxRoles = 2
SYMMETRY Alike
INVARIANTS
    StepsAreARoute
    ReviewGoesOn
    FilesFollowVersions
    TeamIsSound
    AccessFits
\* Everything may be approved, or the bounds be reached.
CHECK_DEADLOCK FALSE

\* A sync service and a manual sync against a changing portal
SPECIFICATION Spec
CONSTANTS
    Departments = {1, 2, 3, 4}
    Users = {1, 2, 3}
    MaxDepth = 3
    Scope = 2
    Bypass = {1}
    Leads = {}
    Requested = {1}
    Syncers = {daemon, manual}
    Daemon = daemon
    PageSize = 2
    FirstDepartments <- MCFirstDepartments
    FirstUsers <- MCFirstUsers
    DepartmentValues <- MCDepartmentValues
    UserValues <- MCUserValues
    MaxChanges = 2
INVARIANTS
    TypeOK
    CopyIsFaithful
    AccessFollowsPortal
    ScopedUnlessBypass
PROPERTIES
    NeverEmptied
    FindsNearestHead
    DestinationIsCurrent
    DirectoryConverges

SPECIFICATION Spec
CONSTANTS
    Workers = {"w1", "w2"}
    Members = {"ann", "bob", "cid", "dan"}
    Orgs = {"team", "own"}
    Teams = {"team"}
    NoOrg = "none"
    NoMember = "nobody"
    OrgOf <- MCOrgOf
    RoleOf <- MCRoleOf
    SuperAdmins = {"dan"}
    Uploads = {1, 2}
    FreeTrialLimit = 1
    Callers = {1, 2}
    RateLimit = 1
    Window = 1
    Capacity = 2
    MaxRetries = 2
    Versions = {"v1", "v2", "v3"}
    NoVersion = "none"
    Files = {"v1", "v2"}
    Renderable = {"v1", "v2"}
    Released = {"v1", "v3"}
    MaxLines = 4
    MaxBatch = 2
    Cases = {1, 2, 3, 4}
    CaseOf <- MCCaseOf
    Statuses = {"PASS", "RISK", "FAIL"}
    FeedbackCases = {"f"}
    Notices = {"n1", "n2"}
    Scopes <- MCGoldenScopes
INVARIANT GoldenAnswersTrue
CHECK_DEADLOCK FALSE

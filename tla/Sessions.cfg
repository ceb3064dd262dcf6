\* Two requests at a time; three tokens, one change of the version and one code;
\* two sign-ins through two providers; two apps and a role; two keys.
CONSTANTS
    Tokens = {t1, t2, t3}
    NoToken = NoToken
    Requests = {q1, q2}
    MaxVersion = 1
    ClientIds = {k1}
    CodeIds = {d1}
    NoCode = NoCode
    RedirectURIs = {"https"}
    Verifiers = {"v1", "v2"}
    MaxRedirectURIs = 1
    Issuers = {"i1", "i2"}
    Claims <- MCClaims
    Inputs <- MCInputs
    Savers = {q1, q2}
    SignIns = {q1, q2}
    MaxMembers = 1
    MaxSaves = 2
    Apps = {"a1", "a2"}
    Roles = {"r1"}
    NoRole = "none"
    Admins = {q1, q2}
    Edits <- MCEdits
    KeyIds = {1, 2}
    MaxRules = 2
    Submissions <- MCSubmissions
    AllowLists <- MCAllowLists
SPECIFICATION MCSpec
SYMMETRY Symmetry
INVARIANTS
    OneLiveToken
    OneVersionPerFamily
    
    
    SSOIsSound
    GrantsAreSound
    ApiKeysAreSound
CHECK_DEADLOCK FALSE

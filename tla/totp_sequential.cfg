\* One request at a time (a user working through the profile page and the
\* login form), three secrets, four TOTP steps.
CONSTANTS
    r1 = r1  r2 = r2  s1 = s1  s2 = s2  s3 = s3
    Requests = {r1, r2}
    Secrets = {s1, s2, s3}
    MaxStep = 4
    MaxInflight = 1
    NoSecret = NoSecret
    NoStep = NoStep
SPECIFICATION Spec
VIEW ViewWithoutUses
INVARIANT TypeOK
INVARIANT EnabledSecretVerified

\* Two requests of the user's sessions in flight at once.
CONSTANTS
    r1 = r1  r2 = r2  s1 = s1  s2 = s2  s3 = s3
    Requests = {r1, r2}
    Secrets = {s1, s2, s3}
    MaxStep = 4
    MaxInflight = 2
    NoSecret = NoSecret
    NoStep = NoStep
SPECIFICATION Spec
INVARIANT CodeAcceptedOnce

\* A behaviour is one call of the client; its outcome is final.
\* Texts of 16 to 24 single-byte characters followed by up to three
\* characters of 1 to 4 bytes: every text crosses the 20- and 24-byte cuts
\* at every position inside a multi-byte character.
CONSTANTS
    AsciiLens = {16, 17, 18, 19, 20, 21, 22, 23, 24}
    TailLen = 3
    m1 = m1  m2 = m2
    MessageIds = {m1, m2}
    NoId = NoId
SPECIFICATION Spec
CHECK_DEADLOCK FALSE
INVARIANT TypeOK

\* Files whose lines sit in the sections the grammar allows them in: the
\* parser's verdict and tables against the specification's reading.
SPECIFICATION Spec
CONSTANTS
    MaxEntries = 2
    MaxLines = 9
    WellFormed = TRUE
    InitMayFail = TRUE
    Names <- MCNames
    MotorKeys <- MCMotorKeys
    Lines <- GoodLines
INVARIANT TypeOK
INVARIANT ParseMatchesSpec
PROPERTY ParserTerminates
CHECK_DEADLOCK FALSE

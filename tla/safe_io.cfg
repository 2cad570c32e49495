SPECIFICATION SafeIOSpec
CONSTANTS
    MaxIov = 3
    MaxBytes = 6
INVARIANTS SafeIOTypeOK PrefixMoved OkMeansAll EofMeansShort
PROPERTY Returns
CHECK_DEADLOCK FALSE

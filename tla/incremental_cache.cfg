\* Two writes in one colo and reads in two, with a failure, under four configurations.
SPECIFICATION Spec
CONSTANTS
    s1 = s1  s2 = s2  g1 = g1  g2 = g2  east = east  west = west
    Build = Build  None = None
    Colos = {east, west}
    Ops = {s1, s2}  ColoOf <- WriterColo
    Gets = {g1, g2}  GetColo <- ReaderColo
    Configs <- SomeConfigs
    Revalidate <- Seconds
    ShortTtl = 1  LongTtl = 2
    WorkLimit = 1  KVLag = 1
    MaxTime = 4  MaxErrors = 1
CHECK_DEADLOCK FALSE
SYMMETRY OpSymmetry
INVARIANTS TypeOK Recency Provenance PurgedIsGone

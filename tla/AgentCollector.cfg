\* Two runs that overlap at every step, before and after which others run alone:
\* four instants outlast the interval twice, and the wall clock can be set
\* forward and back once.
SPECIFICATION Spec
CONSTANTS
    Runs = {a, b}
    Interval = 2
    NoFile = NoFile
    Empty = Empty
    Garbled = Garbled
    Nothing = Nothing
    MaxTime = 4
    MaxOffset = 1
INVARIANTS TypeOK OkIsRecent CacheReadable
PROPERTY LoneRunSaves

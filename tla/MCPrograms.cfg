SPECIFICATION ProgramsSpec
CONSTANTS Wrap = 3
          Size = 10
          Byte = 4
          Absent = Absent
          Empty = Empty
          Span = 512
          Late = 3
          Minute = 60
          Hour = 3
          Noon = 3
          Digits = {d1, d2}
          End = End
          Nul = Nul
          Longest = 3
          Fifo = 2
          Sectors = 2
INVARIANTS EndpointGuarded BusyHasReason PatternProper BootAdvances GoodMeansWritten
PROPERTIES ReportsFlow ClockForward DutyIsTheLine
CHECK_DEADLOCK FALSE

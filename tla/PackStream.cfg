\* Lines with everything that may follow them, packs cut off near their end.
CONSTANTS
    Bodies <- AllPushes
    ShaLength = 2
    MaxObjectSize = 3
SPECIFICATION ParserSpec
INVARIANTS ReadsWhatWasSent IntactPushIsParsed ParsedMeansFramed
CHECK_DEADLOCK FALSE

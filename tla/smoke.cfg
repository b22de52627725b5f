SPECIFICATION FairSpec
CONSTANTS
  MaxCuts = 1
  AddrBits = 2
  DataBits = 2
  Idcode <- MCIdcode
  DtmcsId <- MCDtmcsId
  Dmcontrol <- MCDmcontrol
  Dmstatus <- MCDmstatus
INVARIANTS AnswersAreReal NoFalseAlarm
PROPERTIES TestsEnd

SPECIFICATION SpecClients
CONSTANTS
 Sources <- MCSources
 Calls <- MCCalls
 CalloutAnswers <- MCCalloutAnswers
 DfaCalls <- MCDfaCalls
 Segments <- MCSegments
 RestartOptions <- MCRestartOptions
 MaxText = 3
 Requests <- MCRequests
 BlockValue <- MCBlockValue
 MATCH_LIMIT = 10000000
INVARIANTS AnswersFirstMatch PartialIsComplete StaysInBounds CompilesSoundly FindsAllMatches RestartContinues FindsOccurrences ReplacementsAgree
PROPERTIES ExecEnds EnumerationEnds
CHECK_DEADLOCK FALSE

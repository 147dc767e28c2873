CONSTANTS
    CssSource <- MCSheets
    HtmlSource <- MCPages
    Name <- MCName
    ExtraLiner <- MCExtra
    MaxPreserveNewlines = 5
    JsSource <- MCScripts
    JsMaxPreserve = 5
SPECIFICATION FormatSpec
CHECK_DEADLOCK FALSE
INVARIANTS
    EveryPieceOnce
    
    WhiteSpaceOfSheets
    IndentShowsNesting
    LinesMeanTheSame
    ModesMatchBrackets
    JsReadsTheSame

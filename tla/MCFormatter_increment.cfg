CONSTANTS
    CssSource <- MCNothing
    HtmlSource <- MCNothing
    Name <- MCName
    ExtraLiner <- MCExtra
    MaxPreserveNewlines = 5
    JsSource <- MCReturns
    JsMaxPreserve = 5
SPECIFICATION FormatSpec
CHECK_DEADLOCK FALSE
INVARIANTS
    IncrementStaysOffTheLine

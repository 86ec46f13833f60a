\* One item with up to two rows: the smallest instance that loses a star.
SPECIFICATION ArticleSpec
CONSTANTS
    Ids = {1,2}
    MaxMoves = 3
INVARIANT StarSurvives
CHECK_DEADLOCK FALSE

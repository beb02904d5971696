SPECIFICATION SudokuSpec
CONSTANTS
    Box = 2
    MapPattern <- MCMapPattern
    Draws <- MCDraws
    Erasable <- MCErasable
    Levels = {2}
    MaxCommands = 3
INVARIANT CheckFindsVictory
CHECK_DEADLOCK FALSE

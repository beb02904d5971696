------------------------------- MODULE Sudoku -------------------------------
(***************************************************************************)
(* The console game of sudoku/: CScene with its cursor, its stack of       *)
(* commands and its groups, from generate or a saved file to the end of    *)
(* the game, over grids of any size.                                       *)
(***************************************************************************)
EXTENDS Naturals, Sequences, FiniteSets, Functions, SequencesExt

CONSTANTS
    Box,        \* side of a block: 3 in the program
    MapPattern, \* map_pattern of generate: the letter of each cell, as a number
    Draws,      \* letter to digit mappings that random() may draw
    Erasable,   \* cells that rand() may pick
    Levels,     \* numbers of cells to erase
    MaxCommands \* bound of the stack of commands

Side == Box * Box   \* MAX_LEN
Lines == 0..(Side - 1)
Cells == Lines \X Lines
Digits == 1..Side

ASSUME SudokuAssumption ==
    /\ Box \in Nat \ {0, 1} /\ MaxCommands \in Nat
    /\ MapPattern \in [Cells -> Digits]
    /\ Draws \subseteq Bijection(Digits, Digits)
    /\ Erasable \subseteq Cells /\ Levels \subseteq Nat

VARIABLES
    map,        \* _map
    cur_point,
    com,        \* the commands that can be undone
    parts,      \* the copies of the cells that _row, _col and _block point to
    file,       \* what was saved last
    playing,
    past        \* history: cursor and map before each command of com

sudokuVars == <<map, cur_point, com, parts, file, playing, past>>

Features == [val : 0..Side, st : {"ERASED", "INITIAL_FIXED", "USER_FIXED"}]
Commands == [point : Cells, old : Features]
Snapshots == [cur : Cells, map : [Cells -> Features]]
NoFile == [cur |-> <<0, 0>>, map |-> <<>>, com |-> <<>>, past |-> <<>>]

\* The cells of each row, column and block.
Groups ==
    {{x} \X Lines : x \in Lines} \cup {Lines \X {y} : y \in Lines}
    \cup {{c \in Cells : c[1] \div Box = b[1] /\ c[2] \div Box = b[2]} :
             b \in (0..(Box - 1)) \X (0..(Box - 1))}

Blank == [c \in Cells |-> [val |-> 0, st |-> "ERASED"]]

\* init_part: the groups get copies of the cells as they are.
InitPart(m) == [c \in Cells |-> m[c].val]

\* The groups of a loaded scene have no members.
NoParts == <<>>

\* generate and erasePane.
Generated(hash_map, erased) ==
    [c \in Cells |-> IF c \in erased THEN Blank[c]
                     ELSE [val |-> hash_map[MapPattern[c]], st |-> "INITIAL_FIXED"]]

\* Without a file: the groups are built before the map is filled.
NewGame(m, cur, c, p, h) ==
    /\ \E hash_map \in Draws, erased \in SUBSET Erasable :
        /\ Cardinality(erased) \in Levels
        /\ m = Generated(hash_map, erased)
    /\ cur = <<0, 0>> /\ c = <<>> /\ p = InitPart(Blank) /\ h = <<>>

SudokuInit ==
    /\ NewGame(map, cur_point, com, parts, past)
    /\ file = NoFile
    /\ playing = TRUE

-----------------------------------------------------------------------------
(***************************************************************************)
(* The keys of CScene::start.                                              *)
(***************************************************************************)

Recorded ==
    /\ Len(com) < MaxCommands
    /\ com' = Append(com, [point |-> cur_point, old |-> map[cur_point]])
    /\ past' = Append(past, [cur |-> cur_point, map |-> map])

\* setCurValueState: a given cell stays as it is.
SetValueState(m, c, f) == IF m[c].st = "INITIAL_FIXED" THEN m ELSE [m EXCEPT ![c] = f]

\* A digit, 0 as well; nothing is recorded for a given cell.
Digit(v) ==
    /\ playing
    /\ map[cur_point].st # "INITIAL_FIXED"
    /\ map' = SetValueState(map, cur_point, [val |-> v, st |-> "USER_FIXED"])
    /\ Recorded
    /\ UNCHANGED <<cur_point, parts, file, playing>>

\* A move that stays within the grid.
Move(c) ==
    /\ playing
    /\ \/ c[1] = cur_point[1] /\ (c[2] = cur_point[2] + 1 \/ c[2] + 1 = cur_point[2])
       \/ c[2] = cur_point[2] /\ (c[1] = cur_point[1] + 1 \/ c[1] + 1 = cur_point[1])
    /\ cur_point' = c
    /\ Recorded
    /\ UNCHANGED <<map, parts, file, playing>>

\* Mutant: the cell is restored before the cursor goes back.
LazyUndone(mp, s) == [cur |-> mp.point, map |-> SetValueState(s.map, s.cur, mp.old)]

\* The cursor goes back, and the cell there gets its old value again.
Undone(mp, s) == [cur |-> mp.point, map |-> SetValueState(s.map, mp.point, mp.old)]

Undo ==
    /\ playing
    /\ com # <<>>
    /\ LET s == Undone(Last(com), [cur |-> cur_point, map |-> map])
       IN  cur_point' = s.cur /\ map' = s.map
    /\ com' = Front(com)
    /\ past' = Front(past)
    /\ UNCHANGED <<parts, file, playing>>

\* CGroup::check: Side members, and no two alike.
GroupCheck(g) ==
    /\ g \subseteq DOMAIN parts
    /\ IsInjective(Restrict(parts, g))

Check == \A g \in Groups : GroupCheck(g)

\* 'o': the game ends if it is won.
AskCheck ==
    /\ playing
    /\ playing' = ~Check
    /\ UNCHANGED <<map, cur_point, com, parts, file, past>>

Save == [cur |-> cur_point, map |-> map, com |-> com, past |-> past]

\* 'q', and the answers about quitting and saving.
Quit ==
    /\ playing
    /\ playing' = FALSE
    /\ file' \in {file, Save}
    /\ UNCHANGED <<map, cur_point, com, parts, past>>

\* The program is started again, without a file or with -l.
Again ==
    /\ ~playing
    /\ NewGame(map', cur_point', com', parts', past')
    /\ playing' = TRUE
    /\ UNCHANGED file

Load ==
    /\ ~playing
    /\ file # NoFile
    /\ map' = file.map /\ cur_point' = file.cur /\ com' = file.com
    /\ parts' = NoParts
    /\ past' = file.past
    /\ playing' = TRUE
    /\ UNCHANGED file

SudokuNext ==
    \/ \E v \in 0..Side : Digit(v)
    \/ \E c \in Cells : Move(c)
    \/ Undo
    \/ AskCheck
    \/ Quit
    \/ Again
    \/ Load

SudokuSpec == SudokuInit /\ [][SudokuNext]_sudokuVars

-----------------------------------------------------------------------------
(***************************************************************************)
(* Properties.                                                             *)
(***************************************************************************)

SudokuTypeOK ==
    /\ map \in [Cells -> Features]
    /\ cur_point \in Cells
    /\ com \in Seq(Commands)
    /\ past \in Seq(Snapshots)
    /\ playing \in BOOLEAN
    /\ file = NoFile \/ file \in [cur : Cells, map : [Cells -> Features],
                                  com : Seq(Commands), past : Seq(Snapshots)]

\* Undoing the commands c from the last one on goes back through exactly the
\* cursors and maps h, ending at s.
Undoable(c, h, s) ==
    /\ Len(c) = Len(h)
    /\ \A k \in 1..Len(c) :
        Undone(c[k], IF k = Len(c) THEN s ELSE h[k + 1]) = h[k]

\* However many digits, moves, undos, saves and loads there were, each 'u'
\* restores what was there before the last command that is not yet undone:
\* cursor, value, and whether the cell was filled (scene.cpp:238-245); a saved
\* game as well (scene.cpp:356).
UndoRestores ==
    /\ SudokuTypeOK
    /\ Undoable(com, past, [cur |-> cur_point, map |-> map])
    /\ file # NoFile => Undoable(file.com, file.past, [cur |-> file.cur, map |-> file.map])

\* Every row, column and block holds every digit.
Solved(m) == \A g \in Groups : {m[c].val : c \in g} = Digits

\* 'o' tells a player who has solved the grid so (main.cpp:18, "'o' to check
\* whether you've won").
CheckFindsVictory == playing /\ Solved(map) => Check

=============================================================================

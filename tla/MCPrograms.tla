----------------------------- MODULE MCPrograms -----------------------------
(***************************************************************************)
(* Five programs that have nothing to do with each other, checked in one   *)
(* run: the reactor, the sudoku game, the chat client, the accounts of the *)
(* chat server, and the aircraft game.  One of them is chosen at the       *)
(* start, and only it takes steps; the states are those of the five, one   *)
(* after the other.                                                        *)
(***************************************************************************)
EXTENDS Reactor, MCSudoku, ChatClient, ChatAccounts, AircraftWar

\* One client can fill its send buffer and its entry, and send one byte more.
MCStreams ==
    LET long == CHOOSE f \in Fds : TRUE
    IN  [f \in Fds |-> IF f = long THEN {<<"a", "1", "A", "a">>, <<"a", "nul", "1">>}
                       ELSE {<<"A">>, <<"nul">>}]

VARIABLE program

programVars == <<program, reactorVars, sudokuVars, clientVars, accountsVars, aircraftVars>>

\* A game that is not played needs no more than one grid.
ProgramsInit ==
    /\ program \in {"reactor", "sudoku", "client", "accounts", "aircraft"}
    /\ ReactorInit /\ SudokuInit /\ ClientInit /\ AccountsInit /\ AircraftInit
    /\ program # "sudoku" =>
        \A c \in Cells : map[c].st = "ERASED" <=> c \in {<<0, 0>>, <<0, 1>>}
    /\ program # "aircraft" => mode = "easy"

ProgramsNext ==
    \/ program = "reactor" /\ ReactorNext
       /\ UNCHANGED <<program, sudokuVars, clientVars, accountsVars, aircraftVars>>
    \/ program = "sudoku" /\ SudokuNext
       /\ UNCHANGED <<program, reactorVars, clientVars, accountsVars, aircraftVars>>
    \/ program = "client" /\ ClientNext
       /\ UNCHANGED <<program, reactorVars, sudokuVars, accountsVars, aircraftVars>>
    \/ program = "accounts" /\ AccountsNext
       /\ UNCHANGED <<program, reactorVars, sudokuVars, clientVars, aircraftVars>>
    \/ program = "aircraft" /\ AircraftNext
       /\ UNCHANGED <<program, reactorVars, sudokuVars, clientVars, accountsVars>>

ProgramsSpec ==
    /\ ProgramsInit /\ [][ProgramsNext]_programVars
    /\ ReactorFairness /\ ClientFairness /\ AircraftFairness

=============================================================================

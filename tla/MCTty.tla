------------------------------- MODULE MCTty -------------------------------
(* A small instance of Tty for TLC.                                        *)
EXTENDS Tty

CONSTANTS a, b

Nothing == [keys |-> {}, presses |-> 0, writes |-> 0, shell |-> {}, daemon |-> {}, graphic |-> {}]

\* Typing with modifiers; typing, switching terminals and a program that
\* draws and reads; a shell and its daemon, with the keyboard and with each
\* other; two shells.
MCCast ==
    { [Nothing EXCEPT !.keys = {"x", "shift", "caps"}, !.presses = 3],
      [Nothing EXCEPT !.keys = {"nl", "f"}, !.presses = 2, !.writes = 1, !.graphic = {b}],
      [Nothing EXCEPT !.keys = {"nl"}, !.presses = 1, !.shell = {a}, !.daemon = {b}],
      [Nothing EXCEPT !.writes = 3, !.shell = {a}, !.daemon = {b}],
      [Nothing EXCEPT !.keys = {"nl"}, !.presses = 1, !.writes = 1, !.shell = {a, b}] }
=============================================================================

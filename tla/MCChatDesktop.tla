--------------------------- MODULE MCChatDesktop ---------------------------
EXTENDS ChatDesktop, TLC
CONSTANTS a, b, p1, p2, api
Plain == [mode |-> "desktop", initial |-> None, local |-> {}, guarded |-> FALSE,
          stored |-> TRUE, repair |-> {}, place |-> (a :> 1 @@ b :> 2),
          tabs |-> {p1}, left |-> 1, turns |-> 1]
Setups ==
    {Plain,
     [Plain EXCEPT !.local = {a, b}, !.turns = 2],
     [Plain EXCEPT !.local = {a, b}, !.initial = a, !.turns = 2, !.left = 2],
     [Plain EXCEPT !.repair = {a}, !.stored = FALSE, !.place[b] = 1, !.turns = 1],
     [Plain EXCEPT !.local = {b}, !.guarded = TRUE],
     [Plain EXCEPT !.tabs = {p1, p2}, !.left = 0, !.turns = 0],
     [Plain EXCEPT !.left = 2, !.turns = 0],
     [Plain EXCEPT !.tabs = {p1, p2}, !.left = 0, !.local = {a, b}, !.turns = 1, !.initial = a],
     [Plain EXCEPT !.mode = "public", !.tabs = {p1, p2}, !.guarded = TRUE, !.turns = 3],
     [Plain EXCEPT !.mode = "command"]}
=============================================================================

--------------------------- MODULE MCCardService ---------------------------
(* Small instances of CardService for TLC: a card with a film and a folder *)
(* into which a second one may be put or moved.                            *)
EXTENDS CardService

Bare == [path \in Paths |-> IF path = Root THEN Folder ELSE Nothing]
MCCards == {[Bare EXCEPT ![<<"rain">>] = File(TRUE), ![<<"kids">>] = Folder]}

Asks(verb, components) ==
  [verb |-> verb, input |-> [absolute |-> verb = "CWD", components |-> components]]
OnRain == {Asks(verb, <<"rain">>) : verb \in {"STOR", "DELE", "HIDE", "RETR"}}
MCRequests == OnRain \cup {Asks("PASV", << >>), Asks("LIST", << >>), Asks("QUIT", << >>),
  Asks("RNFR", <<"rain">>), Asks("RNTO", <<"kids", "rain">>),
  Asks("RMD", <<"kids">>), Asks("MKD", <<"kids", "rain", "kids">>),
  Asks("CWD", <<"kids", ".", "..", "kids">>), Asks("CWD", <<"..">>)}
MCUploads == {Asks("PASV", << >>), Asks("STOR", <<"rain">>)}

Spending(clients, commands, faults, visits, quits) ==
  [clients |-> MaxClients - clients, commands |-> MaxCommands - commands,
   faults |-> MaxFaults - faults, visits |-> MaxVisits - visits,
   quits |-> MaxQuits - quits]
MCSpent == {Spending(2, 3, 0, 1, 0), Spending(1, 2, 1, 1, 0), Spending(1, 1, 1, 2, 0),
            Spending(1, 2, 0, 1, 1)}
MCRetry == {Spending(2, 4, 0, 1, 0)}
============================================================================

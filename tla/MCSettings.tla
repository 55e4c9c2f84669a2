---------------------------- MODULE MCSettings ----------------------------
(***************************************************************************)
(* A small instance of Settings for TLC: five evenings, each with what its *)
(* hazards take and nothing else.                                           *)
(***************************************************************************)
EXTENDS Settings, TLC

MCLevels == {1, 2}

Nothing == [a \in Acts |-> 0]

Lights == ("slide" :> 2) @@ ("visit" :> 2) @@ ("turn" :> 1) @@ ("ring" :> 1)
          @@ ("cut" :> 1) @@ Nothing

Moving == ("join" :> 2) @@ ("list" :> 1) @@ ("visit" :> 1) @@ ("drop" :> 1)
          @@ Nothing

Restart == ("join" :> 1) @@ ("list" :> 1) @@ ("visit" :> 1) @@ ("drop" :> 1)
           @@ ("cut" :> 1) @@ ("fault" :> 1) @@ Nothing

Times == ("toggle" :> 2) @@ ("time" :> 1) @@ ("zone" :> 1) @@ ("visit" :> 2)
         @@ ("list" :> 1) @@ ("cut" :> 1) @@ ("fault" :> 1) @@ Nothing

Offline == ("toggle" :> 1) @@ ("time" :> 1) @@ ("visit" :> 1) @@ ("list" :> 1)
           @@ ("join" :> 1) @@ ("cut" :> 1) @@ Nothing

MCBudgets == {Lights, Moving, Restart, Times, Offline}

OneEvening == ("toggle" :> 1) @@ ("time" :> 1) @@ ("visit" :> 1) @@ Nothing
MCOneEvening == {OneEvening}
=============================================================================

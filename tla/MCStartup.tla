------------------------------ MODULE MCStartup ------------------------------
(* All environments in which at most two variables are set.                 *)
EXTENDS Startup

Unset == [n \in Names |-> "unset"]

TextsOf(n) ==
    IF n \in Numbers THEN Texts
    ELSE IF n \in {"NATS_URL", "DATABASE_URL"} THEN {"unset", "blank", "malformed", "usable"}
    ELSE {"unset", "blank", "usable"}

MCEnvironments ==
    UNION {{[Unset EXCEPT ![m] = s, ![n] = t] : s \in TextsOf(m), t \in TextsOf(n)} :
              m \in Names, n \in Names}

=============================================================================

------------------------------ MODULE MCScheduling ------------------------------
(* Scenarios for the model checking of Scheduling. *)
EXTENDS Scheduling

Scenario(team, m, a, d) == [team |-> team, mishaps |-> m, asks |-> a, starts |-> d]

\* All orchestrators, with mishaps, requests or a Driver; one of them, with a Driver
\* and a mishap.
Few == {Scenario(Orchestrators, 1, 1, 0), Scenario(Orchestrators, 0, 2, 0),
        Scenario(Orchestrators, 0, 0, 1), Scenario(Steady, 1, 0, 1)}

\* A Driver and a mishap, nothing else.
DriverAndMishap == {Scenario(Steady, 1, 0, 1)}
=================================================================================

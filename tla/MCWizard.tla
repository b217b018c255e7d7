------------------------------ MODULE MCWizard ------------------------------
(***************************************************************************)
(* Instances of Wizard for TLC: four requests, in four combinations of     *)
(* what they send.                                                         *)
(***************************************************************************)
EXTENDS Wizard, TLC

CONSTANTS a, b, c, v, f1, f2, hall, room, other

Sends(folio, slots, files) ==
    [purpose |-> "submit", valid |-> TRUE, priced |-> TRUE, folio |-> folio,
     slots |-> slots, files |-> files]

Check(folio) ==
    [purpose |-> "validate", valid |-> TRUE, priced |-> TRUE, folio |-> folio,
     slots |-> <<>>, files |-> 0]

Malformed == [Check(f1) EXCEPT !.valid = FALSE]

\* Portal says yes, and the limiter works: one folio twice; a room
\* and its hall; two slots in opposite orders.
SmoothForms ==
    {a :> Sends(f1, <<room>>, 1) @@ b :> Sends(f1, <<other>>, 2)
       @@ c :> Sends(f2, <<other, hall>>, 0) @@ v :> Malformed,
     a :> Sends(f1, <<room, other>>, 1) @@ b :> Sends(f2, <<other, room>>, 0)
       @@ c :> Check(f2) @@ v :> Malformed}

\* Anything may come from Portal.
PortalForm ==
    a :> Sends(f1, <<room>>, 1) @@ b :> Check(f1) @@ c :> Malformed @@ v :> Malformed

\* The limiter's window passes and its storage fails; two requests are bad.
LimiterForm ==
    a :> [Sends(f1, <<room>>, 1) EXCEPT !.priced = FALSE]
    @@ b :> [Sends(f2, <<room>>, 1) EXCEPT !.valid = FALSE]
    @@ c :> Sends(f2, <<room>>, 3)
    @@ v :> Malformed

SmallForms == SmoothForms \cup {PortalForm, LimiterForm}

\* Each kind of trouble in its own behaviours: what a request hears from Portal
\* and how it passes the limiter do not matter to its transaction.
SmallNext ==
    /\ WizardNext
    /\ form # PortalForm => \A q \in Request : portal'[q].heard \in {"nothing", "eligible"}
    /\ form # LimiterForm => redis' /\ passed' >= passed

SmallSpec == WizardInit /\ [][SmallNext]_vars /\ \A q \in Request : WF_vars(Progress(q))

InHall == [s \in WSlot |-> IF s = room THEN hall ELSE NoSlot]
=============================================================================

---------------------------- MODULE MCTebControl ----------------------------
(* Instances of TebControl: parameters, plans, messages, conversions.      *)
EXTENDS TebControl

Base == [converter |-> FALSE, custom |-> FALSE, limits |-> FALSE, oscillation |-> FALSE,
         hcp |-> FALSE, proportional |-> FALSE, sep |-> 0, car |-> FALSE, radius |-> 0, max |-> 4,
         side |-> 3, back |-> 4, turn |-> 1, base |-> 4, unset |-> {6}, settings |-> {},
         plans |-> {<<0, 1, 2>>}, poses |-> {0}, commands |-> {[x |-> 3, y |-> 0, w |-> 0]}]

MCPlans == { <<0, 1, 2>>, <<0, 1, 2, 3>>, <<1, 2, 1, 0>>, <<3, 4, 5, 6>> }
Driving == { [x |-> 5, y |-> 4, w |-> 0], [x |-> -5, y |-> 1, w |-> 1], [x |-> 1, y |-> -3, w |-> 1],
             [x |-> 2, y |-> 2, w |-> -2] }
Steered == { [x |-> 5, y |-> 0, w |-> 1], [x |-> -3, y |-> 0, w |-> 2], [x |-> 2, y |-> 0, w |-> -1] }
Turning == { [x |-> 0, y |-> 0, w |-> 2], [x |-> 0, y |-> 0, w |-> -1] }
MCRaw == Driving \cup Steered \cup Turning \cup Base.commands
MCSpeedLimits == { NoLimit, [kind |-> "percentage", value |-> 50], [kind |-> "absolute", value |-> 1],
                   [kind |-> "absolute", value |-> 3] }

PlanInputs   == [Base EXCEPT !.plans = MCPlans, !.poses = Poses, !.sep = 2]
Custom   == [Base EXCEPT !.custom = TRUE]
Limits   == [Base EXCEPT !.limits = TRUE, !.commands = Driving, !.settings = {2, 4}]
Car      == [Base EXCEPT !.limits = TRUE, !.commands = Steered \cup Turning, !.side = 0, !.back = 0,
                         !.car = TRUE, !.radius = 3]
Recovery == [Base EXCEPT !.oscillation = TRUE, !.commands = Turning]

MCConfigs ==
  { PlanInputs, Custom, [Base EXCEPT !.converter = TRUE, !.sep = 2],
    Limits, [Limits EXCEPT !.proportional = TRUE, !.base = 2, !.unset = {0, 6}],
    Car, [Car EXCEPT !.proportional = TRUE],
    Recovery, [Recovery EXCEPT !.hcp = TRUE] }

MCLethals == { {}, {0, 2, 3} }
MCObstacleMsgs ==
  { <<>>, <<[points |-> 0, vel |-> "v1"]>>, <<[points |-> 1, vel |-> "v1"]>>,
    <<[points |-> 3, vel |-> "v1"], [points |-> 0, vel |-> "v2"]>>,
    <<[points |-> 2, vel |-> "v1"], [points |-> 1, vel |-> "v2"]>> }
MCViaMsgs == { <<>>, <<3, 1>> }
MCConversion == [m \in Maps |-> IF m = "m1" THEN <<[points |-> 1, vel |-> "v1"]>>
                               ELSE <<[points |-> 2, vel |-> "v1"], [points |-> 1, vel |-> "v2"]>>]
MCNothing == <<>>
=============================================================================

---------------------------- MODULE MCActuatorOutput ----------------------------
(* Two coupled rotors, a tail rotor with no safe pattern and a servo; every *)
(* group meets valid outputs, NaN and outputs off both ends of the range.  *)
EXTENDS ActuatorOutput, TLC

CONSTANTS m1, m2, tail, servo, lift, yaw, surface

MCChannels == {m1, m2, tail, servo}
MCGroups == {lift, yaw, surface}
MCMembers == (lift :> {m1, m2}) @@ (yaw :> {tail}) @@ (surface :> {servo})
MCStrong == {lift, yaw}
MCSafeValid == {lift, surface}
MCSafePattern == [g \in MCGroups |-> [c \in MCChannels |-> 1]]
MCSafeOutput == [c \in MCChannels |-> 0]
MCSlewLimit == (m1 :> 2) @@ (m2 :> 3) @@ (tail :> 0) @@ (servo :> 1)
MCRawOutputs ==
    {(m1 :> a) @@ (m2 :> b) @@ (tail :> t) @@ (servo :> s) :
        a \in {0, 4, NaN}, b \in {4, -1}, t \in {2, 5}, s \in {3, -1}}
=============================================================================

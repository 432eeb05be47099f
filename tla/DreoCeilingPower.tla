-------------------------- MODULE DreoCeilingPower --------------------------
(***************************************************************************)
(* The power of the ceiling fan's outputs, which the parts of its          *)
(* coordinator share: a master power over the power of the fan, the main   *)
(* light and the ambient light (request_feature_state_,                    *)
(* src/components/dreo_ceiling_fan).  An output is lit when both are on.   *)
(***************************************************************************)
EXTENDS DreoLink

\* Datapoint ids of the product.
MASTER == 1
FAN == 3
LIGHT == 4
AMBIENT == 5

Outputs == Dps \cap {FAN, LIGHT, AMBIENT}
PowerDps == {MASTER} \cup Outputs

\* The product has a master power, and its powers are off or on.
ASSUME PowerAssumption == MASTER \in Dps /\ {0, 1} \subseteq Values

Lit(state) == {o \in Outputs : state[MASTER] = 1 /\ state[o] = 1}

Effective(p, o) == TargetIsTrue(p, MASTER) /\ TargetIsTrue(p, o)

\* MUTANT: the master goes off with the last but one.
MutRequestOff(p, o) ==
    IF TargetIsTrue(p, MASTER) /\ Cardinality({x \in Outputs : Effective(p, x)}) <= 2
    THEN Set(p, MASTER, 0)
    ELSE Set(p, o, 0)

\* request_feature_state_. The master goes off with the last output; when it
\* comes back, the outputs that would come with it are turned off first.
RequestOff(p, o) ==
    IF TargetIsTrue(p, MASTER) /\ Cardinality({x \in Outputs : Effective(p, x)}) <= 1
    THEN Set(p, MASTER, 0)
    ELSE Set(p, o, 0)

\* The outputs that would come with the master are turned off, in this order.
Darken(p, o, x) == IF x \in Outputs \ {o} THEN Set(p, x, 0) ELSE p
DarkenOthers(p, o) == Darken(Darken(Darken(p, o, FAN), o, LIGHT), o, AMBIENT)

\* MUTANT: the master is turned on before the other outputs are off.
MutRequestOn(p, o) ==
    IF TargetIsTrue(p, MASTER) THEN Set(p, o, 1)
    ELSE DarkenOthers(Set(Set(p, MASTER, 1), o, 1), o)

RequestOn(p, o) ==
    Set(Set(IF TargetIsTrue(p, MASTER) THEN p ELSE DarkenOthers(p, o), o, 1), MASTER, 1)
=============================================================================

-------------------------- MODULE MCMongoSequence --------------------------
EXTENDS MongoSequence, TLC

CONSTANTS c1, c2, p1

OneCaller == c1 :> p1
TwoCallers == c1 :> p1 @@ c2 :> p1

\* Arguments of SetCurrent: the unset mark, a step too wide.
WideValues == {-1, 3}
=============================================================================

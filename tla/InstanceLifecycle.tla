------------------------- MODULE InstanceLifecycle -------------------------
(* What a driver promises about its instances, on Linux and on Windows.  An  *)
(* instance is made with one reference, may be handed out, and is freed when *)
(* the last reference has been given up: "failed" when it was never handed   *)
(* out, "freed" when it was.  References come from who has one.              *)
EXTENDS Naturals

CONSTANT Obj         \* the instances

VARIABLES stage,     \* the stage of each instance
          held       \* how many references to it hosts and running calls hold

Init == /\ stage = [o \in Obj |-> "unborn"]
        /\ held = [o \in Obj |-> 0]

Become(o, next) == stage' = [stage EXCEPT ![o] = next]
Hold(o, number) == held' = [held EXCEPT ![o] = number]

Make(o) == /\ stage[o] = "unborn"
           /\ Become(o, "made")
           /\ Hold(o, 1)

HandOut(o) == /\ stage[o] = "made" /\ held[o] > 0
              /\ Become(o, "out")
              /\ UNCHANGED held

Share(o) == /\ held[o] > 0
            /\ Hold(o, held[o] + 1)
            /\ UNCHANGED stage

GiveUp(o) == /\ held[o] > 0
             /\ Hold(o, held[o] - 1)
             /\ UNCHANGED stage

Free(o) == /\ held[o] = 0
           /\ \/ stage[o] = "made" /\ Become(o, "failed")
              \/ stage[o] = "out"  /\ Become(o, "freed")
           /\ UNCHANGED held

Next == \E o \in Obj : Make(o) \/ HandOut(o) \/ Share(o) \/ GiveUp(o) \/ Free(o)

Spec == Init /\ [][Next]_<<stage, held>>
=============================================================================

---------------------------- MODULE MCStartup ----------------------------
EXTENDS Startup, TLC

\* Two sub-heaps; budgets that fit, that exceed the total and that forget one.
TwoNames == <<"a", "b">>
Budgets  == {[total |-> 4, subs |-> ("a" :> 2 @@ "b" :> 2)],
             [total |-> 3, subs |-> ("a" :> 2 @@ "b" :> 2)],
             [total |-> 4, subs |-> ("a" :> 2)]}

\* Huge pages of 4 where 3 are asked for; 6 is not a power of two.
FrameOpts == {ReserveOpts(3, "on", "try", 4, TRUE)}
HugeOpts  == {ReserveOpts(3, "try", "on", 0, TRUE), ReserveOpts(3, "off", "try", 0, TRUE),
              ReserveOpts(3, "on", "on", 6, FALSE)}
=============================================================================

-------------------------- MODULE MCLoadTestRegion --------------------------
\* A page, two test cases on the server and room for a third one.
EXTENDS LoadTestRegion

CONSTANTS a, b, c, ann, bob, mme, few, many, attach

SizesAtFirst == [g \in Groups |-> IF g = few THEN 1 ELSE 3]
Case(n, steps) ==
    [name |-> n, box |-> [t \in Types |-> IF t = "ue-group" THEN few ELSE mme],
     steps |-> steps]
AtFirst == [x \in TestCases |->
              CASE x = a -> Case(ann, <<attach>>)
                [] x = b -> Case(bob, <<attach, attach>>)
                [] OTHER -> NoBody]
=============================================================================

-------------------------- MODULE MCAttributeCache --------------------------
EXTENDS AttributeCache

\* One attribute that is changed, one that comes and goes.
MCAttributes == {{<<"region", 1>>}, {<<"region", 2>>}}

MCSigned == [a \in Auditors |-> IF a = "a1" THEN {<<"region", 1>>, <<"tier", 1>>} ELSE None]

\* One order that asks for an auditor, and one that asks for either of two.
MCRequirements ==
    [o \in Orders |->
        [attributes |-> {<<"region", 1>>},
         allOf |-> IF o = "o1" THEN <<"a1">> ELSE <<>>,
         anyOf |-> IF o = "o1" THEN <<>> ELSE <<"a1", "a2">>]]
=============================================================================

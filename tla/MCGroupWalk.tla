----------------------------- MODULE MCGroupWalk -----------------------------
(***************************************************************************)
(* Files for GroupWalk.  Without other files: a tree, a group and a        *)
(* dataset with two names, and the cycles of one, two and three groups, to *)
(* the root and past it.  With another file, whose root group is "root2":  *)
(* its dataset and its group at a path that it has itself; an object with  *)
(* two names at the address of one of the file; links back, and the group  *)
(* at a path that it has not itself.                                       *)
(***************************************************************************)
EXTENDS GroupWalk

Home == {"root", "a", "b", "d"}
Away == {"root2", "x", "y"}

HomeOrAway == [o \in Home \cup Away |-> IF o \in Home THEN "root" ELSE "root2"]

\* Both root groups are at the same address, and so are "b" and "x", and "d" and "y".
Addresses == [o \in Home \cup Away |->
                CASE o = "root2" -> "root" [] o = "x" -> "b" [] o = "y" -> "d" [] OTHER -> o]

Hard(o) == [type |-> "hard", to |-> o]
Soft(o) == [type |-> "soft", to |-> o]
Ext(o)  == [type |-> "external", to |-> o]

Hards(s) == [n \in DOMAIN s |-> Hard(s[n])]

Links3(root, a, b) == [g \in {"root", "a", "b"} |->
                         CASE g = "root" -> root [] g = "a" -> a [] g = "b" -> b]

Tree       == Links3(Hards(<<"a", "b">>), Hards(<<"d">>), <<>>)
TwoNames   == Links3(Hards(<<"a", "a", "d">>), Hards(<<"b", "d">>), <<>>)
ToItself   == Links3(Hards(<<"b", "a">>), Hards(<<"a", "d">>), Hards(<<"d">>))
ToRoot     == Links3(Hards(<<"a", "b">>), Hards(<<"root">>), Hards(<<"d">>))
Three      == Links3(Hards(<<"a">>), Hards(<<"b", "d">>), Hards(<<"a", "root">>))

With(root, a, b, root2, x) ==
    [g \in {"root", "a", "b", "root2", "x"} |->
       IF g = "root2" THEN root2 ELSE IF g = "x" THEN x ELSE Links3(root, a, b)[g]]

SamePath  == With(<<Hard("a"), Ext("x"), Hard("a"), Ext("y")>>, <<Hard("d"), Hard("root")>>, <<>>,
                  <<Hard("y"), Hard("x")>>, <<Hard("y"), Soft("x")>>)
SameAddress == With(<<Ext("y"), Ext("x"), Hard("a"), Hard("d"), Hard("b")>>,
                    <<Hard("d"), Hard("b")>>, <<Hard("d")>>,
                    <<Hard("y"), Hard("x"), Hard("x")>>, <<Hard("y")>>)
ToAndFro  == With(<<Hard("a"), Ext("x")>>, <<Hard("a"), Soft("d")>>, <<>>,
                  <<Ext("root"), Hard("x")>>, <<Ext("a"), Ext("root")>>)
SmallFiles == {Three, SamePath, SameAddress, ToAndFro}
HardFiles  == {Tree, TwoNames, ToItself, ToRoot, Three}
==============================================================================

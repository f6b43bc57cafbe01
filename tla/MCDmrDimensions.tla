--------------------------- MODULE MCDmrDimensions ---------------------------
(***************************************************************************)
(* Files for DmrDimensions: a root group and two groups in it, each with a *)
(* variable that comes before a dimension called x, if there is one.  The  *)
(* x of the first group may be the root's.                                 *)
(***************************************************************************)
EXTENDS DmrDimensions

Absent == [type |-> "absent"]
Scale  == [rank |-> 1, listed |-> <<>>, scale |-> TRUE, marks |-> {"REFERENCE_LIST", "named"}, type |-> "value"]
Pure   == [Scale EXCEPT !.marks = {"REFERENCE_LIST", "pure"}]
Variable(listed, type) == [rank |-> Len(listed), listed |-> listed, scale |-> FALSE, marks |-> {}, type |-> type]
NoDims(n) == [Variable(<<>>, "value") EXCEPT !.rank = n]

Root == <<>>
G    == <<"g">>
H    == <<"h">>

Kinds == {Absent, Scale, Pure}
There(d, group, name, to) == IF d = Absent THEN <<>> ELSE <<[group |-> group, name |-> name, to |-> to]>>

\* rx and gx are the dimensions of root and g, a, v and w the variables of root, g
\* and h; when linked, gx is another link to rx.
AFile(rx, gx, linked, a, v, w) ==
    LET links == There(a, Root, "a", "a") \o There(rx, Root, "x", "rx") \o There(v, G, "v", "v")
                 \o (IF linked THEN There(rx, G, "x", "rx") ELSE There(gx, G, "x", "gx"))
                 \o There(w, H, "w", "w") IN
    [groups |-> {Root, G, H},
     data |-> [n \in {links[i].to : i \in DOMAIN links} |->
                 CASE n = "rx" -> rx [] n = "gx" -> gx [] n = "a" -> a [] n = "v" -> v [] n = "w" -> w],
     links |-> links]

Lists(n) == {l \in BoundedSeq(n, 2) : l # <<>>}
Available(rx, gx) == (IF rx = Absent THEN {} ELSE {"rx"}) \cup (IF gx = Absent THEN {} ELSE {"gx"})

SmallFiles ==
    UNION {{AFile(d[1], d[2], d[3], a, v, w) :
              a \in {Variable(l, "value") : l \in Lists(Available(d[1], d[2]) \ {"gx"})} \cup {NoDims(1), NoDims(2)},
              v \in {Variable(l, "value") : l \in Lists(Available(d[1], d[2]))}
                    \cup {Variable(l, "array") : l \in [1..1 -> Available(d[1], d[2])]} \cup {Absent},
              w \in {Variable(<<n>>, "value") : n \in Available(d[1], d[2])}
                    \cup {Variable(<<None>>, "value"), Variable(<<>>, "refused"), Variable(<<>>, "value")}} :
           d \in {d \in Kinds \X Kinds \X BOOLEAN : d[3] => d[1] # Absent /\ d[2] = Absent}}

\* Files whose root uses a dimension of the group below.
Downward ==
    {AFile(rx, Scale, FALSE, Variable(<<"gx">>, "value"), v, Absent) :
       rx \in Kinds, v \in {Variable(<<"gx">>, "value"), Variable(<<"gx", None>>, "value")}}

AllFiles == SmallFiles \cup Downward
==============================================================================

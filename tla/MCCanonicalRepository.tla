----------------------- MODULE MCCanonicalRepository -----------------------
(* Two repositories and a spare name; a call, its retry and one other call. *)
EXTENDS CanonicalRepository, TLC

CONSTANTS q1, q2, q3, q4, o1, o2, o3, a, b, na, nb, nc

Operation == (q1 :> o1) @@ (q2 :> o1) @@ (q3 :> o2) @@ (q4 :> o3)
FirstNames == (a :> na) @@ (b :> nb)
Ask(tool, resource, other) == [tool |-> tool, resource |-> resource, other |-> other]
AllCalls ==
    {Ask("promote", a, a), Ask("promote", b, b), Ask("rollback", a, a), Ask("rename", a, nc),
     Ask("export", a, b), Ask("verify", a, b), Ask("disable", a, a), Ask("repoint", a, a),
     Ask("handover", a, a)}

\* Any two operations, the first of them retried; or two promotions and a retried
\* rollback; or a handover report beside a promotion.
Overlaps ==
    [{o1, o2} -> AllCalls \ {Ask("handover", a, a)}] \cup
    {(o1 :> Ask("rollback", a, a)) @@ (o2 :> Ask("promote", a, a)) @@ (o3 :> Ask("promote", b, b)),
     (o1 :> Ask("handover", a, a)) @@ (o2 :> Ask("promote", a, a))}
=============================================================================

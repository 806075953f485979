-------------------------------- MODULE MCPlan --------------------------------
(* An instance of Plan for TLC. *)
EXTENDS Plan

Plain == [id |-> NoId, uses |-> FALSE, here |-> FALSE, env |-> NoRef, text |-> NoRef]

NoTpl == [target |-> "local", secrets |-> {}, vars |-> {}, env |-> NoRef, jobEnv |-> NoRef,
          steps |-> <<Plain>>]

\* Every graph over three jobs, with up to two needs each, in any order.
MCGraphs ==
  {[needs |-> g, tpl |-> NoTpl] :
     g \in [1..3 -> {<<>>} \cup {<<a>> : a \in 1..4} \cup {<<a, b>> : a, b \in 1..4}]}

\* Jobs 2 and 3 wait for job 1, whose references are looked at.
Chain == <<<<>>, <<1>>, <<2>>>>

\* One step, with every way to define its secret, its var and its env.
MCScopes ==
  {[needs |-> Chain,
    tpl |-> [target |-> tgt, secrets |-> s, vars |-> v, env |-> e0, jobEnv |-> ej,
             steps |-> <<[Plain EXCEPT !.uses = u, !.env = e1, !.text = x]>>]] :
     tgt \in {"local", "t"}, s \in SUBSET {"workflow", "inventory", "target"},
     v \in SUBSET {"v"}, e0, ej \in {NoRef, Secret, Var},
     e1 \in {NoRef, Secret, Var, Env("E"), Out("a", "k")},
     x \in {NoRef, Secret, Var, Env("E"), Env("F")}, u \in BOOLEAN}

Ids == {NoId, "a", "b"}

\* Three steps, with references to one another in both directions.
MCOutputs ==
  {[needs |-> Chain,
    tpl |-> [target |-> w[1], secrets |-> {}, vars |-> {}, env |-> NoRef, jobEnv |-> NoRef,
             steps |-> <<[Plain EXCEPT !.id = i1, !.uses = u1, !.here = w[2], !.text = x1],
                         [Plain EXCEPT !.id = i2, !.uses = u2, !.text = x2],
                         [Plain EXCEPT !.env = e3, !.text = x3]>>]] :
     w \in {<<"local", FALSE>>, <<"t", FALSE>>, <<"t", TRUE>>}, i1, i2 \in Ids, u1, u2 \in BOOLEAN,
     x1, x2 \in {NoRef, Out("a", "k")}, e3 \in {NoRef, Out("a", "k")},
     x3 \in {Env("E"), Out("a", "k"), Out("a", "x"), Out("b", "k")}}

MCDocs == {MCGraphs, MCScopes, MCOutputs}
=============================================================================

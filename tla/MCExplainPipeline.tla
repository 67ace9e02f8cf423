------------------------- MODULE MCExplainPipeline --------------------------
(* Requests and explain replies for the pipeline: every shape the parser     *)
(* tells apart with one connection, and few shapes with two.                 *)
EXTENDS ExplainContent

Str(t) == [str |-> t]
Word(w) == [str |-> <<w>>]
N(n) == [int |-> n]
Doc(d) == [doc |-> d]
Arr(a) == [arr |-> a]
Null == [null |-> 0]

Msg(sections) == [op_msg |-> TRUE, more_to_come |-> FALSE, sections |-> sections]
Body(d) == [body |-> d]
Ops(ident, n) == [identifier |-> ident, documents |-> [i \in 1 .. n |-> <<<<"q", N(i)>>>>]]
Db == <<"$db", Str(<<" ", "db">>)>>
Command(name) == <<<<name, Word("c")>>, Db>>
Find == Msg(<<Body(Command("find"))>>)
Insertion == Msg(<<Body(Command("insert"))>>)

MCRequests ==
  {Find, Msg(<<Body(Command("findandmodify"))>>), Insertion,
   [Find EXCEPT !.op_msg = FALSE], [Find EXCEPT !.more_to_come = TRUE],
   Msg(<<Body(<<>>)>>), Msg(<<>>), Msg(<<Ops("updates", 1)>>),
   Msg(<<Body(<<<<"find", Word("c")>>>>)>>),
   Msg(<<Body(<<<<"find", Word("c")>>, <<"$db", N(1)>>>>)>>),
   Msg(<<Body(<<<<"find", Word("c")>>, <<"$db", Str(<<" ">>)>>>>)>>),
   Msg(<<Body(<<<<"find", Word("c")>>, <<"txnNumber", N(1)>>, <<"filter", Doc(<<>>)>>,
                <<"lsid", Doc(<<>>)>>, Db, <<"limit", N(1)>>, <<"autocommit", N(0)>>,
                <<"startTransaction", N(1)>>, <<"stmtId", N(1)>>, <<"$clusterTime", Doc(<<>>)>>,
                <<"$readPreference", Doc(<<>>)>>, <<"readConcern", Doc(<<>>)>>,
                <<"$readConcern", Doc(<<>>)>>, <<"hint", Word("i")>>>>)>>),
   Msg(<<Body(<<<<"update", Word("c")>>, <<"updates", Arr(<<Doc(<<<<"q", N(1)>>>>)>>)>>, Db>>)>>)}
  \cup {Msg(<<Body(Command(cmd[1])), Ops(cmd[2], n)>>) :
          cmd \in {<<"update", "updates">>, <<"delete", "deletes">>}, n \in 0 .. 2}
  \cup {Msg(<<Ops("deletes", 1), Body(Command("delete"))>>)}

Node(stage, more) == Doc(<<<<"stage", Word(stage)>>, <<"nReturned", N(1)>>>> \o more)
Reply(ok, namespace, time, plan) ==
  <<Msg(<<Body(ok \o <<<<"queryPlanner", Doc(<<<<"namespace", Str(namespace)>>>>)>>,
      <<"executionStats", Doc(<<<<"executionTimeMillis", N(time)>>, <<"nReturned", N(1)>>,
         <<"totalDocsExamined", N(1)>>, <<"totalKeysExamined", N(0)>>,
         <<"executionStages", plan>>>>)>>>>)>>)>>
Ok1 == <<<<"ok", N(1)>>>>
Leaf == Node("COLLSCAN", <<>>)
Good == Reply(Ok1, <<"db", ".", "c">>, 0, Leaf)
WithPlan(plan) == Reply(Ok1, <<"db", ".", "c">>, 0, plan)

Slowly(n) == Node("FETCH", <<<<"executionTimeMillisEstimate", N(n)>>>>)
Over(a) == Node("LIMIT", <<<<"inputStage", a>>>>)
Branch(s) == Node("OR", <<<<"inputStages", Arr(s)>>>>)
Both == Node("OR", <<<<"inputStage", Leaf>>, <<"inputStages", Arr(<<Leaf>>)>>>>)
Range2(lo, hi) == Doc(<<<<"year", Arr(<<Str(lo \o <<",", " ">> \o hi)>>)>>>>)
Pattern(v) == Node("IXSCAN", <<<<"indexName", Word("i")>>, <<"keyPattern", v>>>>)
Bounds(v) == Node("IXSCAN", <<<<"indexBounds", v>>>>)

MCPlans ==
  {Node(s, <<>>) : s \in {"ixscan", "IXSCAN", "EXPRESS_IXSCAN", "express_ixscan", "NEW_STAGE", "new_stage"}}
  \cup {N(1), Doc(<<<<"stage", Word("SORT")>>>>), Doc(<<<<"stage", N(1)>>, <<"nReturned", N(1)>>>>),
        Doc(<<<<"stage", Word("SORT")>>, <<"nReturned", N(-1)>>>>),
        Slowly(-1), Slowly(0), Over(Slowly(3)), Over(Over(Leaf)), Branch(<<>>), Branch(<<Leaf, Slowly(2)>>),
        Branch(<<Over(Leaf), Node("scan", <<<<"direction", Word("backward")>>>>)>>),
        Both, Over(Both), Branch(<<Leaf, Over(Both)>>), Branch(<<Both, Slowly(-1)>>),
        Branch(<<Slowly(-1), Both>>), Over(N(1)), Node("OR", <<<<"inputStages", Leaf>>>>),
        Node("OR", <<<<"inputStage", Null>>, <<"inputStages", Arr(<<Leaf>>)>>>>),
        Node("LIMIT", <<<<"docsExamined", N(2)>>, <<"keysExamined", Null>>,
                        <<"direction", Word("sideways")>>, <<"filter", Doc(<<>>)>>>>),
        Node("LIMIT", <<<<"filter", Word("traverseF")>>>>), Node("LIMIT", <<<<"filter", N(1)>>>>),
        Node("LIMIT", <<<<"indexName", Str(<<>>)>>>>)}
  \cup {Pattern(v) : v \in {Doc(<<<<"b", N(1)>>, <<"a", [f64 |-> -1]>>, <<"g", Word("2d")>>, <<"w", Word("FRESH")>>>>),
                            Doc(<<<<"a", N(2)>>>>), Doc(<<<<"a", Null>>>>), N(1),
                            Str(<<" ", "{", " ", "b", ":", " ", "1", ",", "QUOTE", "a", "QUOTE", ":", "-1.0", " ", "}">>),
                            Str(<<"{", "a", ":", "'", "hashed", "'", "}">>), Str(<<"{", "a", ":", "2", "}">>),
                            Str(<<"{", "}">>), Str(<<"{">>), Str(<<"a">>)}}
  \cup {Bounds(v) : v \in {Range2(<<"[", "1">>, <<"2", "]">>), Range2(<<" ", "(", "-inf">>, <<"MaxKey", ")", " ">>),
                           Range2(<<"[", "a">>, <<"b", ",", " ", "c", ")">>),
                           Range2(<<"[", "a", ",", "b">>, <<"c", "]">>),
                           Range2(<<"1">>, <<"2", "]">>), Range2(<<"[", "1">>, <<"2">>),
                           Doc(<<<<"year", Arr(<<Str(<<"(", "1", ",", "inf", "]">>), Str(<<"[", "]">>)>>)>>>>),
                           Doc(<<<<"year", Arr(<<Str(<<>>)>>)>>>>), Doc(<<<<"year", Arr(<<N(1)>>)>>>>),
                           Doc(<<<<"year", Arr(<<Str(<<"(", "1", ",", "inf", "]">>)>>)>>>>),
                           Doc(<<<<"year", N(1)>>>>), Word("raw"), N(1)}}

MCOks ==
  {<<>>} \cup {<<<<"ok", v>>>> :
     v \in {N(0), N(2), [f64 |-> 1], [f64 |-> 0], [nonFinite |-> 0], Null, Word("1"),
            [bool |-> TRUE], Arr(<<>>), Doc(<<>>), [tag |-> "Timestamp"]}}
MCErrors ==
  {<<Msg(<<Body(<<<<"ok", [f64 |-> 0]>>>> \o d)>>)>> :
     d \in {<<<<"errmsg", Word("no")>>>>,
            <<<<"errmsg", Word("no")>>, <<"code", N(13)>>, <<"codeName", Word("NotWritablePrimary")>>,
              <<"errorLabels", Arr(<<Word("NetworkError"), Word("FRESH")>>)>>>>,
            <<<<"errmsg", Word("no")>>, <<"code", N(0)>>>>, <<<<"code", N(1)>>>>,
            <<<<"errmsg", Word("no")>>, <<"errorLabels", Arr(<<N(1)>>)>>>>}}

MCReplies ==
  {<<>>, <<[Find EXCEPT !.op_msg = FALSE]>>, <<Msg(<<Ops("x", 1)>>)>>, <<Msg(<<Body(Ok1)>>)>>}
  \cup {WithPlan(p) : p \in MCPlans} \cup {Reply(ok, <<"db", ".", "c">>, 0, Leaf) : ok \in MCOks} \cup MCErrors
  \cup {Reply(Ok1, n, t, Slowly(-1)) : t \in {-1, 3},
          n \in {<<"db">>, <<" ", ".", "c">>, <<"db", ".", " ">>, <<"db", " ", ".", "c", ".", "d">>}}

MCLower == [IXSCAN |-> "ixscan", NEW_STAGE |-> "new_stage", FRESH |-> "fresh", EXPRESS_IXSCAN |-> "express_ixscan"]
MCMinId == -3
MCScenes ==
  [replies |-> [connections |-> {"c1"}, most |-> 1, requests |-> {Find}, replies |-> MCReplies],
   requests |-> [connections |-> {"c1"}, most |-> 1, requests |-> MCRequests, replies |-> {Good}],
   long |-> [connections |-> {"c1"}, most |-> 3, requests |-> {Find, Insertion}, replies |-> {Good}],
   sharing |-> [connections |-> {"c1", "c2"}, most |-> 2, replies |-> {Good, <<>>},
                requests |-> {Find, Msg(<<Body(Command("update")), Ops("updates", 2)>>)}]]
=============================================================================
